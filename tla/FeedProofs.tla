----------------------------- MODULE FeedProofs -----------------------------
(***************************************************************************)
(* Proofs about Feed, for any number of subscribers and sends and any       *)
(* capacity: the lists of channels stay exact, and the feed implements the  *)
(* broadcast of module Broadcast.                                           *)
(***************************************************************************)
EXTENDS Feed, TLAPS

USE ZenonT(10), SMTT(60)

Prefix(list, n) == {list[i] : i \in 1..n}

\* Appending to a list adds its element and repeats none.
LEMMA AppendFacts ==
  ASSUME NEW S, NEW list \in Seq(S), NEW s \in S, s \notin Listed(list), Distinct(list)
  PROVE  /\ Append(list, s) \in Seq(S)
         /\ Listed(Append(list, s)) = Listed(list) \cup {s}
         /\ Distinct(Append(list, s))
<1>1. /\ Append(list, s) \in Seq(S) /\ Len(Append(list, s)) = Len(list) + 1 /\ Len(list) \in Nat
      /\ \A i \in 1..Len(list) : Append(list, s)[i] = list[i]
      /\ Append(list, s)[Len(list) + 1] = s
  OBVIOUS
<1> DEFINE a == Append(list, s)
<1> HIDE DEF a
<1>2. Listed(a) = Listed(list) \cup {s}
  <2>1. ASSUME NEW x \in Listed(a) PROVE x \in Listed(list) \cup {s}
    <3>1. PICK i \in 1..Len(a) : x = a[i]
      BY DEF Listed
    <3>2. i \in 1..Len(list) \/ i = Len(list) + 1
      BY <1>1 DEF a
    <3> QED BY <1>1, <3>1, <3>2 DEF Listed, a
  <2>2. ASSUME NEW x \in Listed(list) \cup {s} PROVE x \in Listed(a)
    <3>1. CASE x = s
      <4>1. Len(list) + 1 \in 1..Len(a) /\ a[Len(list) + 1] = x
        BY <1>1, <3>1 DEF a
      <4> QED BY <4>1 DEF Listed
    <3>2. CASE x \in Listed(list)
      <4>1. PICK i \in 1..Len(list) : x = list[i]
        BY <3>2 DEF Listed
      <4>2. i \in 1..Len(a) /\ a[i] = x
        BY <1>1, <4>1 DEF a
      <4> QED BY <4>2 DEF Listed
    <3> QED BY <3>1, <3>2
  <2> QED BY <2>1, <2>2
<1>3. Distinct(a)
  <2> SUFFICES ASSUME NEW i \in 1..Len(a), NEW j \in 1..Len(a), a[i] = a[j] PROVE i = j
    BY DEF Distinct
  <2>1. \A k \in 1..Len(list) : list[k] # s
    BY DEF Listed
  <2>2. (i \in 1..Len(list) \/ i = Len(list) + 1) /\ (j \in 1..Len(list) \/ j = Len(list) + 1)
    BY <1>1 DEF a
  <2> QED BY <1>1, <2>1, <2>2 DEF Distinct, a
<1> QED BY <1>1, <1>2, <1>3 DEF a

\* Joining two disjoint lists keeps the channels of both.
LEMMA ConcatFacts ==
  ASSUME NEW S, NEW l \in Seq(S), NEW m \in Seq(S), Listed(l) \cap Listed(m) = {},
         Distinct(l), Distinct(m)
  PROVE  /\ l \o m \in Seq(S)
         /\ Len(l \o m) = Len(l) + Len(m)
         /\ Listed(l \o m) = Listed(l) \cup Listed(m)
         /\ Distinct(l \o m)
<1>1. /\ l \o m \in Seq(S) /\ Len(l \o m) = Len(l) + Len(m) /\ Len(l) \in Nat /\ Len(m) \in Nat
      /\ \A i \in 1..Len(l) : (l \o m)[i] = l[i]
      /\ \A i \in 1..Len(m) : (l \o m)[Len(l) + i] = m[i]
  OBVIOUS
<1> DEFINE c == l \o m
<1>2. \A i \in 1..Len(c) : i \in 1..Len(l) \/ (i - Len(l) \in 1..Len(m) /\ c[i] = m[i - Len(l)])
  <2> SUFFICES ASSUME NEW i \in 1..Len(c), i \notin 1..Len(l)
               PROVE  i - Len(l) \in 1..Len(m) /\ c[i] = m[i - Len(l)]
    OBVIOUS
  <2>1. i - Len(l) \in 1..Len(m) /\ Len(l) + (i - Len(l)) = i
    BY <1>1
  <2> QED BY <1>1, <2>1
<1> HIDE DEF c
<1>3. Listed(c) = Listed(l) \cup Listed(m)
  <2>1. ASSUME NEW x \in Listed(c) PROVE x \in Listed(l) \cup Listed(m)
    BY <1>1, <1>2 DEF Listed, c
  <2>2. ASSUME NEW x \in Listed(l) PROVE x \in Listed(c)
    <3>1. PICK i \in 1..Len(l) : x = l[i]
      BY DEF Listed
    <3>2. i \in 1..Len(c) /\ c[i] = x
      BY <1>1, <3>1 DEF c
    <3> QED BY <3>2 DEF Listed
  <2>3. ASSUME NEW x \in Listed(m) PROVE x \in Listed(c)
    <3>1. PICK i \in 1..Len(m) : x = m[i]
      BY DEF Listed
    <3>2. Len(l) + i \in 1..Len(c) /\ c[Len(l) + i] = x
      BY <1>1, <3>1 DEF c
    <3> QED BY <3>2 DEF Listed
  <2> QED BY <2>1, <2>2, <2>3
<1>4. Distinct(c)
  <2> SUFFICES ASSUME NEW i \in 1..Len(c), NEW j \in 1..Len(c), c[i] = c[j] PROVE i = j
    BY DEF Distinct
  <2>1. \A a \in 1..Len(l), b \in 1..Len(m) : l[a] # m[b]
    BY DEF Listed
  <2>2. CASE i \in 1..Len(l) /\ j \in 1..Len(l)
    BY <1>1, <2>2 DEF Distinct, c
  <2>3. CASE i \in 1..Len(l) /\ j \notin 1..Len(l)
    BY <1>1, <1>2, <2>1, <2>3 DEF c
  <2>4. CASE i \notin 1..Len(l) /\ j \in 1..Len(l)
    BY <1>1, <1>2, <2>1, <2>4 DEF c
  <2>5. CASE i \notin 1..Len(l) /\ j \notin 1..Len(l)
    <3>1. i - Len(l) = j - Len(l)
      BY <1>2, <2>5, ZenonT(60) DEF Distinct
    <3> QED BY <1>1, <3>1 DEF c
  <2> QED BY <2>2, <2>3, <2>4, <2>5
<1> QED BY <1>1, <1>3, <1>4 DEF c

\* Deleting an element of a list leaves the others, and the prefixes the list
\* had up to it and beyond it.
LEMMA DeleteFacts ==
  ASSUME NEW S, NEW list \in Seq(S), Distinct(list), NEW i \in 1..Len(list)
  PROVE  /\ delete(list, i) \in Seq(S)
         /\ Len(delete(list, i)) = Len(list) - 1
         /\ Listed(delete(list, i)) = Listed(list) \ {list[i]}
         /\ Distinct(delete(list, i))
         /\ \A n \in i..Len(list) : Prefix(delete(list, i), n - 1) = Prefix(list, n) \ {list[i]}
         /\ \A n \in 0..i - 1 : Prefix(delete(list, i), n) = Prefix(list, n) \ {list[i]}
<1> DEFINE d == delete(list, i)
           L == Len(list)
<1>1. L \in Nat /\ L >= 1 /\ list \in [1..L -> S]
  OBVIOUS
<1>2. /\ d = [j \in 1..L - 1 |-> IF j < i THEN list[j] ELSE list[j + 1]]
      /\ \A j \in 1..L - 1 : (IF j < i THEN list[j] ELSE list[j + 1]) \in S
  BY <1>1 DEF delete
<1>3. d \in [1..L - 1 -> S] /\ L - 1 \in Nat
  BY <1>1, <1>2
<1>4. d \in Seq(S) /\ Len(d) = L - 1
  BY <1>3
<1>5. \A j \in 1..L - 1 : d[j] = IF j < i THEN list[j] ELSE list[j + 1]
  BY <1>2
<1>6. \A j, k \in 1..L : list[j] = list[k] => j = k
  BY DEF Distinct
<1> HIDE DEF d
<1>7. ASSUME NEW n \in i..L PROVE Prefix(d, n - 1) = Prefix(list, n) \ {list[i]}
  <2>1. ASSUME NEW x \in Prefix(d, n - 1) PROVE x \in Prefix(list, n) \ {list[i]}
    <3>1. PICK j \in 1..n - 1 : x = d[j]
      BY <2>1 DEF Prefix
    <3>2. PICK k \in 1..n : x = list[k] /\ k # i
      BY <1>1, <1>5, <3>1
    <3> QED BY <1>1, <1>6, <3>2 DEF Prefix
  <2>2. ASSUME NEW x \in Prefix(list, n) \ {list[i]} PROVE x \in Prefix(d, n - 1)
    <3>1. PICK k \in 1..n : x = list[k]
      BY <2>2 DEF Prefix
    <3>2. k # i
      BY <2>2, <3>1
    <3>3. CASE k < i
      <4>1. k \in 1..n - 1 /\ d[k] = x
        BY <1>1, <1>5, <3>1, <3>3
      <4> QED BY <4>1 DEF Prefix
    <3>4. CASE k > i
      <4>1. k - 1 \in 1..n - 1 /\ d[k - 1] = x
        BY <1>1, <1>5, <3>1, <3>4
      <4> QED BY <4>1 DEF Prefix
    <3> QED BY <3>2, <3>3, <3>4
  <2> QED BY <2>1, <2>2
<1>8. ASSUME NEW n \in 0..i - 1 PROVE Prefix(d, n) = Prefix(list, n) \ {list[i]}
  <2>1. \A j \in 1..n : j \in 1..L - 1 /\ d[j] = list[j] /\ list[j] # list[i]
    BY <1>1, <1>5, <1>6
  <2> QED BY <2>1 DEF Prefix
<1>9. Listed(d) = Listed(list) \ {list[i]}
  <2>1. Listed(d) = Prefix(d, L - 1) /\ Listed(list) = Prefix(list, L)
    BY <1>4 DEF Listed, Prefix
  <2>2. L \in i..L
    BY <1>1
  <2> QED BY <1>7, <2>1, <2>2
<1>10. Distinct(d)
  <2> SUFFICES ASSUME NEW j \in 1..L - 1, NEW k \in 1..L - 1, d[j] = d[k] PROVE j = k
    BY <1>4 DEF Distinct
  <2>1. \A m \in 1..L - 1 : \/ m < i /\ d[m] = list[m] /\ m \in 1..L
                            \/ m >= i /\ d[m] = list[m + 1] /\ m + 1 \in 1..L
    BY <1>1, <1>5
  <2> QED BY <1>1, <1>6, <2>1
<1> QED BY <1>4, <1>7, <1>8, <1>9, <1>10 DEF d

\* Deactivating case i of the first n takes it out of the prefix and out of
\* nothing else.
LEMMA DeactivateFacts ==
  ASSUME NEW S, NEW list \in Seq(S), Distinct(list), NEW n \in 1..Len(list), NEW i \in 1..n
  PROVE  /\ deactivate(list, i, n) \in Seq(S)
         /\ Len(deactivate(list, i, n)) = Len(list)
         /\ Listed(deactivate(list, i, n)) = Listed(list)
         /\ Distinct(deactivate(list, i, n))
         /\ Prefix(deactivate(list, i, n), n - 1) = Prefix(list, n) \ {list[i]}
<1> DEFINE d == deactivate(list, i, n)
           L == Len(list)
           other(j) == IF j = n THEN i ELSE IF j = i THEN n ELSE j
<1>1. L \in Nat /\ L >= 1 /\ list \in [1..L -> S] /\ i \in 1..L /\ n \in 1..L
  OBVIOUS
<1>2. d = [list EXCEPT ![i] = list[n], ![n] = list[i]]
  BY DEF deactivate
<1>3. d \in [1..L -> S]
  BY <1>1, <1>2
<1>4. d \in Seq(S) /\ Len(d) = L
  BY <1>1, <1>3
<1>5. \A j \in 1..L : d[j] = list[other(j)]
  BY <1>1, <1>2
<1>6. \A j \in 1..L : other(j) \in 1..L /\ other(other(j)) = j
  BY <1>1
<1>7. \A j, k \in 1..L : list[j] = list[k] => j = k
  BY DEF Distinct
<1> HIDE DEF d, other
<1>8. Listed(d) = Listed(list)
  <2>1. \A j \in 1..L : \E k \in 1..L : d[j] = list[k]
    BY <1>5, <1>6
  <2>2. \A j \in 1..L : \E k \in 1..L : list[j] = d[k]
    BY <1>5, <1>6
  <2>3. ASSUME NEW x \in Listed(d) PROVE x \in Listed(list)
    <3>1. PICK j \in 1..L : x = d[j]
      BY <1>4, <2>3 DEF Listed
    <3>2. PICK k \in 1..L : d[j] = list[k]
      BY <2>1
    <3> QED BY <3>1, <3>2 DEF Listed
  <2>4. ASSUME NEW x \in Listed(list) PROVE x \in Listed(d)
    <3>1. PICK j \in 1..L : x = list[j]
      BY <2>4 DEF Listed
    <3>2. PICK k \in 1..L : list[j] = d[k]
      BY <2>2, ZenonT(60)
    <3> QED BY <1>4, <3>1, <3>2 DEF Listed
  <2> QED BY <2>3, <2>4, ZenonT(60)
<1>9. Distinct(d)
  <2> SUFFICES ASSUME NEW j \in 1..L, NEW k \in 1..L, d[j] = d[k] PROVE j = k
    BY <1>4 DEF Distinct
  <2>1. other(j) = other(k)
    BY <1>5, <1>6, <1>7
  <2> QED BY <1>6, <2>1
<1>10. Prefix(d, n - 1) = Prefix(list, n) \ {list[i]}
  <2>1. ASSUME NEW x \in Prefix(d, n - 1) PROVE x \in Prefix(list, n) \ {list[i]}
    <3>1. PICK j \in 1..n - 1 : x = d[j]
      BY <2>1 DEF Prefix
    <3>2. j \in 1..L /\ other(j) \in 1..n /\ other(j) # i
      BY <1>1, <3>1 DEF other
    <3>3. x = list[other(j)] /\ x # list[i]
      BY <1>1, <1>5, <1>6, <1>7, <3>1, <3>2
    <3> QED BY <3>2, <3>3 DEF Prefix
  <2>2. ASSUME NEW x \in Prefix(list, n) \ {list[i]} PROVE x \in Prefix(d, n - 1)
    <3>1. PICK k \in 1..n : x = list[k]
      BY <2>2 DEF Prefix
    <3>2. k # i /\ k \in 1..L
      BY <1>1, <2>2, <3>1
    <3>3. other(k) \in 1..n - 1 /\ other(k) \in 1..L
      BY <1>1, <3>1, <3>2 DEF other
    <3>4. d[other(k)] = x
      BY <1>5, <1>6, <3>1, <3>2, <3>3
    <3> QED BY <3>3, <3>4 DEF Prefix
  <2> QED BY <2>1, <2>2
<1> QED BY <1>4, <1>8, <1>9, <1>10 DEF d

\* find returns a position of the channel.
LEMMA FindFacts ==
  ASSUME NEW list, NEW s, In(s, list)
  PROVE  find(list, s) \in 1..Len(list) /\ list[find(list, s)] = s
BY DEF find, In

-----------------------------------------------------------------------------
(* The inductive invariant *)

\* Who holds the send lock is serving the cases, and nobody else; the prefix
\* is empty when nobody does and when Send is about to return.
Locking ==
  /\ \A v \in Sends : pc[v] \in {"try", "select", "return"} <=> sendLock = v
  /\ sendLock = NoSend => cases = 0
  /\ \A v \in Sends : pc[v] = "return" => cases = 0
  /\ \A v \in Sends : pc[v] = "try" => index >= 1

IInv == TypeOK /\ CasesExact /\ Locking

\* A feed nobody has subscribed to satisfies the invariant.
LEMMA InitInv == Init => IInv
<1> SUFFICES ASSUME Init PROVE IInv
  OBVIOUS
<1> USE DEF Init
<1>1. TypeOK
  <2>1. <<>> \in Seq(Subs) /\ <<>> \in Seq(Sends) /\ Len(<<>>) = 0
    OBVIOUS
  <2> QED BY <2>1, CapAssumption DEF TypeOK
<1>2. CasesExact
  <2>1. Listed(<<>>) = {} /\ Distinct(<<>>)
    BY DEF Listed, Distinct
  <2> QED BY <2>1 DEF CasesExact
<1>3. Locking
  BY SendsAssumption DEF Locking
<1> QED BY <1>1, <1>2, <1>3 DEF IInv

\* The channels of either list, with what the invariant says of them.
LEMMA ListFacts ==
  ASSUME IInv
  PROVE  /\ inbox \in Seq(Subs) /\ sendCases \in Seq(Subs) /\ Len(sendCases) \in Nat
         /\ Distinct(inbox) /\ Distinct(sendCases)
         /\ Listed(inbox) \cap Listed(sendCases) = {}
         /\ \A s \in Subs : In(s, inbox) <=> s \in Listed(inbox)
         /\ \A s \in Subs : In(s, sendCases) <=> s \in Listed(sendCases)
         /\ Active = Prefix(sendCases, cases) /\ Active \subseteq Listed(sendCases)
<1>1. \A s \in Subs : (In(s, inbox) <=> s \in Listed(inbox)) /\ (In(s, sendCases) <=> s \in Listed(sendCases))
  BY DEF In, Listed
<1>2. inbox \in Seq(Subs) /\ sendCases \in Seq(Subs) /\ Len(sendCases) \in Nat /\ cases \in 0..Len(sendCases)
  BY DEF IInv, TypeOK
<1>3. Active = Prefix(sendCases, cases) /\ Active \subseteq Listed(sendCases)
  BY <1>2 DEF Active, Prefix, Listed
<1> QED BY <1>1, <1>2, <1>3 DEF IInv, CasesExact

\* Serving a case delivers its value and takes the channel out of the prefix.
LEMMA ServeFacts ==
  ASSUME IInv, NEW v \in Sends, NEW i \in 1..cases, Serve(v, i)
  PROVE  /\ sendCases[i] \in Active
         /\ sendCases' \in Seq(Subs) /\ Len(sendCases') = Len(sendCases)
         /\ Listed(sendCases') = Listed(sendCases) /\ Distinct(sendCases')
         /\ cases' \in 0..Len(sendCases') /\ nsent' \in Nat
         /\ Active' = Active \ {sendCases[i]}
         /\ log' = [log EXCEPT ![sendCases[i]] = Append(@, v)]
         /\ log' \in [Subs -> Seq(Sends)]
         /\ buffer' \in [Subs -> Seq(Sends)]
         /\ \A s \in Subs : Len(buffer'[s]) <= Cap
<1>1. /\ sendCases \in Seq(Subs) /\ Distinct(sendCases) /\ cases \in 1..Len(sendCases)
      /\ i \in 1..Len(sendCases) /\ cases \in Nat /\ nsent \in Nat /\ Len(sendCases) \in Nat
  BY ListFacts DEF IInv, TypeOK
<1>2. sendCases' = deactivate(sendCases, i, cases) /\ cases' = cases - 1 /\ nsent' = nsent + 1
  BY DEF Serve
<1>3. /\ sendCases' \in Seq(Subs) /\ Len(sendCases') = Len(sendCases)
      /\ Listed(sendCases') = Listed(sendCases) /\ Distinct(sendCases')
      /\ Prefix(sendCases', cases - 1) = Prefix(sendCases, cases) \ {sendCases[i]}
  BY <1>1, <1>2, DeactivateFacts, ZenonT(60)
<1>4. sendCases[i] \in Subs
  BY <1>1
<1>5. /\ log' = [log EXCEPT ![sendCases[i]] = Append(@, v)]
      /\ buffer' = [buffer EXCEPT ![sendCases[i]] = Append(@, v)]
      /\ Len(buffer[sendCases[i]]) < Cap
  BY DEF Serve, HasRoom
<1>6. buffer \in [Subs -> Seq(Sends)] /\ log \in [Subs -> Seq(Sends)] /\ \A s \in Subs : Len(buffer[s]) <= Cap
  BY DEF IInv, TypeOK
<1>7. log' \in [Subs -> Seq(Sends)] /\ buffer' \in [Subs -> Seq(Sends)]
  BY <1>4, <1>5, <1>6
<1>8. \A s \in Subs : Len(buffer'[s]) <= Cap
  <2> SUFFICES ASSUME NEW s \in Subs PROVE Len(buffer'[s]) <= Cap
    OBVIOUS
  <2>1. CASE s = sendCases[i]
    <3>1. buffer'[s] = Append(buffer[s], v) /\ buffer[s] \in Seq(Sends) /\ Len(buffer[s]) < Cap
      BY <1>4, <1>5, <1>6, <2>1
    <3> QED BY <3>1, CapAssumption
  <2>2. CASE s # sendCases[i]
    BY <1>4, <1>5, <1>6, <2>2
  <2> QED BY <2>1, <2>2
<1>9. Active' = Active \ {sendCases[i]} /\ sendCases[i] \in Active
  BY <1>1, <1>2, <1>3, ZenonT(60) DEF Active, Prefix
<1>10. cases' \in 0..Len(sendCases') /\ nsent' \in Nat
  BY <1>1, <1>2, <1>3
<1> QED BY <1>3, <1>5, <1>7, <1>8, <1>9, <1>10

\* Removing a channel that is a send case takes it out of the cases, and out
\* of the prefix if it is there.
LEMMA RemoveFacts ==
  ASSUME IInv, NEW s \in Subs, sub[s] = "removing",
         sendCases' = delete(sendCases, find(sendCases, s)),
         cases' = ShrinkIfActive(find(sendCases, s))
  PROVE  /\ s \in Listed(sendCases)
         /\ sendCases' \in Seq(Subs) /\ Distinct(sendCases')
         /\ Listed(sendCases') = Listed(sendCases) \ {s}
         /\ cases' \in 0..Len(sendCases')
         /\ Active' = Active \ {s}
<1> DEFINE i == find(sendCases, s)
<1>1. /\ sendCases \in Seq(Subs) /\ Distinct(sendCases) /\ Len(sendCases) \in Nat
      /\ In(s, sendCases) /\ s \in Listed(sendCases) /\ cases \in 0..Len(sendCases)
  BY ListFacts DEF IInv, TypeOK, CasesExact
<1>2. i \in 1..Len(sendCases) /\ sendCases[i] = s
  BY <1>1, FindFacts
<1>3. sendCases' = delete(sendCases, i) /\ cases' = IF i <= cases THEN cases - 1 ELSE cases
  BY DEF ShrinkIfActive
<1> HIDE DEF i
<1>4. /\ sendCases' \in Seq(Subs) /\ Distinct(sendCases') /\ Len(sendCases') = Len(sendCases) - 1
      /\ Listed(sendCases') = Listed(sendCases) \ {s}
      /\ \A n \in i..Len(sendCases) : Prefix(sendCases', n - 1) = Prefix(sendCases, n) \ {s}
      /\ \A n \in 0..i - 1 : Prefix(sendCases', n) = Prefix(sendCases, n) \ {s}
  BY <1>1, <1>2, <1>3, DeleteFacts
<1>5. CASE i <= cases
  <2>1. cases \in i..Len(sendCases) /\ cases' = cases - 1 /\ cases' \in 0..Len(sendCases')
    BY <1>1, <1>2, <1>3, <1>4, <1>5
  <2>2. Active' = Active \ {s}
    BY <1>4, <2>1, ZenonT(60) DEF Active, Prefix
  <2> QED BY <1>1, <1>4, <2>1, <2>2
<1>6. CASE ~(i <= cases)
  <2>1. cases \in 0..i - 1 /\ cases' = cases /\ cases' \in 0..Len(sendCases')
    BY <1>1, <1>2, <1>3, <1>4, <1>6
  <2>2. Active' = Active \ {s}
    BY <1>4, <2>1, ZenonT(60) DEF Active, Prefix
  <2> QED BY <1>1, <1>4, <2>1, <2>2
<1> QED BY <1>5, <1>6

\* Every step keeps the invariant.
LEMMA NextInv ==
  ASSUME IInv, [Next]_vars
  PROVE  IInv'
<1>0. TypeOK /\ CasesExact /\ Locking
  BY DEF IInv
<1> USE <1>0
<1>1. ASSUME NEW s \in Subs, Subscribe(s) PROVE IInv'
  <2>1. /\ sub[s] = "new" /\ sub' = [sub EXCEPT ![s] = "on"] /\ inbox' = Append(inbox, s)
        /\ UNCHANGED <<sendCases, sendVars, buffer, log>>
    BY <1>1 DEF Subscribe
  <2>2. s \notin Listed(inbox) /\ s \notin Listed(sendCases)
    BY <2>1 DEF CasesExact
  <2>3. inbox' \in Seq(Subs) /\ Listed(inbox') = Listed(inbox) \cup {s} /\ Distinct(inbox')
    BY <2>1, <2>2, AppendFacts DEF TypeOK, CasesExact
  <2>4. TypeOK'
    BY <2>1, <2>3 DEF TypeOK, sendVars
  <2>5. CasesExact'
    <3>1. sendCases' = sendCases /\ sub \in [Subs -> {"new", "on", "removing", "off"}]
      BY <2>1 DEF TypeOK
    <3>2. \A t \in Subs : sub'[t] = "removing" => sub[t] = "removing"
      BY <2>1, <3>1
    <3>3. {t \in Subs : sub'[t] \in {"on", "removing"}} = {t \in Subs : sub[t] \in {"on", "removing"}} \cup {s}
      BY <2>1, <3>1
    <3> QED BY <2>2, <2>3, <3>1, <3>2, <3>3 DEF CasesExact
  <2>6. Locking'
    BY <2>1 DEF Locking, sendVars
  <2> QED BY <2>4, <2>5, <2>6 DEF IInv
<1>2. ASSUME NEW s \in Subs, Unsubscribe(s), InInbox(s) PROVE IInv'
  <2>1. /\ sub[s] = "on" /\ sub' = [sub EXCEPT ![s] = "off"]
        /\ inbox' = delete(inbox, find(inbox, s))
        /\ UNCHANGED <<sendCases, sendVars, buffer, log>>
    BY <1>2 DEF Unsubscribe
  <2>2. find(inbox, s) \in 1..Len(inbox) /\ inbox[find(inbox, s)] = s /\ s \in Listed(inbox)
    BY <1>2, FindFacts DEF InInbox, Listed
  <2>3. inbox' \in Seq(Subs) /\ Listed(inbox') = Listed(inbox) \ {s} /\ Distinct(inbox')
    <3> DEFINE i == find(inbox, s)
    <3>1. inbox \in Seq(Subs) /\ Distinct(inbox)
      BY DEF TypeOK, CasesExact
    <3>2. i \in 1..Len(inbox) /\ inbox[i] = s /\ inbox' = delete(inbox, i)
      BY <2>1, <2>2
    <3> HIDE DEF i
    <3> QED BY <3>1, <3>2, DeleteFacts
  <2>4. TypeOK'
    BY <2>1, <2>3 DEF TypeOK, sendVars
  <2>5. CasesExact'
    <3>1. sendCases' = sendCases /\ sub \in [Subs -> {"new", "on", "removing", "off"}]
      BY <2>1 DEF TypeOK
    <3>2. \A t \in Subs : sub'[t] = "removing" => sub[t] = "removing"
      BY <2>1, <3>1
    <3>3. {t \in Subs : sub'[t] \in {"on", "removing"}} = {t \in Subs : sub[t] \in {"on", "removing"}} \ {s}
      BY <2>1, <3>1
    <3>4. s \notin Listed(sendCases)
      BY <2>2 DEF CasesExact
    <3> QED BY <2>3, <3>1, <3>2, <3>3, <3>4 DEF CasesExact
  <2>6. Locking'
    BY <2>1 DEF Locking, sendVars
  <2> QED BY <2>4, <2>5, <2>6 DEF IInv
<1>3. ASSUME NEW s \in Subs, Unsubscribe(s), ~InInbox(s) PROVE IInv'
  <2>1. /\ sub[s] = "on" /\ sub' = [sub EXCEPT ![s] = "removing"]
        /\ UNCHANGED <<inbox, sendCases, sendVars, buffer, log>>
    BY <1>3 DEF Unsubscribe
  <2>2. TypeOK'
    BY <2>1 DEF TypeOK, sendVars
  <2>3. CasesExact'
    <3>1. sub \in [Subs -> {"new", "on", "removing", "off"}]
      BY DEF TypeOK
    <3>2. \A t \in Subs : sub'[t] = "removing" => sub[t] = "removing" \/ t = s
      BY <2>1, <3>1
    <3>3. {t \in Subs : sub'[t] \in {"on", "removing"}} = {t \in Subs : sub[t] \in {"on", "removing"}}
      BY <2>1, <3>1
    <3>4. s \notin Listed(inbox)
      BY <1>3 DEF InInbox, In, Listed
    <3>5. s \in Listed(sendCases)
      BY <2>1, <3>4 DEF CasesExact
    <3>6. In(s, sendCases)
      BY <3>5 DEF In, Listed
    <3> QED BY <2>1, <3>2, <3>3, <3>6 DEF CasesExact
  <2>4. Locking'
    BY <2>1 DEF Locking, sendVars
  <2> QED BY <2>2, <2>3, <2>4 DEF IInv
\* What removing s from the cases does to CasesExact.
<1>4. ASSUME NEW s \in Subs, sub[s] = "removing", sub' = [sub EXCEPT ![s] = "off"],
             inbox' = inbox, Listed(sendCases') = Listed(sendCases) \ {s}, Distinct(sendCases'),
             s \in Listed(sendCases)
      PROVE  CasesExact'
  <2>1. sub \in [Subs -> {"new", "on", "removing", "off"}]
    BY DEF TypeOK
  <2>2. \A t \in Subs : sub'[t] = "removing" => sub[t] = "removing" /\ t # s
    BY <1>4, <2>1
  <2>3. {t \in Subs : sub'[t] \in {"on", "removing"}} = {t \in Subs : sub[t] \in {"on", "removing"}} \ {s}
    BY <1>4, <2>1
  <2>4. \A t \in Subs : sub[t] = "removing" => t \in Listed(sendCases)
    BY DEF CasesExact, In, Listed
  <2>5. \A t \in Subs : sub'[t] = "removing" => In(t, sendCases')
    BY <1>4, <2>2, <2>4 DEF In, Listed
  <2>6. s \notin Listed(inbox)
    BY <1>4 DEF CasesExact
  <2> QED BY <1>4, <2>3, <2>5, <2>6 DEF CasesExact
<1>5. ASSUME NEW s \in Subs, RemoveIdle(s) PROVE IInv'
  <2>1. /\ sub[s] = "removing" /\ sub' = [sub EXCEPT ![s] = "off"] /\ sendLock = NoSend
        /\ sendCases' = delete(sendCases, find(sendCases, s))
        /\ UNCHANGED <<inbox, sendVars, buffer, log>>
    BY <1>5 DEF RemoveIdle
  <2>2. cases = 0 /\ cases' = 0
    BY <2>1 DEF Locking, sendVars
  <2>3. cases' = ShrinkIfActive(find(sendCases, s))
    <3>1. In(s, sendCases) /\ sendCases \in Seq(Subs)
      BY <2>1 DEF CasesExact, TypeOK
    <3>2. find(sendCases, s) \in 1..Len(sendCases) /\ Len(sendCases) \in Nat
      BY <3>1, FindFacts
    <3> QED BY <2>2, <3>2 DEF ShrinkIfActive
  <2>4. /\ s \in Listed(sendCases) /\ sendCases' \in Seq(Subs) /\ Distinct(sendCases')
        /\ Listed(sendCases') = Listed(sendCases) \ {s} /\ cases' \in 0..Len(sendCases')
    BY <2>1, <2>3, RemoveFacts
  <2>5. TypeOK'
    BY <2>1, <2>4 DEF TypeOK, sendVars
  <2>6. CasesExact'
    BY <1>4, <2>1, <2>4, ZenonT(60)
  <2>7. Locking'
    BY <2>1 DEF Locking, sendVars
  <2> QED BY <2>5, <2>6, <2>7 DEF IInv
<1>6. ASSUME NEW s \in Subs, Receive(s) PROVE IInv'
  <2>1. /\ buffer[s] # <<>> /\ buffer' = [buffer EXCEPT ![s] = Tail(@)]
        /\ UNCHANGED <<subVars, sendCases, sendVars, log>>
    BY <1>6 DEF Receive
  <2>2. buffer' \in [Subs -> Seq(Sends)] /\ \A t \in Subs : Len(buffer'[t]) <= Cap
    <3>1. buffer \in [Subs -> Seq(Sends)] /\ \A t \in Subs : Len(buffer[t]) <= Cap
      BY DEF TypeOK
    <3>2. buffer[s] \in Seq(Sends) /\ Tail(buffer[s]) \in Seq(Sends) /\ Len(Tail(buffer[s])) = Len(buffer[s]) - 1
          /\ Len(buffer[s]) \in Nat
      BY <2>1, <3>1
    <3>3. Len(Tail(buffer[s])) <= Cap
      BY <3>1, <3>2, CapAssumption
    <3> QED BY <2>1, <3>1, <3>2, <3>3
  <2>3. TypeOK'
    BY <2>1, <2>2 DEF TypeOK, sendVars, subVars
  <2>4. CasesExact' /\ Locking'
    BY <2>1 DEF CasesExact, Locking, sendVars, subVars
  <2> QED BY <2>3, <2>4 DEF IInv
<1>7. ASSUME NEW v \in Sends, Collect(v) PROVE IInv'
  <2>1. /\ pc[v] = "start" /\ sendLock = NoSend /\ sendLock' = v
        /\ sendCases' = sendCases \o inbox /\ inbox' = <<>>
        /\ cases' = Len(sendCases) + Len(inbox) /\ index' = 1 /\ nsent' = 0
        /\ pc' = [pc EXCEPT ![v] = "try"] /\ UNCHANGED <<sub, buffer, log>>
    BY <1>7 DEF Collect, LockFree
  <2>2. sendCases \in Seq(Subs) /\ inbox \in Seq(Subs)
    BY DEF TypeOK
  <2>3. /\ sendCases' \in Seq(Subs) /\ Len(sendCases') = cases' /\ cases' \in Nat
        /\ Listed(sendCases') = Listed(sendCases) \cup Listed(inbox) /\ Distinct(sendCases')
    <3>1. Listed(sendCases) \cap Listed(inbox) = {} /\ Distinct(sendCases) /\ Distinct(inbox)
      BY DEF CasesExact
    <3>2. Len(sendCases) \in Nat /\ Len(inbox) \in Nat
      BY <2>2
    <3> QED BY <2>1, <2>2, <3>1, <3>2, ConcatFacts
  <2>4. TypeOK'
    <3>1. inbox' \in Seq(Subs) /\ cases' \in 0..Len(sendCases')
      BY <2>1, <2>3
    <3> QED BY <2>1, <2>3, <3>1 DEF TypeOK
  <2>5. CasesExact'
    <3>1. Listed(<<>>) = {} /\ Distinct(<<>>)
      BY DEF Listed, Distinct
    <3>2. \A t \in Subs : sub[t] = "removing" => In(t, sendCases')
      <4>1. \A t \in Subs : sub[t] = "removing" => t \in Listed(sendCases)
        BY DEF CasesExact, In, Listed
      <4>2. Listed(sendCases) \subseteq Listed(sendCases')
        BY <2>3
      <4> QED BY <4>1, <4>2, ZenonT(60) DEF In, Listed
    <3> QED BY <2>1, <2>3, <3>1, <3>2 DEF CasesExact
  <2>6. Locking'
    <3>1. pc \in [Sends -> {"start", "try", "select", "return", "done"}]
      BY DEF TypeOK
    <3>2. \A w \in Sends : pc[w] \notin {"try", "select", "return"}
      BY <2>1, SendsAssumption DEF Locking
    <3> QED BY <2>1, <3>1, <3>2, SendsAssumption DEF Locking
  <2> QED BY <2>4, <2>5, <2>6 DEF IInv
\* What serving a case does to the lists.
<1>8. ASSUME NEW v \in Sends, NEW i \in 1..cases, Serve(v, i), UNCHANGED subVars
      PROVE  CasesExact'
  <2>1. Listed(sendCases') = Listed(sendCases) /\ Distinct(sendCases')
    BY <1>8, ServeFacts
  <2>2. sub' = sub /\ inbox' = inbox
    BY <1>8 DEF subVars
  <2>3. \A t \in Subs : In(t, sendCases) => In(t, sendCases')
    BY <2>1, ZenonT(60) DEF In, Listed
  <2> QED BY <2>1, <2>2, <2>3 DEF CasesExact
<1>9. ASSUME NEW v \in Sends, TrySend(v), HasRoom(sendCases[index]) PROVE IInv'
  <2>1. /\ pc[v] = "try" /\ index <= cases /\ Serve(v, index)
        /\ UNCHANGED <<subVars, sendLock, pc, index>>
    BY <1>9 DEF TrySend
  <2>2. index \in 1..cases
    BY <2>1 DEF Locking, TypeOK
  <2>3. /\ sendCases' \in Seq(Subs) /\ cases' \in 0..Len(sendCases') /\ nsent' \in Nat
        /\ log' \in [Subs -> Seq(Sends)] /\ buffer' \in [Subs -> Seq(Sends)]
        /\ \A s \in Subs : Len(buffer'[s]) <= Cap
    BY <2>1, <2>2, ServeFacts
  <2>4. TypeOK'
    BY <2>1, <2>3 DEF TypeOK, subVars
  <2>5. CasesExact'
    BY <1>8, <2>1, <2>2
  <2>6. Locking'
    <3>1. sendLock = v /\ pc[v] # "return"
      BY <2>1 DEF Locking
    <3> QED BY <2>1, <3>1, SendsAssumption DEF Locking
  <2> QED BY <2>4, <2>5, <2>6 DEF IInv
<1>10. ASSUME NEW v \in Sends, TrySend(v), ~HasRoom(sendCases[index]) PROVE IInv'
  <2>1. /\ pc[v] = "try" /\ index' = index + 1
        /\ UNCHANGED <<subVars, sendLock, pc, sendCases, cases, nsent, buffer, log>>
    BY <1>10 DEF TrySend, Serve
  <2>2. TypeOK' /\ CasesExact'
    BY <2>1 DEF TypeOK, CasesExact, subVars
  <2>3. Locking'
    BY <2>1 DEF Locking, TypeOK
  <2> QED BY <2>2, <2>3 DEF IInv
<1>11. ASSUME NEW v \in Sends, Tried(v) PROVE IInv'
  <2>1. /\ pc[v] = "try" /\ pc' = [pc EXCEPT ![v] = IF cases = 0 THEN "return" ELSE "select"]
        /\ UNCHANGED <<subVars, sendCases, sendLock, cases, index, nsent, buffer, log>>
    BY <1>11 DEF Tried
  <2>2. TypeOK' /\ CasesExact'
    BY <2>1 DEF TypeOK, CasesExact, subVars
  <2>3. Locking'
    BY <2>1 DEF Locking, TypeOK
  <2> QED BY <2>2, <2>3 DEF IInv
<1>12. ASSUME NEW v \in Sends, SelectSend(v) PROVE IInv'
  <2>1. PICK i \in 1..cases : Serve(v, i)
    BY <1>12 DEF SelectSend
  <2>2. /\ pc[v] = "select" /\ pc' = [pc EXCEPT ![v] = "try"] /\ index' = 1
        /\ UNCHANGED <<subVars, sendLock>>
    BY <1>12 DEF SelectSend
  <2>3. /\ sendCases' \in Seq(Subs) /\ cases' \in 0..Len(sendCases') /\ nsent' \in Nat
        /\ log' \in [Subs -> Seq(Sends)] /\ buffer' \in [Subs -> Seq(Sends)]
        /\ \A s \in Subs : Len(buffer'[s]) <= Cap
    BY <2>1, ServeFacts
  <2>4. TypeOK'
    BY <2>2, <2>3 DEF TypeOK, subVars
  <2>5. CasesExact'
    BY <1>8, <2>1, <2>2
  <2>6. Locking'
    <3>1. sendLock = v /\ pc \in [Sends -> {"start", "try", "select", "return", "done"}]
      BY <2>2 DEF Locking, TypeOK
    <3> QED BY <2>2, <3>1, SendsAssumption DEF Locking
  <2> QED BY <2>4, <2>5, <2>6 DEF IInv
<1>13. ASSUME NEW v \in Sends, NEW s \in Subs, SelectRemove(v, s) PROVE IInv'
  <2>1. /\ pc[v] = "select" /\ sub[s] = "removing" /\ sub' = [sub EXCEPT ![s] = "off"]
        /\ sendCases' = delete(sendCases, find(sendCases, s))
        /\ cases' = ShrinkIfActive(find(sendCases, s))
        /\ pc' = [pc EXCEPT ![v] = "try"] /\ index' = 1
        /\ UNCHANGED <<inbox, sendLock, nsent, buffer, log>>
    BY <1>13 DEF SelectRemove
  <2>2. /\ s \in Listed(sendCases) /\ sendCases' \in Seq(Subs) /\ Distinct(sendCases')
        /\ Listed(sendCases') = Listed(sendCases) \ {s} /\ cases' \in 0..Len(sendCases')
    BY <2>1, RemoveFacts
  <2>3. TypeOK'
    BY <2>1, <2>2 DEF TypeOK
  <2>4. CasesExact'
    BY <1>4, <2>1, <2>2, ZenonT(60)
  <2>5. Locking'
    <3>1. sendLock = v /\ pc \in [Sends -> {"start", "try", "select", "return", "done"}]
      BY <2>1 DEF Locking, TypeOK
    <3> QED BY <2>1, <3>1, SendsAssumption DEF Locking
  <2> QED BY <2>3, <2>4, <2>5 DEF IInv
<1>14. ASSUME NEW v \in Sends, Return(v) PROVE IInv'
  <2>1. /\ pc[v] = "return" /\ pc' = [pc EXCEPT ![v] = "done"] /\ sendLock' = NoSend
        /\ UNCHANGED <<subVars, sendCases, cases, index, nsent, buffer, log>>
    BY <1>14 DEF Return, HandOver
  <2>2. TypeOK' /\ CasesExact'
    BY <2>1 DEF TypeOK, CasesExact, subVars
  <2>3. Locking'
    <3>1. sendLock = v /\ cases = 0
      BY <2>1 DEF Locking
    <3> QED BY <2>1, <3>1, SendsAssumption DEF Locking, TypeOK
  <2> QED BY <2>2, <2>3 DEF IInv
<1>15. CASE UNCHANGED vars
  BY <1>15 DEF vars, subVars, sendVars, IInv, TypeOK, CasesExact, Locking
<1>16. CASE Next
  <2>1. CASE \E s \in Subs : Subscribe(s) \/ Unsubscribe(s) \/ RemoveIdle(s) \/ Receive(s)
    BY <1>1, <1>2, <1>3, <1>5, <1>6, <2>1
  <2>2. CASE \E v \in Sends : SendStep(v)
    BY <1>7, <1>9, <1>10, <1>11, <1>12, <1>13, <1>14, <2>2 DEF SendStep
  <2> QED BY <1>16, <2>1, <2>2 DEF Next
<1> QED BY <1>15, <1>16

\* Whatever Subscribe, remove and Send do, the invariant holds.
LEMMA Invariance == Spec => []IInv
BY InitInv, NextInv, PTL DEF Spec

\* Feed's state stays in range and no channel is filled beyond its capacity,
\* for any number of subscribers and sends.
THEOREM TypeCorrect == Spec => []TypeOK
<1>1. IInv => TypeOK
  BY DEF IInv
<1> QED BY <1>1, Invariance, PTL

\* Subscribe, Unsubscribe and Send never lose or repeat a channel.
THEOREM ChannelsExact == Spec => []CasesExact
<1>1. IInv => CasesExact
  BY DEF IInv
<1> QED BY <1>1, Invariance, PTL

-----------------------------------------------------------------------------
(* The feed implements the broadcast *)

All == Listed(inbox) \cup Listed(sendCases)
Begun == {v \in Sends : pc[v] # "start"}

\* A feed nobody has subscribed to is a broadcast nobody listens to.
LEMMA InitImplements == Init => Promise!BInit
<1>1. Listed(<<>>) = {}
  BY DEF Listed
<1>2. Init => Active = {}
  BY DEF Init, Active
<1> QED BY <1>1, <1>2 DEF Init, Promise!BInit, Promise!NoSend, NoSend

\* Serving a case is the delivery to one channel.
LEMMA ServeDelivers ==
  ASSUME IInv, NEW v \in Sends, NEW i \in 1..cases, Serve(v, i), sendLock = v,
         UNCHANGED <<subVars, sendLock>>, Begun' = Begun
  PROVE  Promise!BNext
<1> DEFINE s == sendCases[i]
<1>1. /\ s \in Active /\ Active' = Active \ {s} /\ Listed(sendCases') = Listed(sendCases)
      /\ log' = [log EXCEPT ![s] = Append(@, v)]
  BY ServeFacts
<1>2. s \in Subs
  BY DEF IInv, TypeOK
<1>3. inbox' = inbox /\ sendLock' = sendLock
  BY DEF subVars
<1> HIDE DEF s
<1>4. Promise!Deliver(s)
  BY <1>1, <1>3 DEF Promise!Deliver, Begun
<1> QED BY <1>2, <1>4 DEF Promise!BNext

\* Taking a channel out of both lists is its leaving.
LEMMA RemoveLeaves ==
  ASSUME NEW s \in Subs, s \in All, All' = All \ {s}, Active' = Active \ {s},
         Begun' = Begun, UNCHANGED <<sendLock, log>>
  PROVE  Promise!BNext
<1>1. Promise!Leave(s)
  BY DEF Promise!Leave, All, Begun
<1> QED BY <1>1 DEF Promise!BNext

\* Every step of the feed is a step of the broadcast or changes nothing in it.
LEMMA NextImplements ==
  ASSUME IInv, [Next]_vars
  PROVE  [Promise!BNext]_(Promise!bvars)
<1>0. TypeOK /\ CasesExact /\ Locking
  BY DEF IInv
<1> DEFINE Still == UNCHANGED <<All, Begun, sendLock, Active, log>>
<1>s. ASSUME Still PROVE UNCHANGED Promise!bvars
  BY <1>s DEF Promise!bvars, All, Begun
<1>1. ASSUME NEW s \in Subs, Subscribe(s) PROVE Promise!BNext
  <2>1. sub[s] = "new" /\ inbox' = Append(inbox, s) /\ UNCHANGED <<sendCases, sendVars, log>>
    BY <1>1 DEF Subscribe
  <2>2. s \notin All
    BY <1>0, <2>1 DEF CasesExact, All
  <2>3. Listed(inbox') = Listed(inbox) \cup {s}
    BY <1>0, <2>1, <2>2, AppendFacts DEF TypeOK, CasesExact, All
  <2>4. Active' = Active /\ Begun' = Begun
    BY <2>1 DEF Active, Begun, sendVars
  <2>5. Promise!Join(s)
    BY <2>1, <2>2, <2>3, <2>4 DEF Promise!Join, All, Begun, sendVars
  <2> QED BY <2>5 DEF Promise!BNext
<1>2. ASSUME NEW s \in Subs, Unsubscribe(s) PROVE Promise!BNext \/ Still
  <2>1. sub[s] = "on" /\ UNCHANGED <<sendCases, sendVars, log>>
    BY <1>2 DEF Unsubscribe
  <2>2. Active' = Active /\ Begun' = Begun /\ sendLock' = sendLock
    BY <2>1 DEF Active, Begun, sendVars
  <2>3. CASE InInbox(s)
    <3> DEFINE i == find(inbox, s)
    <3>1. inbox' = delete(inbox, i) /\ i \in 1..Len(inbox) /\ inbox[i] = s
      BY <1>2, <2>3, FindFacts DEF Unsubscribe, InInbox
    <3>2. inbox \in Seq(Subs) /\ Distinct(inbox)
      BY <1>0 DEF TypeOK, CasesExact
    <3> HIDE DEF i
    <3>3. Listed(inbox') = Listed(inbox) \ {s} /\ s \in Listed(inbox)
      <4>1. Listed(delete(inbox, i)) = Listed(inbox) \ {inbox[i]}
        BY <3>1, <3>2, DeleteFacts
      <4>2. s \in Listed(inbox)
        BY <3>1 DEF Listed
      <4> QED BY <3>1, <4>1, <4>2
    <3>4. s \notin Listed(sendCases) /\ s \notin Active
      BY <1>0, <3>3, ListFacts
    <3> QED BY <2>1, <2>2, <3>3, <3>4, RemoveLeaves DEF All
  <2>4. CASE ~InInbox(s)
    <3>1. inbox' = inbox
      BY <1>2, <2>4 DEF Unsubscribe
    <3> QED BY <2>1, <2>2, <3>1 DEF All
  <2> QED BY <2>3, <2>4
<1>3. ASSUME NEW s \in Subs, RemoveIdle(s) PROVE Promise!BNext
  <2>1. /\ sub[s] = "removing" /\ sendLock = NoSend
        /\ sendCases' = delete(sendCases, find(sendCases, s)) /\ UNCHANGED <<inbox, sendVars, log>>
    BY <1>3 DEF RemoveIdle
  <2>2. cases = 0 /\ cases' = 0
    BY <1>0, <2>1 DEF Locking, sendVars
  <2>3. cases' = ShrinkIfActive(find(sendCases, s))
    <3>1. In(s, sendCases) /\ sendCases \in Seq(Subs)
      BY <1>0, <2>1 DEF CasesExact, TypeOK
    <3>2. find(sendCases, s) \in 1..Len(sendCases) /\ Len(sendCases) \in Nat
      BY <3>1, FindFacts
    <3> QED BY <2>2, <3>2 DEF ShrinkIfActive
  <2>4. s \in Listed(sendCases) /\ Listed(sendCases') = Listed(sendCases) \ {s} /\ Active' = Active \ {s}
    BY <2>1, <2>3, RemoveFacts
  <2>5. s \notin Listed(inbox)
    BY <1>0, <2>4 DEF CasesExact
  <2> QED BY <2>1, <2>4, <2>5, RemoveLeaves DEF All, Begun, sendVars
<1>4. ASSUME NEW s \in Subs, Receive(s) PROVE Still
  BY <1>4 DEF Receive, subVars, sendVars, All, Begun, Active
<1>5. ASSUME NEW v \in Sends, Collect(v) PROVE Promise!BNext
  <2>1. /\ pc[v] = "start" /\ sendLock = NoSend /\ sendLock' = v
        /\ sendCases' = sendCases \o inbox /\ inbox' = <<>>
        /\ cases' = Len(sendCases) + Len(inbox)
        /\ pc' = [pc EXCEPT ![v] = "try"] /\ UNCHANGED log
    BY <1>5 DEF Collect, LockFree
  <2>2. sendCases \in Seq(Subs) /\ inbox \in Seq(Subs) /\ Listed(sendCases) \cap Listed(inbox) = {}
        /\ Distinct(sendCases) /\ Distinct(inbox)
    BY <1>0 DEF TypeOK, CasesExact
  <2>3. Len(sendCases') = cases' /\ Listed(sendCases') = All
    <3>1. /\ Len(sendCases \o inbox) = Len(sendCases) + Len(inbox)
          /\ Listed(sendCases \o inbox) = Listed(sendCases) \cup Listed(inbox)
      BY <2>2, ConcatFacts
    <3> QED BY <2>1, <3>1 DEF All
  <2>4. Active' = All /\ All' = All
    <3>1. Listed(<<>>) = {}
      BY DEF Listed
    <3>2. Active' = Listed(sendCases')
      BY <2>3 DEF Active, Listed
    <3>3. All' = Listed(sendCases')
      BY <2>1, <3>1 DEF All
    <3> QED BY <2>3, <3>2, <3>3
  <2>5. v \notin Begun /\ Begun' = Begun \cup {v}
    BY <1>0, <2>1 DEF Begun, TypeOK
  <2>6. Promise!Begin(v)
    BY <2>1, <2>4, <2>5 DEF Promise!Begin, All, Begun, Promise!NoSend, NoSend
  <2> QED BY <2>6 DEF Promise!BNext
<1>6. ASSUME NEW v \in Sends, TrySend(v) PROVE Promise!BNext \/ Still
  <2>1. pc[v] = "try" /\ index <= cases /\ UNCHANGED <<subVars, sendLock, pc>>
    BY <1>6 DEF TrySend
  <2>2. index \in 1..cases /\ sendLock = v /\ Begun' = Begun
    BY <1>0, <2>1 DEF Locking, TypeOK, Begun
  <2>3. CASE Serve(v, index)
    BY <2>1, <2>2, <2>3, ServeDelivers
  <2>4. CASE UNCHANGED <<sendCases, cases, nsent, buffer, log>>
    BY <2>1, <2>2, <2>4 DEF All, Active, subVars
  <2> QED BY <1>6, <2>3, <2>4 DEF TrySend
<1>7. ASSUME NEW v \in Sends, Tried(v) PROVE Still
  <2>1. pc[v] = "try" /\ pc' = [pc EXCEPT ![v] = IF cases = 0 THEN "return" ELSE "select"]
        /\ UNCHANGED <<subVars, sendCases, sendLock, cases, log>>
    BY <1>7 DEF Tried
  <2>2. Begun' = Begun
    BY <1>0, <2>1 DEF Begun, TypeOK
  <2> QED BY <2>1, <2>2 DEF All, Active, subVars
<1>8. ASSUME NEW v \in Sends, SelectSend(v) PROVE Promise!BNext
  <2>1. PICK i \in 1..cases : Serve(v, i)
    BY <1>8 DEF SelectSend
  <2>2. pc[v] = "select" /\ pc' = [pc EXCEPT ![v] = "try"] /\ UNCHANGED <<subVars, sendLock>>
    BY <1>8 DEF SelectSend
  <2>3. sendLock = v /\ Begun' = Begun
    BY <1>0, <2>2 DEF Locking, TypeOK, Begun
  <2> QED BY <2>1, <2>2, <2>3, ServeDelivers
<1>9. ASSUME NEW v \in Sends, NEW s \in Subs, SelectRemove(v, s) PROVE Promise!BNext
  <2>1. /\ pc[v] = "select" /\ sub[s] = "removing"
        /\ sendCases' = delete(sendCases, find(sendCases, s))
        /\ cases' = ShrinkIfActive(find(sendCases, s))
        /\ pc' = [pc EXCEPT ![v] = "try"] /\ UNCHANGED <<inbox, sendLock, log>>
    BY <1>9 DEF SelectRemove
  <2>2. s \in Listed(sendCases) /\ Listed(sendCases') = Listed(sendCases) \ {s} /\ Active' = Active \ {s}
    BY <2>1, RemoveFacts
  <2>3. s \notin Listed(inbox) /\ Begun' = Begun
    BY <1>0, <2>1, <2>2 DEF CasesExact, Begun, TypeOK
  <2> QED BY <2>1, <2>2, <2>3, RemoveLeaves DEF All
<1>10. ASSUME NEW v \in Sends, Return(v) PROVE Promise!BNext
  <2>1. /\ pc[v] = "return" /\ pc' = [pc EXCEPT ![v] = "done"] /\ sendLock' = NoSend
        /\ UNCHANGED <<subVars, sendCases, cases, log>>
    BY <1>10 DEF Return, HandOver
  <2>2. sendLock = v /\ cases = 0 /\ Begun' = Begun
    BY <1>0, <2>1 DEF Locking, TypeOK, Begun
  <2>3. Active = {} /\ Active' = {}
    BY <2>1, <2>2 DEF Active
  <2>4. Promise!End
    BY <2>1, <2>2, <2>3, SendsAssumption DEF Promise!End, Promise!NoSend, NoSend, Begun, subVars
  <2> QED BY <2>4 DEF Promise!BNext
<1>11. CASE UNCHANGED vars
  BY <1>11, <1>s DEF vars, subVars, sendVars, All, Begun, Active
<1>12. CASE Next
  <2>1. CASE \E s \in Subs : Subscribe(s) \/ Unsubscribe(s) \/ RemoveIdle(s) \/ Receive(s)
    BY <1>1, <1>2, <1>3, <1>4, <1>s, <2>1
  <2>2. CASE \E v \in Sends : SendStep(v)
    BY <1>5, <1>6, <1>7, <1>8, <1>9, <1>10, <1>s, <2>2 DEF SendStep
  <2> QED BY <1>12, <2>1, <2>2 DEF Next
<1> QED BY <1>11, <1>12

\* event.Feed delivers every value exactly once to every channel subscribed
\* when its Send got the lock, one Send after the other, until the channel is
\* unsubscribed.
THEOREM FeedImplements == Spec => Implements
<1>1. Init /\ [][Next]_vars /\ []IInv => Promise!BSpec
  BY InitImplements, NextImplements, PTL DEF Promise!BSpec
<1> QED BY <1>1, Invariance, PTL DEF Spec, Implements
=============================================================================
