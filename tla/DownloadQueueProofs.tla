------------------------ MODULE DownloadQueueProofs ------------------------
(***************************************************************************)
(* The queue of a sync loses, doubles and misdelivers no task, Results      *)
(* hands out complete blocks only, and a sync that ends well has imported   *)
(* everything, for any number of headers and peers, any size of the result  *)
(* store and any limits.                                                    *)
(*                                                                          *)
(* Exactly(queue, pool, tasks) is the invariant of one kind of part: queue, *)
(* reservations and task pool as sets and functions, without counting.      *)
(* Taken, Given and Added say that reserving, giving back or delivering,    *)
(* and scheduling keep it; the operations of the queue are instances.       *)
(***************************************************************************)
EXTENDS DownloadQueue, FiniteSetTheorems, TLAPS

USE ZenonT(10), SMTT(60)

\* Every header is in the queue at most once and then reserved for nobody, it
\* is reserved for at most one peer, and the pool holds exactly those.
Exactly(queue, pool, tasks) ==
  \A h \in Headers :
    /\ queue[h] \in {0, 1}
    /\ \A p, o \in Peers : h \in pool[p] /\ h \in pool[o] => p = o
    /\ queue[h] = 1 => \A p \in Peers : h \notin pool[p]
    /\ h \in tasks <=> (queue[h] = 1 \/ \E p \in Peers : h \in pool[p])

\* A reserved part has a slot that waits for it.
Slotted(k) == \A p \in Peers : \A h \in pendPool[k][p] : items[h] # Absent /\ k \in items[h]

\* A scheduled part that has not arrived is still a task.
Remembered(k) == \A h \in Headers : h <= scheduled /\ IsTask(k, h) /\ ~Settled(k, h) => h \in taskPool[k]

QueueInv ==
  \A k \in Kinds : Exactly(taskQueue[k], pendPool[k], taskPool[k]) /\ Slotted(k) /\ Remembered(k)

\* The slots of the store are the ones from resultOffset on.
InWindow == \A h \in Headers : items[h] # Absent => h \in resultOffset .. resultOffset + CacheSize - 1

StoreInv ==
  /\ resultOffset \in 1..LastHeader + 1 /\ indexIncomplete \in 0..CacheSize
  /\ throttleThreshold \in 1..CacheSize
  /\ items \in [Headers -> {Absent} \cup SUBSET Kinds]
  /\ InWindow
  /\ CompleteRemembered

QueueTypes ==
  /\ scheduled \in 0..LastHeader
  /\ taskPool \in [Kinds -> SUBSET Headers]
  /\ taskQueue \in [Kinds -> [Headers -> Nat]]
  /\ pendPool \in [Kinds -> [Peers -> SUBSET Headers]]

PeerTypes ==
  /\ peers \subseteq Peers /\ leaving \subseteq Peers \ peers
  /\ lacking \in [Peers -> SUBSET Headers]
  /\ wakeCh \in [Kinds -> {<<>>, <<TRUE>>, <<FALSE>>}]

Steps == {"top", "assign", "send", "select", "ok", "err", "canceled"}

Locals == [at : Steps, all : SUBSET Peers, idles : SUBSET Peers, progressed : BOOLEAN,
           throttled : BOOLEAN, peer : Peers, headers : SUBSET Headers]

FinitelyMany(requests) == requests \subseteq Requests /\ IsFiniteSet(requests)

ByKind(requests) == requests = [k \in Kinds |-> requests[k]] /\ \A k \in Kinds : FinitelyMany(requests[k])

FetchInv ==
  /\ fetcher \in [Kinds -> Locals]
  /\ ByKind(pending) /\ ByKind(stales) /\ ByKind(timeouts) /\ ByKind(wire)

IInv == QueueTypes /\ StoreInv /\ PeerTypes /\ FetchInv /\ QueueInv
----------------------------------------------------------------------------
(* Numbers and sets *)

\* The sizes are natural numbers, and headers and slots are told apart.
LEMMA Sizes ==
  /\ LastHeader \in Nat \ {0} /\ CacheSize \in Nat \ {0} /\ MaxTake \in Nat \ {0}
  /\ Threshold \in 1..CacheSize
  /\ Headers \subseteq Nat \ {0}
<1>1. LastHeader \in Nat \ {0}
  BY DownloadAssumption
<1>2. CacheSize \in Nat \ {0}
  BY DownloadAssumption
<1>3. MaxTake \in Nat \ {0}
  BY DownloadAssumption
<1> QED BY <1>1, <1>2, <1>3, DownloadAssumption, SMTT(60) DEF Headers

\* A slot in use is a set of kinds, which the absent slot is not.
LEMMA SlotFacts ==
  /\ \A S \in SUBSET Kinds : S # Absent
  /\ \A h \in Headers : NewResult(h) \in SUBSET Kinds
  BY DownloadAssumption DEF Absent, NewResult

\* A nonempty set of headers has a last one, and Max picks it.
LEMMA MaxOfHeaders ==
  ASSUME NEW S \in SUBSET Headers, S # {}
  PROVE  Max(S) \in S /\ \A h \in S : h <= Max(S)
<1> DEFINE N == {LastHeader - h : h \in S}
<1>1. N \in SUBSET Nat /\ N # {}
  <2>1. \A h \in S : LastHeader - h \in Nat
    BY Sizes, SMTT(60) DEF Headers
  <2> QED BY <2>1
<1>2. PICK n \in N : \A m \in N : ~(<<m, n>> \in OpToRel(<, Nat))
  BY <1>1, NatLessThanWellFounded, WFMin, ZenonT(60)
<1>3. PICK g \in S : LastHeader - g = n
  BY <1>2, ZenonT(60)
<1>4. ASSUME NEW h \in S PROVE g >= h
  <2>1. /\ LastHeader - h \in N /\ LastHeader - h \in Nat /\ n \in Nat
        /\ LastHeader \in Nat /\ g \in Nat /\ h \in Nat
    BY <1>1, <1>2, Sizes, ZenonT(60)
  <2>2. ~(LastHeader - h < n)
    BY <1>2, <2>1, ZenonT(60) DEF OpToRel
  <2> QED BY <1>3, <2>1, <2>2
<1>5. \E g1 \in S : \A h \in S : g1 >= h
  BY <1>4
<1>6. Max(S) \in S /\ \A h \in S : Max(S) >= h
  <2> HIDE DEF N
  <2> QED BY <1>5, ZenonT(60) DEF Max
<1> QED BY <1>6, Sizes

\* The smaller of two numbers.
LEMMA MinOfTwo ==
  ASSUME NEW a \in Nat, NEW b \in Nat
  PROVE  Min({a, b}) \in Nat /\ Min({a, b}) <= a /\ Min({a, b}) <= b
<1>1. \E x \in {a, b} : \A y \in {a, b} : x <= y
  BY SMTT(60)
<1>2. Min({a, b}) \in {a, b} /\ \A y \in {a, b} : Min({a, b}) <= y
  BY <1>1, ZenonT(60) DEF Min
<1> QED BY <1>2

----------------------------------------------------------------------------
(* The result store *)

\* countCompleted: what it counts is complete and inside the store.
LEMMA CompletedFacts ==
  ASSUME StoreInv
  PROVE  /\ Completed \in indexIncomplete..CacheSize
         /\ resultOffset + Completed <= LastHeader + 1
         /\ \A h \in resultOffset .. resultOffset + Completed - 1 : h \in Headers /\ AllDone(h)
<1> DEFINE from == resultOffset + indexIncomplete
<1> DEFINE upto == {h \in from..LastHeader :
                      h < resultOffset + CacheSize /\ \A g \in from..h : AllDone(g)}
<1>1. /\ resultOffset \in Nat \ {0} /\ resultOffset <= LastHeader + 1
      /\ indexIncomplete \in Nat /\ indexIncomplete <= CacheSize
      /\ LastHeader \in Nat /\ CacheSize \in Nat
  BY Sizes, SMTT(60) DEF StoreInv
<1>2. \A h \in resultOffset .. from - 1 : h \in Headers /\ AllDone(h)
  <2> SUFFICES ASSUME NEW h \in resultOffset .. from - 1 PROVE h \in Headers /\ AllDone(h)
    OBVIOUS
  <2>1. h - resultOffset \in 0 .. indexIncomplete - 1 /\ resultOffset + (h - resultOffset) = h
    BY <1>1
  <2> QED BY <2>1 DEF StoreInv, CompleteRemembered
<1>3. from <= LastHeader + 1
  <2>1. CASE indexIncomplete = 0
    BY <1>1, <2>1
  <2>2. CASE indexIncomplete > 0
    <3>1. from - 1 \in resultOffset .. from - 1
      BY <1>1, <2>2
    <3>2. from - 1 \in Headers
      BY <1>2, <3>1
    <3> QED BY <1>1, <3>2 DEF Headers
  <2> QED BY <1>1, <2>1, <2>2
<1>4. Completed = indexIncomplete + Cardinality(upto)
  BY DEF Completed
<1>5. CASE upto = {}
  <2>1. Completed = indexIncomplete
    BY <1>1, <1>4, <1>5, FS_EmptySet, SMTT(60)
  <2> QED BY <1>1, <1>2, <1>3, <2>1
<1>6. CASE upto # {}
  <2> DEFINE m == Max(upto)
  <2>1. upto \in SUBSET Headers
    BY <1>1, SMTT(60) DEF Headers
  <2>2. m \in upto /\ \A h \in upto : h <= m
    <3> HIDE DEF upto
    <3> QED BY <1>6, <2>1, MaxOfHeaders
  <2>3. /\ m \in Nat /\ from <= m /\ m <= LastHeader /\ m < resultOffset + CacheSize
        /\ \A g \in from..m : AllDone(g)
    <3> HIDE DEF m
    <3> QED BY <1>1, <2>2
  <2>4. upto = from..m
    <3> HIDE DEF m
    <3>1. ASSUME NEW h \in from..m PROVE h \in upto
      <4>1. h \in from..LastHeader /\ h < resultOffset + CacheSize
        BY <1>1, <2>3
      <4>2. \A g \in from..h : g \in from..m
        BY <1>1, <2>3
      <4> QED BY <2>3, <4>1, <4>2
    <3>2. ASSUME NEW h \in upto PROVE h \in from..m
      BY <1>1, <2>2, <2>3
    <3> QED BY <3>1, <3>2
  <2> HIDE DEF m, upto
  <2>5. Cardinality(upto) = m - from + 1
    BY <1>1, <2>3, <2>4, FS_Interval
  <2>6. Completed = m + 1 - resultOffset
    BY <1>1, <1>4, <2>3, <2>5
  <2>7. ASSUME NEW h \in resultOffset .. m PROVE h \in Headers /\ AllDone(h)
    <3>1. CASE h < from
      BY <1>1, <1>2, <3>1
    <3>2. CASE h >= from
      BY <1>1, <2>3, <3>2 DEF Headers
    <3> QED BY <1>1, <3>1, <3>2
  <2> QED BY <1>1, <2>3, <2>6, <2>7
<1> QED BY <1>5, <1>6

----------------------------------------------------------------------------
(* The queue of one kind *)

PoolType(pool) == pool \in [Peers -> SUBSET Headers]
QueueType(queue) == queue \in [Headers -> Nat]

\* Reserving for a peer that has nothing: what is sent and what is dropped
\* leaves the queue, and what is dropped leaves the pool (reserveHeaders).
LEMMA Taken ==
  ASSUME NEW queue, NEW pool, NEW tasks, QueueType(queue), PoolType(pool),
         Exactly(queue, pool, tasks), NEW p \in Peers, pool[p] = {},
         NEW send \in SUBSET Headers, NEW drop \in SUBSET Headers, send \cap drop = {},
         \A h \in send \cup drop : queue[h] > 0
  PROVE  /\ Exactly(Popped(queue, drop \cup send), [pool EXCEPT ![p] = send], tasks \ drop)
         /\ QueueType(Popped(queue, drop \cup send))
         /\ PoolType([pool EXCEPT ![p] = send])
<1> DEFINE queue1 == Popped(queue, drop \cup send)
<1> DEFINE pool1 == [pool EXCEPT ![p] = send]
<1>1. \A h \in Headers : queue1[h] = IF h \in drop \cup send THEN queue[h] - 1 ELSE queue[h]
  BY DEF Popped
<1>2. \A o \in Peers : pool1[o] = IF o = p THEN send ELSE pool[o]
  BY DEF PoolType
<1>3. \A h \in send \cup drop : queue[h] = 1 /\ \A o \in Peers : h \notin pool[o]
  <2> SUFFICES ASSUME NEW h \in send \cup drop PROVE queue[h] = 1 /\ \A o \in Peers : h \notin pool[o]
    OBVIOUS
  <2>1. queue[h] \in {0, 1} /\ queue[h] > 0
    BY DEF Exactly
  <2>2. queue[h] = 1
    BY <2>1, SMTT(60)
  <2> QED BY <2>2 DEF Exactly
<1>4. QueueType(queue1)
  BY <1>3, SMTT(60) DEF QueueType, Popped
<1>5. PoolType(pool1)
  BY DEF PoolType
<1> HIDE DEF queue1, pool1
<1>6. ASSUME NEW h \in Headers
      PROVE  /\ queue1[h] \in {0, 1}
             /\ \A a, o \in Peers : h \in pool1[a] /\ h \in pool1[o] => a = o
             /\ queue1[h] = 1 => \A o \in Peers : h \notin pool1[o]
             /\ h \in tasks \ drop <=> (queue1[h] = 1 \/ \E o \in Peers : h \in pool1[o])
  <2>0. /\ queue[h] \in {0, 1}
        /\ \A a, o \in Peers : h \in pool[a] /\ h \in pool[o] => a = o
        /\ queue[h] = 1 => \A o \in Peers : h \notin pool[o]
        /\ h \in tasks <=> (queue[h] = 1 \/ \E o \in Peers : h \in pool[o])
    BY ZenonT(60) DEF Exactly
  <2>1. CASE h \in send
    <3>1. queue1[h] = 0
      BY <1>1, <1>3, <2>1, SMTT(60)
    <3>2. \A o \in Peers : h \in pool1[o] <=> o = p
      BY <1>2, <1>3, <2>1
    <3>3. h \in tasks \ drop
      BY <1>3, <2>0, <2>1
    <3> QED BY <3>1, <3>2, <3>3
  <2>2. CASE h \in drop
    <3>1. queue1[h] = 0
      BY <1>1, <1>3, <2>2, SMTT(60)
    <3>2. \A o \in Peers : h \notin pool1[o]
      BY <1>2, <1>3, <2>2
    <3> QED BY <2>2, <3>1, <3>2, SMTT(60)
  <2>3. CASE h \notin send \cup drop
    <3>1. queue1[h] = queue[h]
      BY <1>1, <2>3
    <3>2. \A o \in Peers : h \in pool1[o] <=> h \in pool[o]
      BY <1>2, <2>3
    <3> QED BY <2>0, <2>3, <3>1, <3>2
  <2> QED BY <2>1, <2>2, <2>3
<1>7. Exactly(queue1, pool1, tasks \ drop)
  BY <1>6, ZenonT(60) DEF Exactly
<1> QED BY <1>4, <1>5, <1>7 DEF queue1, pool1

\* Ending what a peer has reserved: what was accepted is no task any more, the
\* rest goes back to the queue (deliver, expire, Revoke).
LEMMA Given ==
  ASSUME NEW queue, NEW pool, NEW tasks, QueueType(queue), PoolType(pool),
         Exactly(queue, pool, tasks), NEW p \in Peers, NEW accepted \in SUBSET pool[p]
  PROVE  /\ Exactly(Pushed(queue, pool[p] \ accepted), [pool EXCEPT ![p] = {}], tasks \ accepted)
         /\ QueueType(Pushed(queue, pool[p] \ accepted))
         /\ PoolType([pool EXCEPT ![p] = {}])
<1> DEFINE queue1 == Pushed(queue, pool[p] \ accepted)
<1> DEFINE pool1 == [pool EXCEPT ![p] = {}]
<1>1. \A h \in Headers : queue1[h] = IF h \in pool[p] \ accepted THEN queue[h] + 1 ELSE queue[h]
  BY DEF Pushed
<1>2. \A o \in Peers : pool1[o] = IF o = p THEN {} ELSE pool[o]
  BY DEF PoolType
<1>3. QueueType(queue1)
  BY SMTT(60) DEF QueueType, Pushed
<1>4. PoolType(pool1)
  BY DEF PoolType
<1> HIDE DEF queue1, pool1
<1>5. ASSUME NEW h \in Headers
      PROVE  /\ queue1[h] \in {0, 1}
             /\ \A a, o \in Peers : h \in pool1[a] /\ h \in pool1[o] => a = o
             /\ queue1[h] = 1 => \A o \in Peers : h \notin pool1[o]
             /\ h \in tasks \ accepted <=> (queue1[h] = 1 \/ \E o \in Peers : h \in pool1[o])
  <2>0. /\ queue[h] \in {0, 1}
        /\ \A a, o \in Peers : h \in pool[a] /\ h \in pool[o] => a = o
        /\ queue[h] = 1 => \A o \in Peers : h \notin pool[o]
        /\ h \in tasks <=> (queue[h] = 1 \/ \E o \in Peers : h \in pool[o])
    BY ZenonT(60) DEF Exactly
  <2>1. CASE h \in pool[p]
    <3>1. queue[h] = 0 /\ h \in tasks
      BY <2>0, <2>1
    <3>2. \A o \in Peers : h \notin pool1[o]
      BY <1>2, <2>0, <2>1
    <3>3. queue1[h] = IF h \in accepted THEN 0 ELSE 1
      BY <1>1, <2>1, <3>1, SMTT(60)
    <3> QED BY <3>1, <3>2, <3>3, SMTT(60)
  <2>2. CASE h \notin pool[p]
    <3>1. queue1[h] = queue[h] /\ h \notin accepted
      BY <1>1, <2>2
    <3>2. \A o \in Peers : h \in pool1[o] <=> h \in pool[o]
      BY <1>2, <2>2
    <3> QED BY <2>0, <3>1, <3>2
  <2> QED BY <2>1, <2>2
<1>6. Exactly(queue1, pool1, tasks \ accepted)
  BY <1>5, ZenonT(60) DEF Exactly
<1> QED BY <1>3, <1>4, <1>6 DEF queue1, pool1

\* Scheduling headers that are no tasks yet (Schedule).
LEMMA Added ==
  ASSUME NEW queue, NEW pool, NEW tasks, QueueType(queue),
         Exactly(queue, pool, tasks), NEW new \in SUBSET Headers, new \cap tasks = {}
  PROVE  /\ Exactly(Pushed(queue, new), pool, tasks \cup new)
         /\ QueueType(Pushed(queue, new))
<1> DEFINE queue1 == Pushed(queue, new)
<1>1. \A h \in Headers : queue1[h] = IF h \in new THEN queue[h] + 1 ELSE queue[h]
  BY DEF Pushed
<1>2. QueueType(queue1)
  BY SMTT(60) DEF QueueType, Pushed
<1> HIDE DEF queue1
<1>3. ASSUME NEW h \in Headers
      PROVE  /\ queue1[h] \in {0, 1}
             /\ queue1[h] = 1 => \A o \in Peers : h \notin pool[o]
             /\ h \in tasks \cup new <=> (queue1[h] = 1 \/ \E o \in Peers : h \in pool[o])
  <2>0. /\ queue[h] \in {0, 1}
        /\ queue[h] = 1 => \A o \in Peers : h \notin pool[o]
        /\ h \in tasks <=> (queue[h] = 1 \/ \E o \in Peers : h \in pool[o])
    BY ZenonT(60) DEF Exactly
  <2>1. CASE h \in new
    <3>1. queue[h] = 0 /\ \A o \in Peers : h \notin pool[o]
      BY <2>0, <2>1
    <3>2. queue1[h] = 1
      BY <1>1, <2>1, <3>1, SMTT(60)
    <3> QED BY <2>1, <3>1, <3>2
  <2>2. CASE h \notin new
    BY <1>1, <2>0, <2>2
  <2> QED BY <2>1, <2>2
<1>4. Exactly(queue1, pool, tasks \cup new)
  BY <1>3, ZenonT(60) DEF Exactly
<1> QED BY <1>2, <1>4 DEF queue1

----------------------------------------------------------------------------
(* reserveHeaders *)

\* What reserveHeaders sends is queued and has a slot that waits for it, what
\* it forgets has been handed out or has arrived, and a slot in use stays.
LEMMA ReservationFacts ==
  ASSUME QueueTypes, StoreInv, NEW k \in Kinds, NEW p \in Peers, NEW count \in Headers
  PROVE  LET res == Reservation(k, p, count)
         IN  /\ res.send \in SUBSET Headers /\ res.drop \in SUBSET Headers
             /\ res.send \cap res.drop = {}
             /\ \A h \in res.send \cup res.drop : taskQueue[k][h] > 0
             /\ res.items \in [Headers -> {Absent} \cup SUBSET Kinds]
             /\ \A h \in Headers : items[h] # Absent => res.items[h] = items[h]
             /\ \A h \in Headers : res.items[h] # items[h] =>
                  h \in resultOffset .. resultOffset + CacheSize - 1
             /\ \A h \in res.send : res.items[h] # Absent /\ k \in res.items[h]
             /\ \A h \in res.drop :
                  h < resultOffset \/ (res.items[h] # Absent /\ k \notin res.items[h])
<1> DEFINE res == Reservation(k, p, count)
<1> DEFINE slot(h) == IF items[h] = Absent THEN NewResult(h) ELSE items[h]
<1> DEFINE reach == {h \in Tasks(k) : h - resultOffset < throttleThreshold}
<1> DEFINE stale == {h \in reach : h < resultOffset}
<1> DEFINE noop == {h \in reach \ stale : k \notin slot(h)}
<1> DEFINE wanted == {h \in reach \ (stale \cup noop) : h \notin lacking[p]}
<1> DEFINE send == {h \in wanted : Cardinality({g \in wanted : g <= h}) <= count}
<1> DEFINE full == Cardinality(send) = count
<1> DEFINE seen == {h \in reach : full => h <= Max(send)}
<1>1. /\ res.send = send /\ res.drop = seen \cap (stale \cup noop)
      /\ res.items = [h \in Headers |-> IF h \in seen \ stale THEN slot(h) ELSE items[h]]
  BY ZenonT(60) DEF Reservation
<1>2. /\ resultOffset \in Nat /\ throttleThreshold \in Nat /\ throttleThreshold <= CacheSize
      /\ items \in [Headers -> {Absent} \cup SUBSET Kinds] /\ CacheSize \in Nat
  BY Sizes, SMTT(60) DEF StoreInv
<1>3. \A h \in Headers : slot(h) \in SUBSET Kinds /\ slot(h) # Absent
  BY <1>2, SlotFacts
<1> HIDE DEF slot
<1>4. /\ reach \subseteq Headers /\ \A h \in reach : taskQueue[k][h] > 0
      /\ \A h \in reach \ stale : h \in resultOffset .. resultOffset + CacheSize - 1
  <2>1. reach \subseteq Headers /\ \A h \in reach : taskQueue[k][h] > 0
    BY DEF Tasks
  <2>2. ASSUME NEW h \in reach \ stale PROVE h \in resultOffset .. resultOffset + CacheSize - 1
    <3>1. h \in Nat /\ h - resultOffset < throttleThreshold /\ ~(h < resultOffset)
      BY <2>1, Sizes, ZenonT(60)
    <3> QED BY <1>2, <3>1
  <2> QED BY <2>1, <2>2
<1>5. /\ send \subseteq reach \ (stale \cup noop) /\ seen \subseteq reach
      /\ stale \subseteq reach /\ noop \subseteq reach \ stale
  OBVIOUS
<1>6. send \subseteq seen
  <2>1. CASE send = {}
    BY <2>1
  <2>2. CASE send # {}
    <3>1. \A h \in send : h <= Max(send)
      <4>1. send \in SUBSET Headers
        BY <1>4, <1>5
      <4> HIDE DEF send
      <4> QED BY <2>2, <4>1, MaxOfHeaders
    <3> QED BY <1>5, <3>1
  <2> QED BY <2>1, <2>2, ZenonT(60)
<1>7. /\ \A h \in noop : k \notin slot(h)
      /\ \A h \in reach \ (stale \cup noop) : k \in slot(h)
      /\ \A h \in stale : h < resultOffset
  OBVIOUS
<1> HIDE DEF res, reach, stale, noop, wanted, send, full, seen
<1>8. \A h \in Headers : res.items[h] = IF h \in seen \ stale THEN slot(h) ELSE items[h]
  BY <1>1
<1>9. res.items \in [Headers -> {Absent} \cup SUBSET Kinds]
  BY <1>1, <1>2, <1>3
<1>10. \A h \in Headers : items[h] # Absent => res.items[h] = items[h]
  BY <1>8 DEF slot
<1>11. \A h \in Headers : res.items[h] # items[h] => h \in resultOffset .. resultOffset + CacheSize - 1
  BY <1>4, <1>5, <1>8
<1>12. \A h \in send : res.items[h] # Absent /\ k \in res.items[h]
  BY <1>3, <1>4, <1>5, <1>6, <1>7, <1>8
<1>13. \A h \in res.drop : h < resultOffset \/ (res.items[h] # Absent /\ k \notin res.items[h])
  BY <1>1, <1>3, <1>4, <1>5, <1>7, <1>8
<1>14. /\ res.send \in SUBSET Headers /\ res.drop \in SUBSET Headers
       /\ res.send \cap res.drop = {}
       /\ \A h \in res.send \cup res.drop : taskQueue[k][h] > 0
  BY <1>1, <1>4, <1>5
<1> QED BY <1>1, <1>9, <1>10, <1>11, <1>12, <1>13, <1>14, ZenonT(60) DEF res

----------------------------------------------------------------------------
(* What each operation of the queue keeps *)

\* A step that changes the queue of one kind leaves the others exact.
LEMMA OneKind ==
  ASSUME QueueInv, NEW k \in Kinds, Exactly(taskQueue'[k], pendPool'[k], taskPool'[k]),
         \A j \in Kinds \ {k} : /\ taskQueue'[j] = taskQueue[j] /\ pendPool'[j] = pendPool[j]
                                /\ taskPool'[j] = taskPool[j],
         NEW j \in Kinds
  PROVE  Exactly(taskQueue'[j], pendPool'[j], taskPool'[j])
<1>1. Exactly(taskQueue[j], pendPool[j], taskPool[j])
  BY DEF QueueInv
<1>2. CASE j = k
  BY <1>2
<1>3. CASE j # k
  <2>1. taskQueue'[j] = taskQueue[j] /\ pendPool'[j] = pendPool[j] /\ taskPool'[j] = taskPool[j]
    BY <1>3
  <2> QED BY <1>1, <2>1
<1> QED BY <1>2, <1>3

\* expire: a reservation given back leaves nothing forgotten or doubled.
LEMMA ExpireKeeps ==
  ASSUME QueueTypes, QueueInv, NEW k \in Kinds, NEW p \in Peers, expire(k, p),
         UNCHANGED <<scheduled, taskPool, items, resultOffset>>
  PROVE  QueueTypes' /\ QueueInv'
<1> DEFINE queue == Pushed(taskQueue[k], pendPool[k][p])
<1> DEFINE pool == WithoutPool(k, p)
<1>1. /\ taskPool \in [Kinds -> SUBSET Headers] /\ taskQueue \in [Kinds -> [Headers -> Nat]]
      /\ pendPool \in [Kinds -> [Peers -> SUBSET Headers]]
  BY DEF QueueTypes
<1>2. /\ Exactly(taskQueue[k], pendPool[k], taskPool[k])
      /\ QueueType(taskQueue[k]) /\ PoolType(pendPool[k]) /\ taskPool[k] \in SUBSET Headers
  BY <1>1 DEF QueueInv, QueueType, PoolType
<1>3. Exactly(queue, pool, taskPool[k]) /\ QueueType(queue) /\ PoolType(pool)
  <2>1. {} \in SUBSET pendPool[k][p] /\ pendPool[k][p] \ {} = pendPool[k][p] /\ taskPool[k] \ {} = taskPool[k]
    OBVIOUS
  <2>2. /\ Exactly(Pushed(taskQueue[k], pendPool[k][p] \ {}), [pendPool[k] EXCEPT ![p] = {}], taskPool[k] \ {})
        /\ QueueType(Pushed(taskQueue[k], pendPool[k][p] \ {}))
        /\ PoolType([pendPool[k] EXCEPT ![p] = {}])
    BY <1>2, <2>1, Given, ZenonT(60)
  <2> QED BY <2>1, <2>2 DEF WithoutPool
<1>4. /\ taskQueue' = [taskQueue EXCEPT ![k] = queue] /\ pendPool' = [pendPool EXCEPT ![k] = pool]
      /\ taskPool' = [taskPool EXCEPT ![k] = taskPool[k]] /\ scheduled' = scheduled
  BY <1>1 DEF expire
<1>5. \A o \in Peers : pool[o] \subseteq pendPool[k][o]
  BY <1>1 DEF WithoutPool
<1> HIDE DEF queue, pool
<1>6. /\ taskQueue'[k] = queue /\ pendPool'[k] = pool /\ taskPool'[k] = taskPool[k]
      /\ \A j \in Kinds \ {k} : /\ taskQueue'[j] = taskQueue[j] /\ pendPool'[j] = pendPool[j]
                                /\ taskPool'[j] = taskPool[j]
      /\ QueueTypes'
  BY <1>1, <1>3, <1>4 DEF QueueTypes, QueueType, PoolType
<1>7. ASSUME NEW j \in Kinds
      PROVE  Exactly(taskQueue'[j], pendPool'[j], taskPool'[j]) /\ Slotted(j)' /\ Remembered(j)'
  <2>0. Exactly(taskQueue'[j], pendPool'[j], taskPool'[j])
    BY <1>3, <1>6, OneKind
  <2>1. \A o \in Peers : pendPool'[j][o] \subseteq pendPool[j][o]
    BY <1>5, <1>6
  <2>2. Slotted(j)'
    BY <2>1 DEF QueueInv, Slotted
  <2>3. Remembered(j)'
    BY ZenonT(60) DEF QueueInv, Remembered, Settled
  <2> QED BY <2>0, <2>2, <2>3
<1> QED BY <1>6, <1>7 DEF QueueInv

\* deliver: what arrives was reserved and has its slot, the rest goes back.
LEMMA DeliverKeeps ==
  ASSUME QueueTypes, StoreInv, QueueInv, NEW k \in Kinds, NEW p \in Peers, NEW S, deliver(k, p, S),
         UNCHANGED <<scheduled, resultOffset, indexIncomplete, throttleThreshold>>
  PROVE  QueueTypes' /\ QueueInv' /\ StoreInv'
<1> DEFINE hs == pendPool[k][p]
<1> DEFINE accepted == Accepted(hs, S)
<1> DEFINE queue == Pushed(taskQueue[k], hs \ accepted)
<1> DEFINE pool == [pendPool[k] EXCEPT ![p] = {}]
<1> DEFINE tasks == taskPool[k] \ accepted
<1>1. /\ taskPool \in [Kinds -> SUBSET Headers] /\ taskQueue \in [Kinds -> [Headers -> Nat]]
      /\ pendPool \in [Kinds -> [Peers -> SUBSET Headers]]
      /\ items \in [Headers -> {Absent} \cup SUBSET Kinds]
  BY DEF QueueTypes, StoreInv
<1>2. /\ Exactly(taskQueue[k], pendPool[k], taskPool[k])
      /\ QueueType(taskQueue[k]) /\ PoolType(pendPool[k]) /\ tasks \in SUBSET Headers
  BY <1>1 DEF QueueInv, QueueType, PoolType
<1>3. accepted \in SUBSET hs /\ accepted \subseteq Headers
  BY <1>1, SMTT(60) DEF Accepted
<1>4. /\ taskQueue' = [taskQueue EXCEPT ![k] = queue] /\ pendPool' = [pendPool EXCEPT ![k] = pool]
      /\ taskPool' = [taskPool EXCEPT ![k] = tasks] /\ scheduled' = scheduled
      /\ items' = [h \in Headers |-> IF h \in accepted THEN items[h] \ {k} ELSE items[h]]
  <2>1. /\ taskQueue' = [taskQueue EXCEPT ![k] = queue] /\ taskPool' = [taskPool EXCEPT ![k] = tasks]
        /\ items' = [h \in Headers |-> IF h \in accepted THEN items[h] \ {k} ELSE items[h]]
        /\ pendPool' = [pendPool EXCEPT ![k][p] = {}]
    BY ZenonT(60) DEF deliver, Returned
  <2>2. [pendPool EXCEPT ![k][p] = {}] = [pendPool EXCEPT ![k] = pool]
    BY <1>1
  <2> QED BY <2>1, <2>2
<1> HIDE DEF accepted
<1>5. Exactly(queue, pool, tasks) /\ QueueType(queue) /\ PoolType(pool)
  BY <1>2, <1>3, Given, ZenonT(60)
<1>6. \A o \in Peers : pool[o] = IF o = p THEN {} ELSE pendPool[k][o]
  BY <1>1
<1> HIDE DEF queue, pool, tasks
<1>7. /\ taskQueue'[k] = queue /\ pendPool'[k] = pool /\ taskPool'[k] = tasks
      /\ \A j \in Kinds \ {k} : /\ taskQueue'[j] = taskQueue[j] /\ pendPool'[j] = pendPool[j]
                                /\ taskPool'[j] = taskPool[j]
      /\ QueueTypes'
  BY <1>1, <1>2, <1>4, <1>5 DEF QueueTypes, QueueType, PoolType
<1>8. \A h \in accepted : items[h] \in SUBSET Kinds /\ items[h] # Absent /\ k \in items[h]
  <2> SUFFICES ASSUME NEW h \in accepted
               PROVE  items[h] \in SUBSET Kinds /\ items[h] # Absent /\ k \in items[h]
    OBVIOUS
  <2>1. h \in pendPool[k][p] /\ h \in Headers
    BY <1>3
  <2>2. items[h] # Absent /\ k \in items[h]
    BY <2>1 DEF QueueInv, Slotted
  <2> QED BY <1>1, <2>1, <2>2
<1>9. ASSUME NEW h \in Headers
      PROVE  /\ items'[h] = IF h \in accepted THEN items[h] \ {k} ELSE items[h]
             /\ items'[h] \in {Absent} \cup SUBSET Kinds
             /\ items'[h] # Absent <=> items[h] # Absent
             /\ \A j \in Kinds : j \in items'[h] => j \in items[h]
             /\ \A j \in Kinds \ {k} : j \in items[h] => j \in items'[h]
  <2>1. items'[h] = IF h \in accepted THEN items[h] \ {k} ELSE items[h]
    BY <1>4
  <2>2. CASE h \in accepted
    <3>1. items[h] \ {k} \in SUBSET Kinds /\ items[h] # Absent
      BY <1>8, <2>2
    <3>2. items[h] \ {k} # Absent
      BY <3>1, SlotFacts
    <3> QED BY <2>1, <2>2, <3>1, <3>2
  <2>3. CASE h \notin accepted
    BY <1>1, <2>1, <2>3
  <2> QED BY <2>2, <2>3
<1>10. ASSUME NEW j \in Kinds PROVE Slotted(j)'
  <2> SUFFICES ASSUME NEW o \in Peers, NEW h \in pendPool'[j][o]
               PROVE  items'[h] # Absent /\ j \in items'[h]
    BY DEF Slotted
  <2>1. h \in pendPool[j][o] /\ (j = k => o # p)
    BY <1>6, <1>7
  <2>2. h \in Headers
    BY <1>1, <2>1, SMTT(60)
  <2>3. items[h] # Absent /\ j \in items[h]
    BY <2>1 DEF QueueInv, Slotted
  <2>4. CASE j = k
    <3>1. h \notin accepted
      <4>1. \A a, b \in Peers : h \in pendPool[k][a] /\ h \in pendPool[k][b] => a = b
        BY <1>2, <2>2, ZenonT(60) DEF Exactly
      <4> QED BY <1>3, <2>1, <2>4, <4>1
    <3> QED BY <1>9, <2>2, <2>3, <3>1, ZenonT(60)
  <2>5. CASE j # k
    BY <1>9, <2>2, <2>3, <2>5, ZenonT(60)
  <2> QED BY <2>4, <2>5
<1>11. ASSUME NEW j \in Kinds PROVE Remembered(j)'
  <2> SUFFICES ASSUME NEW h \in Headers, h <= scheduled', IsTask(j, h), ~Settled(j, h)'
               PROVE  h \in taskPool'[j]
    BY DEF Remembered
  <2>1. ~Settled(j, h)
    BY <1>9, ZenonT(60) DEF Settled
  <2>2. h \in taskPool[j]
    BY <1>4, <2>1, ZenonT(60) DEF QueueInv, Remembered
  <2>3. ASSUME h \in accepted, j = k PROVE FALSE
    <3>1. items'[h] = items[h] \ {k} /\ items'[h] # Absent
      BY <1>8, <1>9, <2>3, ZenonT(60)
    <3> QED BY <2>3, <3>1 DEF Settled
  <2> QED BY <1>7, <2>2, <2>3 DEF tasks
<1>12. QueueInv'
  <2>1. \A j \in Kinds : Exactly(taskQueue'[j], pendPool'[j], taskPool'[j])
    BY <1>5, <1>7, OneKind, ZenonT(60)
  <2> QED BY <1>10, <1>11, <2>1 DEF QueueInv
<1>13. StoreInv'
  <2>1. items' \in [Headers -> {Absent} \cup SUBSET Kinds]
    BY <1>4, <1>9, ZenonT(60)
  <2>2. InWindow'
    BY <1>9, ZenonT(60) DEF StoreInv, InWindow
  <2>3. CompleteRemembered'
    <3> SUFFICES ASSUME NEW i \in 0 .. indexIncomplete - 1
                 PROVE  resultOffset + i \in Headers /\ items'[resultOffset + i] = {}
      BY ZenonT(60) DEF CompleteRemembered, AllDone
    <3>1. resultOffset + i \in Headers /\ items[resultOffset + i] = {}
      BY DEF StoreInv, CompleteRemembered, AllDone
    <3> QED BY <1>9, <3>1, ZenonT(60)
  <2> QED BY <2>1, <2>2, <2>3 DEF StoreInv
<1> QED BY <1>7, <1>12, <1>13

\* reserveHeaders: what is sent leaves the queue for one peer and has its slot,
\* and what is forgotten needs fetching no more.
LEMMA ReserveKeeps ==
  ASSUME QueueTypes, StoreInv, QueueInv, NEW k \in Kinds, NEW p \in Peers, NEW count \in Headers,
         pendPool[k][p] = {},
         LET res == Reservation(k, p, count)
         IN  /\ items' = res.items
             /\ taskPool' = [taskPool EXCEPT ![k] = @ \ res.drop]
             /\ taskQueue' = [taskQueue EXCEPT ![k] = Popped(@, res.drop \cup res.send)]
             /\ pendPool' = [pendPool EXCEPT ![k][p] = res.send],
         UNCHANGED <<scheduled, resultOffset, indexIncomplete, throttleThreshold>>
  PROVE  QueueTypes' /\ QueueInv' /\ StoreInv'
<1> DEFINE res == Reservation(k, p, count)
<1> DEFINE queue == Popped(taskQueue[k], res.drop \cup res.send)
<1> DEFINE pool == [pendPool[k] EXCEPT ![p] = res.send]
<1> DEFINE tasks == taskPool[k] \ res.drop
<1>1. /\ taskPool \in [Kinds -> SUBSET Headers] /\ taskQueue \in [Kinds -> [Headers -> Nat]]
      /\ pendPool \in [Kinds -> [Peers -> SUBSET Headers]]
      /\ items \in [Headers -> {Absent} \cup SUBSET Kinds]
  BY DEF QueueTypes, StoreInv
<1>2. /\ Exactly(taskQueue[k], pendPool[k], taskPool[k])
      /\ QueueType(taskQueue[k]) /\ PoolType(pendPool[k]) /\ tasks \in SUBSET Headers
  BY <1>1 DEF QueueInv, QueueType, PoolType
<1>3. /\ res.send \in SUBSET Headers /\ res.drop \in SUBSET Headers
      /\ res.send \cap res.drop = {}
      /\ \A h \in res.send \cup res.drop : taskQueue[k][h] > 0
      /\ items' \in [Headers -> {Absent} \cup SUBSET Kinds]
      /\ \A h \in Headers : items[h] # Absent => items'[h] = items[h]
      /\ \A h \in Headers : items'[h] # items[h] => h \in resultOffset .. resultOffset + CacheSize - 1
      /\ \A h \in res.send : items'[h] # Absent /\ k \in items'[h]
      /\ \A h \in res.drop : h < resultOffset \/ (items'[h] # Absent /\ k \notin items'[h])
  <2>1. items' = res.items
    OBVIOUS
  <2>2. /\ res.send \in SUBSET Headers /\ res.drop \in SUBSET Headers
        /\ res.send \cap res.drop = {}
        /\ \A h \in res.send \cup res.drop : taskQueue[k][h] > 0
        /\ res.items \in [Headers -> {Absent} \cup SUBSET Kinds]
        /\ \A h \in Headers : items[h] # Absent => res.items[h] = items[h]
        /\ \A h \in Headers : res.items[h] # items[h] =>
             h \in resultOffset .. resultOffset + CacheSize - 1
        /\ \A h \in res.send : res.items[h] # Absent /\ k \in res.items[h]
        /\ \A h \in res.drop :
             h < resultOffset \/ (res.items[h] # Absent /\ k \notin res.items[h])
    BY ReservationFacts
  <2> HIDE DEF res
  <2> QED BY <2>1, <2>2
<1>4. /\ taskQueue' = [taskQueue EXCEPT ![k] = queue] /\ pendPool' = [pendPool EXCEPT ![k] = pool]
      /\ taskPool' = [taskPool EXCEPT ![k] = tasks] /\ scheduled' = scheduled
  <2>1. /\ taskPool' = [taskPool EXCEPT ![k] = @ \ res.drop]
        /\ taskQueue' = [taskQueue EXCEPT ![k] = Popped(@, res.drop \cup res.send)]
        /\ pendPool' = [pendPool EXCEPT ![k][p] = res.send]
    BY ZenonT(60)
  <2> HIDE DEF res
  <2>2. [pendPool EXCEPT ![k][p] = res.send] = [pendPool EXCEPT ![k] = pool]
    BY <1>1
  <2> QED BY <2>1, <2>2, ZenonT(60)
<1> HIDE DEF res
<1>5. Exactly(queue, pool, tasks) /\ QueueType(queue) /\ PoolType(pool)
  BY <1>2, <1>3, Taken, ZenonT(60)
<1>6. \A o \in Peers : pool[o] = IF o = p THEN res.send ELSE pendPool[k][o]
  BY <1>1
<1> HIDE DEF queue, pool, tasks
<1>7. /\ taskQueue'[k] = queue /\ pendPool'[k] = pool /\ taskPool'[k] = tasks
      /\ \A j \in Kinds \ {k} : /\ taskQueue'[j] = taskQueue[j] /\ pendPool'[j] = pendPool[j]
                                /\ taskPool'[j] = taskPool[j]
      /\ QueueTypes'
  <2>1. taskPool' \in [Kinds -> SUBSET Headers]
    BY <1>1, <1>2, <1>4
  <2>2. taskQueue' \in [Kinds -> [Headers -> Nat]]
    BY <1>1, <1>4, <1>5, ZenonT(60) DEF QueueType
  <2>3. pendPool' \in [Kinds -> [Peers -> SUBSET Headers]]
    BY <1>1, <1>4, <1>5 DEF PoolType
  <2> QED BY <1>1, <1>4, <2>1, <2>2, <2>3, ZenonT(60) DEF QueueTypes
<1>8. ASSUME NEW j \in Kinds PROVE Slotted(j)'
  <2> SUFFICES ASSUME NEW o \in Peers, NEW h \in pendPool'[j][o]
               PROVE  items'[h] # Absent /\ j \in items'[h]
    BY DEF Slotted
  <2>1. (j = k /\ h \in res.send) \/ h \in pendPool[j][o]
    BY <1>6, <1>7
  <2>2. CASE h \in pendPool[j][o]
    <3>1. h \in Headers /\ items[h] # Absent /\ j \in items[h]
      BY <1>1, <2>2, SMTT(60) DEF QueueInv, Slotted
    <3> QED BY <1>3, <3>1
  <2> QED BY <1>3, <2>1, <2>2
<1>9. ASSUME NEW j \in Kinds PROVE Remembered(j)'
  <2> SUFFICES ASSUME NEW h \in Headers, h <= scheduled', IsTask(j, h), ~Settled(j, h)'
               PROVE  h \in taskPool'[j]
    BY DEF Remembered
  <2>1. ~Settled(j, h)
    BY <1>3 DEF Settled
  <2>2. h \in taskPool[j]
    BY <1>4, <2>1, ZenonT(60) DEF QueueInv, Remembered
  <2>3. ~(j = k /\ h \in res.drop)
    BY <1>3 DEF Settled
  <2> QED BY <1>7, <2>2, <2>3 DEF tasks
<1>10. QueueInv'
  <2>1. \A j \in Kinds : Exactly(taskQueue'[j], pendPool'[j], taskPool'[j])
    BY <1>5, <1>7, OneKind, ZenonT(60)
  <2> QED BY <1>8, <1>9, <2>1 DEF QueueInv
<1>11. StoreInv'
  <2>1. InWindow'
    BY <1>3 DEF StoreInv, InWindow
  <2>2. CompleteRemembered'
    <3> SUFFICES ASSUME NEW i \in 0 .. indexIncomplete - 1
                 PROVE  resultOffset + i \in Headers /\ items'[resultOffset + i] = {}
      BY DEF CompleteRemembered, AllDone
    <3>1. resultOffset + i \in Headers /\ items[resultOffset + i] = {}
      BY DEF StoreInv, CompleteRemembered, AllDone
    <3>2. {} # Absent
      BY SlotFacts
    <3> QED BY <1>3, <3>1, <3>2
  <2> QED BY <1>3, <2>1, <2>2 DEF StoreInv
<1> QED BY <1>7, <1>10, <1>11

\* Revoke: the reservations of a peer that left go back for every kind.
LEMMA RevokeKeeps ==
  ASSUME QueueTypes, QueueInv, NEW p \in Peers, Revoke(p)
  PROVE  QueueTypes' /\ QueueInv'
<1>1. /\ taskPool \in [Kinds -> SUBSET Headers] /\ taskQueue \in [Kinds -> [Headers -> Nat]]
      /\ pendPool \in [Kinds -> [Peers -> SUBSET Headers]]
  BY DEF QueueTypes
<1>2. /\ taskQueue' = [k \in Kinds |-> Pushed(taskQueue[k], pendPool[k][p])]
      /\ pendPool' = [k \in Kinds |-> [pendPool[k] EXCEPT ![p] = {}]]
      /\ UNCHANGED <<scheduled, taskPool, items, resultOffset>>
  BY ZenonT(60) DEF Revoke, WithoutPool, storeVars
<1>3. ASSUME NEW k \in Kinds
      PROVE  /\ Exactly(taskQueue'[k], pendPool'[k], taskPool'[k])
             /\ QueueType(taskQueue'[k]) /\ PoolType(pendPool'[k])
             /\ \A o \in Peers : pendPool'[k][o] \subseteq pendPool[k][o]
  <2>1. {} \in SUBSET pendPool[k][p] /\ pendPool[k][p] \ {} = pendPool[k][p] /\ taskPool[k] \ {} = taskPool[k]
    OBVIOUS
  <2>2. Exactly(taskQueue[k], pendPool[k], taskPool[k]) /\ QueueType(taskQueue[k]) /\ PoolType(pendPool[k])
    BY <1>1 DEF QueueInv, QueueType, PoolType
  <2>3. /\ Exactly(Pushed(taskQueue[k], pendPool[k][p] \ {}), [pendPool[k] EXCEPT ![p] = {}], taskPool[k] \ {})
        /\ QueueType(Pushed(taskQueue[k], pendPool[k][p] \ {}))
        /\ PoolType([pendPool[k] EXCEPT ![p] = {}])
    BY <2>1, <2>2, Given, ZenonT(60)
  <2>4. /\ taskQueue'[k] = Pushed(taskQueue[k], pendPool[k][p])
        /\ pendPool'[k] = [pendPool[k] EXCEPT ![p] = {}] /\ taskPool'[k] = taskPool[k]
    BY <1>2
  <2> QED BY <1>1, <2>1, <2>3, <2>4
<1>4. QueueTypes'
  BY <1>2, <1>3, ZenonT(60) DEF QueueTypes, QueueType, PoolType
<1>5. ASSUME NEW k \in Kinds PROVE Slotted(k)' /\ Remembered(k)'
  <2>1. Slotted(k)'
    BY <1>2, <1>3 DEF QueueInv, Slotted
  <2>2. Remembered(k)'
    BY <1>2, ZenonT(60) DEF QueueInv, Remembered, Settled
  <2> QED BY <2>1, <2>2
<1> QED BY <1>3, <1>4, <1>5 DEF QueueInv

\* Schedule: each new header becomes a task once.
LEMMA ScheduleKeeps ==
  ASSUME QueueTypes, QueueInv, NEW n \in Headers, n > scheduled, Schedule(n),
         UNCHANGED <<pendPool, items, resultOffset>>
  PROVE  QueueTypes' /\ QueueInv'
<1> DEFINE new(k) == {h \in scheduled + 1 .. n : IsTask(k, h) /\ h \notin taskPool[k]}
<1>1. /\ taskPool \in [Kinds -> SUBSET Headers] /\ taskQueue \in [Kinds -> [Headers -> Nat]]
      /\ pendPool \in [Kinds -> [Peers -> SUBSET Headers]] /\ scheduled \in 0..LastHeader
      /\ LastHeader \in Nat
  BY Sizes DEF QueueTypes
<1>2. /\ taskQueue' = [k \in Kinds |-> Pushed(taskQueue[k], new(k))]
      /\ taskPool' = [k \in Kinds |-> taskPool[k] \cup new(k)]
      /\ scheduled' = n
  BY ZenonT(60) DEF Schedule
<1>3. \A k \in Kinds : new(k) \in SUBSET Headers /\ new(k) \cap taskPool[k] = {}
  BY <1>1, SMTT(60) DEF Headers
<1>4. ASSUME NEW k \in Kinds, NEW h \in Headers, h <= n, IsTask(k, h), h > scheduled
      PROVE  h \in taskPool[k] \cup new(k)
  BY <1>1, <1>4, Sizes, SMTT(60)
<1> HIDE DEF new
<1>5. ASSUME NEW k \in Kinds
      PROVE  Exactly(taskQueue'[k], pendPool'[k], taskPool'[k]) /\ QueueType(taskQueue'[k])
  <2>1. Exactly(taskQueue[k], pendPool[k], taskPool[k]) /\ QueueType(taskQueue[k])
    BY <1>1 DEF QueueInv, QueueType
  <2>2. /\ Exactly(Pushed(taskQueue[k], new(k)), pendPool[k], taskPool[k] \cup new(k))
        /\ QueueType(Pushed(taskQueue[k], new(k)))
    BY <1>3, <2>1, Added
  <2>3. /\ taskQueue'[k] = Pushed(taskQueue[k], new(k)) /\ taskPool'[k] = taskPool[k] \cup new(k)
        /\ pendPool'[k] = pendPool[k]
    BY <1>2
  <2> QED BY <2>2, <2>3
<1>6. QueueTypes'
  <2>1. taskQueue' \in [Kinds -> [Headers -> Nat]]
    BY <1>2, <1>5, ZenonT(60) DEF QueueType
  <2>2. taskPool' \in [Kinds -> SUBSET Headers]
    BY <1>1, <1>2, <1>3
  <2> QED BY <1>1, <1>2, <2>1, <2>2, SMTT(60) DEF QueueTypes, Headers
<1>7. ASSUME NEW k \in Kinds PROVE Slotted(k)' /\ Remembered(k)'
  <2>1. Slotted(k)'
    BY ZenonT(60) DEF QueueInv, Slotted
  <2>2. ASSUME NEW h \in Headers, h <= scheduled', IsTask(k, h), ~Settled(k, h)'
        PROVE  h \in taskPool'[k]
    <3>1. ~Settled(k, h)
      BY <2>2 DEF Settled
    <3>2. CASE h <= scheduled
      <4>1. h \in taskPool[k]
        BY <2>2, <3>1, <3>2, ZenonT(60) DEF QueueInv, Remembered
      <4> QED BY <1>2, <4>1
    <3>3. CASE h > scheduled
      BY <1>2, <1>4, <2>2, <3>3
    <3> QED BY <1>1, <3>2, <3>3, Sizes, SMTT(60)
  <2>3. Remembered(k)'
    BY <2>2 DEF Remembered
  <2> QED BY <2>1, <2>3
<1> QED BY <1>5, <1>6, <1>7 DEF QueueInv

\* GetCompleted: only complete blocks leave the store, so nothing that is
\* reserved or still missing leaves with them, and the rest of what is known
\* to be complete stays known.
LEMMA TakeKeeps ==
  ASSUME QueueTypes, StoreInv, QueueInv, NEW n \in Nat, n <= Completed, GetCompleted(n),
         UNCHANGED <<queueVars, throttleThreshold>>
  PROVE  QueueInv' /\ StoreInv'
<1>1. /\ items' = [h \in Headers |-> IF h < resultOffset + n THEN Absent ELSE items[h]]
      /\ resultOffset' = resultOffset + n /\ indexIncomplete' = Completed - n
      /\ UNCHANGED <<scheduled, taskPool, taskQueue, pendPool, throttleThreshold>>
  BY DEF GetCompleted, IndexMoved, queueVars
<1>2. /\ Completed \in indexIncomplete..CacheSize
      /\ resultOffset + Completed <= LastHeader + 1
      /\ \A h \in resultOffset .. resultOffset + Completed - 1 : h \in Headers /\ AllDone(h)
  BY CompletedFacts
<1>3. /\ resultOffset \in Nat \ {0} /\ indexIncomplete \in Nat /\ CacheSize \in Nat
      /\ LastHeader \in Nat /\ items \in [Headers -> {Absent} \cup SUBSET Kinds]
      /\ \A h \in Headers : items[h] # Absent => h \in resultOffset .. resultOffset + CacheSize - 1
  BY Sizes, SMTT(60) DEF StoreInv, InWindow
<1>4. Completed \in Nat /\ Completed <= CacheSize
  BY <1>2, <1>3
<1> DEFINE c == Completed
<1> HIDE DEF c
<1>5. c \in Nat /\ c <= CacheSize /\ n <= c /\ resultOffset + c <= LastHeader + 1
  BY <1>2, <1>4 DEF c
<1>6. \A h \in Headers : items'[h] = IF h < resultOffset + n THEN Absent ELSE items[h]
  BY <1>1
<1>7. ASSUME NEW k \in Kinds PROVE Slotted(k)' /\ Remembered(k)'
  <2>1. ASSUME NEW p \in Peers, NEW h \in pendPool'[k][p] PROVE items'[h] # Absent /\ k \in items'[h]
    <3>1. h \in Headers /\ h \in pendPool[k][p]
      BY <1>1, <2>1 DEF QueueTypes
    <3>2. items[h] # Absent /\ k \in items[h]
      BY <3>1 DEF QueueInv, Slotted
    <3>3. h >= resultOffset
      BY <1>3, <3>1, <3>2
    <3>4. h \in Nat /\ resultOffset \in Nat /\ n \in Nat
      BY <1>3, <3>1, Sizes
    <3>5. ASSUME h < resultOffset + n PROVE FALSE
      <4>1. h \in resultOffset .. resultOffset + c - 1
        BY <1>5, <3>3, <3>4, <3>5
      <4>2. items[h] = {}
        BY <1>2, <4>1 DEF c, AllDone
      <4> QED BY <3>2, <4>2
    <3> QED BY <1>6, <3>1, <3>2, <3>5
  <2>2. ASSUME NEW h \in Headers, h <= scheduled', IsTask(k, h), ~Settled(k, h)'
        PROVE  h \in taskPool'[k]
    <3>1. ~(h < resultOffset + n) /\ items'[h] = items[h]
      BY <1>1, <1>6, <2>2 DEF Settled
    <3>2. ~(h < resultOffset)
      BY <1>3, <3>1, Sizes, SMTT(60)
    <3>3. ~Settled(k, h)
      BY <2>2, <3>1, <3>2 DEF Settled
    <3> QED BY <1>1, <2>2, <3>3, ZenonT(60) DEF QueueInv, Remembered
  <2> QED BY <2>1, <2>2 DEF Slotted, Remembered
<1>8. QueueInv'
  <2>1. \A k \in Kinds : Exactly(taskQueue'[k], pendPool'[k], taskPool'[k])
    BY <1>1, ZenonT(60) DEF QueueInv
  <2> QED BY <1>7, <2>1 DEF QueueInv
<1>9. StoreInv'
  <2>1. items' \in [Headers -> {Absent} \cup SUBSET Kinds]
    BY <1>1, <1>3
  <2>2. resultOffset' \in 1..LastHeader + 1 /\ indexIncomplete' \in 0..CacheSize
    BY <1>1, <1>3, <1>5 DEF c
  <2>3. InWindow'
    <3> SUFFICES ASSUME NEW h \in Headers, items'[h] # Absent
                 PROVE  h \in resultOffset' .. resultOffset' + CacheSize - 1
      BY DEF InWindow
    <3>1. ~(h < resultOffset + n) /\ items[h] # Absent
      BY <1>6
    <3>2. h \in resultOffset .. resultOffset + CacheSize - 1
      BY <1>3, <3>1
    <3> QED BY <1>1, <1>3, <3>1, <3>2, SMTT(60)
  <2>4. CompleteRemembered'
    <3> SUFFICES ASSUME NEW i \in 0 .. c - n - 1
                 PROVE  resultOffset + n + i \in Headers /\ items'[resultOffset + n + i] = {}
      BY <1>1 DEF CompleteRemembered, AllDone, c
    <3>1. resultOffset + n + i \in resultOffset .. resultOffset + c - 1 /\ ~(resultOffset + n + i < resultOffset + n)
      BY <1>3, <1>5
    <3>2. resultOffset + n + i \in Headers /\ items[resultOffset + n + i] = {}
      BY <1>2, <3>1 DEF c, AllDone
    <3> QED BY <1>6, <3>1, <3>2
  <2> QED BY <1>1, <2>1, <2>2, <2>3, <2>4 DEF StoreInv
<1> QED BY <1>8, <1>9

----------------------------------------------------------------------------
(* The fetchers and their requests *)

\* A part of finitely many requests, or one more, is finitely many.
LEMMA Fewer ==
  ASSUME NEW R, FinitelyMany(R), NEW S \in SUBSET R
  PROVE  FinitelyMany(S)
  BY FS_Subset DEF FinitelyMany

\* One more request is still finitely many.
LEMMA OneMore ==
  ASSUME NEW R, FinitelyMany(R), NEW req \in Requests
  PROVE  FinitelyMany(R \cup {req})
  BY FS_AddElement DEF FinitelyMany

\* A fetcher starts, and ends, with no request.
LEMMA NoRequests == FinitelyMany({})
  BY FS_EmptySet DEF FinitelyMany

\* Changing the requests of one kind.
LEMMA Replaced ==
  ASSUME NEW m, ByKind(m), NEW k \in Kinds, NEW R, FinitelyMany(R)
  PROVE  ByKind([m EXCEPT ![k] = R])
<1> DEFINE m1 == [m EXCEPT ![k] = R]
<1>1. m = [j \in Kinds |-> m[j]]
  BY DEF ByKind
<1>2. DOMAIN m = Kinds
  BY <1>1, ZenonT(60)
<1>3. m1 = [j \in Kinds |-> IF j = k THEN R ELSE m[j]]
  BY <1>2, ZenonT(60)
<1>4. \A j \in Kinds : FinitelyMany(m1[j])
  <2> SUFFICES ASSUME NEW j \in Kinds PROVE FinitelyMany(m1[j])
    OBVIOUS
  <2>1. m1[j] = R \/ m1[j] = m[j]
    BY <1>3
  <2>2. FinitelyMany(m[j])
    BY DEF ByKind
  <2> HIDE DEF m1
  <2> QED BY <2>1, <2>2
<1>5. m1 = [j \in Kinds |-> m1[j]]
  BY <1>2, ZenonT(60)
<1> QED BY <1>4, <1>5, ZenonT(60) DEF ByKind

\* A new request has an id that no request of the kind has: among one number
\* more than there are ids in use, one is not in use.
LEMMA NewRequestFacts ==
  ASSUME FetchInv, NEW k \in Kinds
  PROVE  NewRequest(k) \in Requests
<1> DEFINE out == pending[k] \cup stales[k] \cup timeouts[k] \cup wire[k]
<1> DEFINE used == {r.id : r \in out}
<1>1. FinitelyMany(pending[k]) /\ FinitelyMany(stales[k]) /\ FinitelyMany(timeouts[k]) /\ FinitelyMany(wire[k])
  BY DEF FetchInv, ByKind
<1>2. IsFiniteSet(out)
  <2>1. IsFiniteSet(pending[k] \cup stales[k])
    BY <1>1, FS_Union, ZenonT(60) DEF FinitelyMany
  <2>2. IsFiniteSet(pending[k] \cup stales[k] \cup timeouts[k])
    BY <1>1, <2>1, FS_Union, ZenonT(60) DEF FinitelyMany
  <2> QED BY <1>1, <2>2, FS_Union, ZenonT(60) DEF FinitelyMany
<1>3. IsFiniteSet(used) /\ Cardinality(used) \in Nat
  <2> HIDE DEF out
  <2>1. [r \in out |-> r.id] \in Surjection(out, used)
    BY DEF Surjection
  <2>2. IsFiniteSet(used)
    BY <1>2, <2>1, FS_Surjection, ZenonT(60)
  <2> QED BY <2>2, FS_CardinalityType
<1> HIDE DEF used, out
<1> DEFINE c == Cardinality(used)
<1>4. \E i \in 1 .. c + 1 : i \notin used
  <2> SUFFICES ASSUME 1 .. c + 1 \subseteq used PROVE FALSE
    OBVIOUS
  <2>1. Cardinality(1 .. c + 1) = c + 1
    BY <1>3, FS_Interval
  <2>2. Cardinality(1 .. c + 1) <= c
    BY <1>3, FS_Subset
  <2> QED BY <1>3, <2>1, <2>2
<1>5. (CHOOSE i \in 1 .. c + 1 : i \notin used) \in Nat
  <2>1. (CHOOSE i \in 1 .. c + 1 : i \notin used) \in 1 .. c + 1
    BY <1>4, ZenonT(60)
  <2> QED BY <1>3, <2>1
<1>6. NewRequest(k) = [peer |-> fetcher[k].peer, headers |-> fetcher[k].headers,
                       id |-> CHOOSE i \in 1 .. c + 1 : i \notin used]
  BY ZenonT(60) DEF NewRequest, used, out
<1>7. fetcher[k].peer \in Peers /\ fetcher[k].headers \in SUBSET Headers
  BY DEF FetchInv, Locals
<1> QED BY <1>5, <1>6, <1>7 DEF Requests

\* The loop's locals at the start of a step, and the end of the goroutine.
LEMMA GoesKeeps ==
  ASSUME fetcher \in [Kinds -> Locals], NEW k \in Kinds, NEW step \in Steps, Goes(k, step)
  PROVE  fetcher' \in [Kinds -> Locals]
<1>1. AtStep(step) \in Locals
  BY DownloadAssumption DEF AtStep, Locals
<1> QED BY <1>1 DEF Goes

\* The goroutine of a fetcher ends: its requests are dropped.
LEMMA EndsKeeps ==
  ASSUME FetchInv, NEW k \in Kinds, NEW how \in Steps, Ends(k, how)
  PROVE  FetchInv'
<1>1. fetcher' \in [Kinds -> Locals]
  BY GoesKeeps DEF Ends, FetchInv
<1>2. ByKind(pending') /\ ByKind(stales')
  BY Replaced, NoRequests, ZenonT(60) DEF Ends, FetchInv
<1>3. ByKind(timeouts') /\ ByKind(wire')
  BY Replaced, NoRequests, ZenonT(60) DEF Ends, FetchInv
<1> QED BY <1>1, <1>2, <1>3 DEF FetchInv

----------------------------------------------------------------------------
(* Every step keeps the invariant *)

\* What a step leaves alone stays as it should be.
LEMMA QueueFrame ==
  ASSUME QueueTypes, QueueInv, UNCHANGED <<queueVars, items, resultOffset>>
  PROVE  QueueTypes' /\ QueueInv'
<1>1. QueueTypes'
  BY DEF QueueTypes, queueVars
<1>2. ASSUME NEW k \in Kinds
      PROVE  Exactly(taskQueue'[k], pendPool'[k], taskPool'[k]) /\ Slotted(k)' /\ Remembered(k)'
  BY ZenonT(60) DEF QueueInv, queueVars, Slotted, Remembered, Settled
<1> QED BY <1>1, <1>2 DEF QueueInv

\* The same for the result store,
LEMMA StoreFrame ==
  ASSUME StoreInv, UNCHANGED storeVars
  PROVE  StoreInv'
  BY ZenonT(60) DEF StoreInv, storeVars, InWindow, CompleteRemembered, AllDone

\* for the peer set and the channels,
LEMMA PeerFrame ==
  ASSUME PeerTypes, UNCHANGED <<peers, leaving, lacking, wakeCh>>
  PROVE  PeerTypes'
  BY ZenonT(60) DEF PeerTypes

\* and for the loops and their requests.
LEMMA FetchFrame ==
  ASSUME FetchInv, UNCHANGED <<fetcher, requestVars>>
  PROVE  FetchInv'
  BY ZenonT(60) DEF FetchInv, requestVars

\* The steps of a fetcher.
LEMMA FetchStepKeeps ==
  ASSUME IInv, NEW k \in Kinds, FetchStep(k)
  PROVE  IInv'
<1>1. QueueTypes /\ StoreInv /\ PeerTypes /\ FetchInv /\ QueueInv
  BY DEF IInv
<1>2. /\ fetcher \in [Kinds -> Locals] /\ ByKind(pending) /\ ByKind(stales)
      /\ ByKind(timeouts) /\ ByKind(wire)
      /\ FinitelyMany(pending[k]) /\ FinitelyMany(stales[k])
      /\ FinitelyMany(timeouts[k]) /\ FinitelyMany(wire[k])
  BY <1>1 DEF FetchInv, ByKind
<1>3. Steps = {"top", "assign", "send", "select", "ok", "err", "canceled"}
  BY DEF Steps
<1>4. fetcher[k] \in Locals
  BY <1>2
<1>5. ASSUME UNCHANGED requestVars, fetcher' \in [Kinds -> Locals] PROVE FetchInv'
  BY <1>1, <1>5, ZenonT(60) DEF FetchInv, requestVars
<1>6. ASSUME UNCHANGED requestVars, NEW step \in Steps, Goes(k, step) PROVE FetchInv'
  BY <1>2, <1>5, <1>6, GoesKeeps
<1>7. CASE FetchTop(k)
  <2>1. UNCHANGED <<queueVars, storeVars, wakeCh, peers, leaving, lacking>>
    BY <1>7, ZenonT(60) DEF FetchTop
  <2>2. ASSUME Ends(k, "err") \/ Ends(k, "ok") PROVE FetchInv'
    BY <1>1, <1>3, <2>2, EndsKeeps
  <2>3. ASSUME Goes(k, "select") /\ UNCHANGED requestVars PROVE FetchInv'
    BY <1>3, <1>6, <2>3
  <2>4. ASSUME UNCHANGED requestVars,
               LET idles == peers \ Busy(k)
               IN fetcher' = [fetcher EXCEPT ![k] = [AtStep("assign") EXCEPT !.all = idles, !.idles = idles]]
        PROVE  FetchInv'
    <3> DEFINE idles == peers \ Busy(k)
    <3> DEFINE next == [AtStep("assign") EXCEPT !.all = idles, !.idles = idles]
    <3>1. idles \in SUBSET Peers
      BY <1>1 DEF PeerTypes
    <3>2. next \in Locals
      <4> HIDE DEF idles
      <4> QED BY <1>3, <3>1, DownloadAssumption, ZenonT(60) DEF AtStep, Locals
    <3>3. fetcher' = [fetcher EXCEPT ![k] = next]
      BY <2>4
    <3> HIDE DEF next
    <3>4. fetcher' \in [Kinds -> Locals]
      BY <1>2, <3>2, <3>3
    <3> QED BY <1>1, <1>5, <2>4, <3>4
  <2>5. FetchInv'
    BY <1>7, <2>2, <2>3, <2>4, ZenonT(60) DEF FetchTop
  <2> QED BY <1>1, <2>1, <2>5, QueueFrame, StoreFrame, PeerFrame DEF IInv, storeVars
<1>8. CASE \E p \in Peers, count \in Headers : FetchReserve(k, p, count)
  <2>1. PICK p \in Peers, count \in Headers : FetchReserve(k, p, count)
    BY <1>8
  <2> DEFINE res == Reservation(k, p, count)
  <2> DEFINE after == [fetcher[k] EXCEPT !.idles = @ \ {p}]
  <2>2. UNCHANGED <<scheduled, resultOffset, indexIncomplete, throttleThreshold, wakeCh, peers, leaving,
                    lacking, requestVars>>
    BY <2>1, ZenonT(60) DEF FetchReserve, peerVars
  <2>3. after \in Locals
    BY <1>4 DEF Locals
  <2>4. CASE pendPool[k][p] # {}
    <3>1. /\ fetcher' = [fetcher EXCEPT ![k] = after]
          /\ UNCHANGED <<taskPool, taskQueue, pendPool, items>>
      BY <2>1, <2>4, ZenonT(60) DEF FetchReserve
    <3> HIDE DEF after
    <3>2. FetchInv'
      BY <1>2, <1>5, <2>2, <2>3, <3>1
    <3>3. UNCHANGED <<queueVars, storeVars>>
      BY <2>2, <3>1 DEF queueVars, storeVars
    <3> QED BY <1>1, <2>2, <3>2, <3>3, QueueFrame, StoreFrame, PeerFrame DEF IInv, storeVars
  <2>5. CASE pendPool[k][p] = {}
    <3>1. LET r == Reservation(k, p, count)
          IN  /\ items' = r.items
              /\ taskPool' = [taskPool EXCEPT ![k] = @ \ r.drop]
              /\ taskQueue' = [taskQueue EXCEPT ![k] = Popped(@, r.drop \cup r.send)]
              /\ pendPool' = [pendPool EXCEPT ![k][p] = r.send]
      BY <2>1, <2>5, ZenonT(60) DEF FetchReserve
    <3>2. QueueTypes' /\ QueueInv' /\ StoreInv'
      BY <1>1, <2>2, <2>5, <3>1, ReserveKeeps, ZenonT(60)
    <3>3. FetchInv'
      <4> DEFINE at == IF res.send = {} THEN "assign" ELSE "send"
      <4> DEFINE peer == IF res.send = {} THEN Master ELSE p
      <4> DEFINE progressed == after.progressed \/ res.drop # {}
      <4> DEFINE next == [after EXCEPT !.at = at, !.peer = peer, !.headers = res.send,
                                       !.progressed = progressed, !.throttled = res.throttle]
      <4>1. fetcher' = [fetcher EXCEPT ![k] = next]
        BY <2>1, <2>5, ZenonT(60) DEF FetchReserve
      <4>2. res.send \in SUBSET Headers
        BY <1>1, ReservationFacts
      <4>3. res.throttle \in BOOLEAN
        BY ZenonT(60) DEF Reservation
      <4>4. at \in Steps /\ peer \in Peers /\ progressed \in BOOLEAN
        BY <1>3, DownloadAssumption
      <4> HIDE DEF res, after, at, peer, progressed
      <4>5. next \in Locals
        BY <2>3, <4>2, <4>3, <4>4, ZenonT(60) DEF Locals
      <4> HIDE DEF next
      <4> QED BY <1>2, <1>5, <2>2, <4>1, <4>5
    <3> QED BY <1>1, <2>2, <3>2, <3>3, PeerFrame DEF IInv
  <2> QED BY <2>4, <2>5
<1>9. CASE FetchSend(k)
  <2> DEFINE p == fetcher[k].peer
  <2> DEFINE req == NewRequest(k)
  <2> DEFINE next == [fetcher[k] EXCEPT !.at = "assign", !.peer = Master, !.headers = {}]
  <2>1. /\ fetcher' = [fetcher EXCEPT ![k] = next]
        /\ UNCHANGED <<scheduled, taskPool, storeVars, wakeCh, peers, leaving, lacking>>
    BY <1>9, ZenonT(60) DEF FetchSend, peerVars
  <2>2. p \in Peers /\ req \in Requests
    BY <1>1, <1>4, NewRequestFacts DEF Locals
  <2>3. next \in Locals
    BY <1>3, <1>4, DownloadAssumption, ZenonT(60) DEF Locals
  <2> HIDE DEF next
  <2>4. fetcher' \in [Kinds -> Locals]
    BY <1>2, <2>1, <2>3
  <2> HIDE DEF p, req
  <2>5. StoreInv' /\ PeerTypes' /\ UNCHANGED <<items, resultOffset>>
    BY <1>1, <2>1, StoreFrame, PeerFrame DEF storeVars
  <2>6. CASE /\ pending' = [pending EXCEPT ![k] = Without(@, p) \cup {req}]
             /\ timeouts' = [timeouts EXCEPT ![k] = @ \cup {req}]
             /\ wire' = [wire EXCEPT ![k] = @ \cup {req}]
             /\ UNCHANGED <<taskQueue, pendPool, stales>>
    <3>1. FinitelyMany(Without(pending[k], p) \cup {req})
      <4>1. Without(pending[k], p) \in SUBSET pending[k]
        BY DEF Without
      <4> QED BY <1>2, <2>2, <4>1, Fewer, OneMore
    <3>2. FinitelyMany(timeouts[k] \cup {req}) /\ FinitelyMany(wire[k] \cup {req})
      BY <1>2, <2>2, OneMore
    <3>3. ByKind(pending') /\ ByKind(timeouts') /\ ByKind(wire')
      BY <1>2, <2>6, <3>1, <3>2, Replaced, ZenonT(60)
    <3>4. FetchInv'
      BY <1>2, <2>4, <2>6, <3>3, ZenonT(60) DEF FetchInv
    <3>5. UNCHANGED queueVars
      BY <2>1, <2>6 DEF queueVars
    <3> QED BY <1>1, <2>5, <3>4, <3>5, QueueFrame DEF IInv
  <2>7. CASE expire(k, p) /\ UNCHANGED requestVars
    <3>1. QueueTypes' /\ QueueInv'
      BY <1>1, <2>1, <2>2, <2>5, <2>7, ExpireKeeps
    <3>2. FetchInv'
      BY <1>5, <2>4, <2>7
    <3> QED BY <2>5, <3>1, <3>2 DEF IInv
  <2> QED BY <1>9, <2>6, <2>7, ZenonT(60) DEF FetchSend, p, req
<1>10. CASE FetchAssigned(k)
  <2>1. UNCHANGED <<queueVars, storeVars, wakeCh, peers, leaving, lacking>>
    BY <1>10, ZenonT(60) DEF FetchAssigned
  <2>2. Ends(k, "err") \/ (Goes(k, "select") /\ UNCHANGED requestVars)
    BY <1>10, ZenonT(60) DEF FetchAssigned
  <2>3. FetchInv'
    BY <1>1, <1>3, <1>6, <2>2, EndsKeeps
  <2> QED BY <1>1, <2>1, <2>3, QueueFrame, StoreFrame, PeerFrame DEF IInv, storeVars
<1>11. CASE FetchCanceled(k)
  <2>1. UNCHANGED <<queueVars, storeVars, wakeCh, peers, leaving, lacking>>
    BY <1>11, ZenonT(60) DEF FetchCanceled
  <2>2. FetchInv'
    BY <1>1, <1>3, <1>11, EndsKeeps DEF FetchCanceled
  <2> QED BY <1>1, <2>1, <2>2, QueueFrame, StoreFrame, PeerFrame DEF IInv, storeVars
<1>12. CASE FetchPeering(k)
  <2> DEFINE event == Head(peering[k])
  <2> DEFINE out == {r \in pending[k] : r.peer = event.peer}
  <2> DEFINE closing == out \cup {r \in stales[k] : r.peer = event.peer}
  <2>1. /\ Goes(k, "top")
        /\ UNCHANGED <<scheduled, taskPool, storeVars, wakeCh, peers, leaving, lacking>>
    BY <1>12, ZenonT(60) DEF FetchPeering
  <2>2. StoreInv' /\ PeerTypes' /\ UNCHANGED <<items, resultOffset>>
    BY <1>1, <2>1, StoreFrame, PeerFrame DEF storeVars
  <2>3. fetcher' \in [Kinds -> Locals]
    BY <1>2, <1>3, <2>1, GoesKeeps
  <2>4. CASE UNCHANGED <<requestVars, taskQueue, pendPool>>
    <3>1. FetchInv'
      BY <1>5, <2>3, <2>4
    <3>2. UNCHANGED queueVars
      BY <2>1, <2>4 DEF queueVars
    <3> QED BY <1>1, <2>2, <3>1, <3>2, QueueFrame DEF IInv
  <2>5. CASE /\ IF out = {} THEN UNCHANGED <<taskQueue, pendPool>> ELSE expire(k, event.peer)
             /\ pending' = [pending EXCEPT ![k] = @ \ out]
             /\ stales' = [stales EXCEPT ![k] = @ \ closing]
             /\ timeouts' = [timeouts EXCEPT ![k] = @ \ out]
             /\ \E late \in SUBSET closing : wire' = [wire EXCEPT ![k] = @ \ (closing \ late)]
    <3>1. QueueTypes' /\ QueueInv'
      <4>1. CASE out = {}
        <5>1. UNCHANGED queueVars
          BY <2>1, <2>5, <4>1, ZenonT(60) DEF queueVars
        <5> QED BY <1>1, <2>2, <5>1, QueueFrame
      <4>2. CASE out # {}
        <5>1. event.peer \in Peers
          BY <1>2, <4>2 DEF FinitelyMany, Requests
        <5>2. expire(k, event.peer)
          BY <2>5, <4>2, ZenonT(60)
        <5> QED BY <1>1, <2>1, <2>2, <5>1, <5>2, ExpireKeeps
      <4> QED BY <4>1, <4>2
    <3> HIDE DEF out, closing
    <3>2. FinitelyMany(pending[k] \ out) /\ FinitelyMany(stales[k] \ closing) /\ FinitelyMany(timeouts[k] \ out)
      BY <1>2, Fewer
    <3>3. ByKind(pending') /\ ByKind(stales') /\ ByKind(timeouts')
      BY <1>2, <2>5, <3>2, Replaced, ZenonT(60)
    <3>4. PICK late \in SUBSET closing : wire' = [wire EXCEPT ![k] = @ \ (closing \ late)]
      BY <2>5, ZenonT(60)
    <3>5. FinitelyMany(wire[k] \ (closing \ late))
      BY <1>2, Fewer
    <3>6. ByKind(wire')
      BY <1>2, <3>4, <3>5, Replaced, ZenonT(60)
    <3> QED BY <2>2, <2>3, <3>1, <3>3, <3>6 DEF IInv, FetchInv
  <2> QED BY <1>12, <2>4, <2>5, ZenonT(60) DEF FetchPeering
<1>13. CASE \E req \in timeouts[k] : FetchTimeout(k, req)
  <2>1. PICK req \in timeouts[k] : FetchTimeout(k, req)
    BY <1>13
  <2>2. req \in Requests /\ req.peer \in Peers
    BY <1>2 DEF FinitelyMany, Requests
  <2>3. /\ expire(k, req.peer)
        /\ UNCHANGED <<scheduled, taskPool, storeVars, wakeCh, peers, leaving, lacking>>
    BY <2>1, ZenonT(60) DEF FetchTimeout
  <2>4. StoreInv' /\ PeerTypes' /\ UNCHANGED <<items, resultOffset>>
    BY <1>1, <2>3, StoreFrame, PeerFrame DEF storeVars
  <2>5. QueueTypes' /\ QueueInv'
    BY <1>1, <2>2, <2>3, <2>4, ExpireKeeps
  <2>6. ASSUME /\ pending' = [pending EXCEPT ![k] = Without(@, req.peer)]
               /\ stales' = [stales EXCEPT ![k] = Without(@, req.peer) \cup {req}]
               /\ timeouts' = [timeouts EXCEPT ![k] = @ \ {req}]
               /\ Goes(k, "top")
               /\ UNCHANGED wire
        PROVE  FetchInv'
    <3>1. Without(pending[k], req.peer) \in SUBSET pending[k] /\ Without(stales[k], req.peer) \in SUBSET stales[k]
      BY DEF Without
    <3>2. FinitelyMany(Without(pending[k], req.peer)) /\ FinitelyMany(Without(stales[k], req.peer))
      BY <1>2, <3>1, Fewer
    <3>3. FinitelyMany(Without(stales[k], req.peer) \cup {req})
      BY <2>2, <3>2, OneMore
    <3>4. FinitelyMany(timeouts[k] \ {req})
      BY <1>2, Fewer
    <3>5. ByKind(pending') /\ ByKind(stales') /\ ByKind(timeouts')
      BY <1>2, <2>6, <3>2, <3>3, <3>4, Replaced, ZenonT(60)
    <3>6. fetcher' \in [Kinds -> Locals]
      BY <1>2, <1>3, <2>6, GoesKeeps
    <3> QED BY <1>2, <2>6, <3>5, <3>6, ZenonT(60) DEF FetchInv
  <2>7. ASSUME Ends(k, "err") PROVE FetchInv'
    BY <1>1, <1>3, <2>7, EndsKeeps
  <2>8. FetchInv'
    BY <2>1, <2>6, <2>7, ZenonT(60) DEF FetchTimeout
  <2> QED BY <2>4, <2>5, <2>8 DEF IInv
<1>14. CASE \E req \in wire[k] : \E S \in SUBSET req.headers : FetchResponse(k, req, S)
  <2>1. PICK req \in wire[k] : \E S \in SUBSET req.headers : FetchResponse(k, req, S)
    BY <1>14
  <2>2. PICK S \in SUBSET req.headers : FetchResponse(k, req, S)
    BY <2>1
  <2> DEFINE p == req.peer
  <2>3. p \in Peers
    BY <1>2 DEF FinitelyMany, Requests
  <2>4. /\ pending' = [pending EXCEPT ![k] = Without(@, p)]
        /\ stales' = [stales EXCEPT ![k] = Without(@, p)]
        /\ timeouts' = [timeouts EXCEPT ![k] = @ \ {req}]
        /\ wire' = [wire EXCEPT ![k] = @ \ {req}]
        /\ Goes(k, "top")
        /\ UNCHANGED <<scheduled, resultOffset, indexIncomplete, throttleThreshold, wakeCh, peers, leaving>>
    BY <2>2, ZenonT(60) DEF FetchResponse
  <2>5. deliver(k, p, S) \/ UNCHANGED <<taskPool, taskQueue, pendPool, items, lacking>>
    BY <2>2, ZenonT(60) DEF FetchResponse
  <2> HIDE DEF p
  <2>6. FetchInv'
    <3>1. Without(pending[k], p) \in SUBSET pending[k] /\ Without(stales[k], p) \in SUBSET stales[k]
      BY DEF Without
    <3>2. FinitelyMany(Without(pending[k], p)) /\ FinitelyMany(Without(stales[k], p))
      BY <1>2, <3>1, Fewer
    <3>3. FinitelyMany(timeouts[k] \ {req}) /\ FinitelyMany(wire[k] \ {req})
      BY <1>2, Fewer
    <3>4. ByKind(pending') /\ ByKind(stales') /\ ByKind(timeouts') /\ ByKind(wire')
      BY <1>2, <2>4, <3>2, <3>3, Replaced, ZenonT(60)
    <3>5. fetcher' \in [Kinds -> Locals]
      BY <1>2, <1>3, <2>4, GoesKeeps
    <3> QED BY <3>4, <3>5 DEF FetchInv
  <2>7. CASE UNCHANGED <<taskPool, taskQueue, pendPool, items, lacking>>
    <3>1. UNCHANGED <<queueVars, storeVars>>
      BY <2>4, <2>7 DEF queueVars, storeVars
    <3> QED BY <1>1, <2>4, <2>6, <2>7, <3>1, QueueFrame, StoreFrame, PeerFrame DEF IInv, storeVars
  <2>8. CASE deliver(k, p, S)
    <3>1. QueueTypes' /\ QueueInv' /\ StoreInv'
      BY <1>1, <2>3, <2>4, <2>8, DeliverKeeps
    <3>2. lacking' \in [Peers -> SUBSET Headers]
      <4>1. /\ lacking' = [lacking EXCEPT ![p] = IF S = {} THEN @ \cup pendPool[k][p] ELSE @]
            /\ lacking \in [Peers -> SUBSET Headers] /\ pendPool[k][p] \in SUBSET Headers
        BY <1>1, <2>3, <2>8, SMTT(60) DEF deliver, PeerTypes, QueueTypes
      <4> QED BY <4>1, ZenonT(60)
    <3>3. PeerTypes'
      BY <1>1, <2>4, <3>2, ZenonT(60) DEF PeerTypes
    <3> QED BY <2>6, <3>1, <3>3 DEF IInv
  <2> QED BY <2>5, <2>7, <2>8
<1>15. CASE FetchWoken(k)
  <2>1. /\ Goes(k, "top") /\ wakeCh' = [wakeCh EXCEPT ![k] = <<>>]
        /\ UNCHANGED <<queueVars, storeVars, peers, leaving, lacking, requestVars>>
    BY <1>15, ZenonT(60) DEF FetchWoken, peerVars
  <2>2. PeerTypes'
    BY <1>1, <2>1, ZenonT(60) DEF PeerTypes
  <2>3. FetchInv'
    BY <1>3, <1>6, <2>1
  <2> QED BY <1>1, <2>1, <2>2, <2>3, QueueFrame, StoreFrame DEF IInv, storeVars
<1> QED BY <1>7, <1>8, <1>9, <1>10, <1>11, <1>12, <1>13, <1>14, <1>15 DEF FetchStep

\* The steps of the peer set.
LEMMA PeerStepKeeps ==
  ASSUME IInv, NEW p \in Peers, Register(p) \/ Unregister(p) \/ Revoke(p)
  PROVE  IInv'
<1>1. QueueTypes /\ StoreInv /\ PeerTypes /\ FetchInv /\ QueueInv
  BY DEF IInv
<1>2. CASE Register(p)
  <2>1. UNCHANGED <<queueVars, storeVars, fetcher, requestVars>>
    BY <1>2, ZenonT(60) DEF Register
  <2>2. PeerTypes'
    BY <1>1, <1>2, ZenonT(60) DEF Register, PeerTypes
  <2> QED BY <1>1, <2>1, <2>2, QueueFrame, StoreFrame, FetchFrame DEF IInv, storeVars
<1>3. CASE Unregister(p)
  <2>1. UNCHANGED <<queueVars, storeVars, fetcher, requestVars>>
    BY <1>3, ZenonT(60) DEF Unregister
  <2>2. PeerTypes'
    BY <1>1, <1>3, ZenonT(60) DEF Unregister, PeerTypes
  <2> QED BY <1>1, <2>1, <2>2, QueueFrame, StoreFrame, FetchFrame DEF IInv, storeVars
<1>4. CASE Revoke(p)
  <2>1. UNCHANGED <<storeVars, fetcher, requestVars>>
    BY <1>4, ZenonT(60) DEF Revoke
  <2>2. PeerTypes'
    BY <1>1, <1>4, ZenonT(60) DEF Revoke, PeerTypes
  <2>3. QueueTypes' /\ QueueInv'
    BY <1>1, <1>4, RevokeKeeps
  <2> QED BY <1>1, <2>1, <2>2, <2>3, StoreFrame, FetchFrame DEF IInv
<1> QED BY <1>2, <1>3, <1>4

\* The steps of processHeaders.
LEMMA FeedStepKeeps ==
  ASSUME IInv, \/ \E k \in Kinds : FeedFinish(k)
               \/ \E n \in Headers : FeedSchedule(n)
               \/ FeedWake \/ FeedCanceled
  PROVE  IInv'
<1>1. QueueTypes /\ StoreInv /\ PeerTypes /\ FetchInv /\ QueueInv
  BY DEF IInv
<1>2. ASSUME NEW k \in Kinds, FeedFinish(k) PROVE IInv'
  <2>1. /\ UNCHANGED <<queueVars, storeVars, peers, leaving, lacking, fetcher, requestVars>>
        /\ wakeCh' = [wakeCh EXCEPT ![k] = <<FALSE>>]
    BY <1>2, ZenonT(60) DEF FeedFinish, feederRest, peerVars
  <2>2. PeerTypes'
    BY <1>1, <2>1, ZenonT(60) DEF PeerTypes
  <2> QED BY <1>1, <2>1, <2>2, QueueFrame, StoreFrame, FetchFrame DEF IInv, storeVars
<1>3. ASSUME NEW n \in Headers, FeedSchedule(n) PROVE IInv'
  <2>1. /\ UNCHANGED <<storeVars, peers, leaving, lacking, wakeCh, fetcher, requestVars>>
        /\ Schedule(n) /\ n \in scheduled + 1 .. LastHeader /\ UNCHANGED pendPool
    BY <1>3, ZenonT(60) DEF FeedSchedule, feederRest, peerVars
  <2>2. n > scheduled
    <3>1. scheduled \in Nat /\ n \in Nat
      BY <1>1, Sizes, SMTT(60) DEF QueueTypes
    <3> QED BY <2>1, <3>1, Sizes
  <2>3. QueueTypes' /\ QueueInv'
    BY <1>1, <2>1, <2>2, ScheduleKeeps DEF storeVars
  <2> QED BY <1>1, <2>1, <2>3, StoreFrame, PeerFrame, FetchFrame DEF IInv
<1>4. CASE FeedWake
  <2>1. /\ UNCHANGED <<queueVars, storeVars, peers, leaving, lacking, fetcher, requestVars>>
        /\ wakeCh' = Woken
    BY <1>4, ZenonT(60) DEF FeedWake, feederRest, peerVars
  <2>2. PeerTypes'
    BY <1>1, <2>1, ZenonT(60) DEF PeerTypes, Woken
  <2> QED BY <1>1, <2>1, <2>2, QueueFrame, StoreFrame, FetchFrame DEF IInv, storeVars
<1>5. CASE FeedCanceled
  <2>1. UNCHANGED <<queueVars, storeVars, peers, leaving, lacking, wakeCh, fetcher, requestVars>>
    BY <1>5, ZenonT(60) DEF FeedCanceled, feederRest, peerVars
  <2> QED BY <1>1, <2>1, QueueFrame, StoreFrame, PeerFrame, FetchFrame DEF IInv, storeVars
<1> QED BY <1>2, <1>3, <1>4, <1>5

\* The steps of processFullSyncContent and spawnSync.
LEMMA ImportStepKeeps ==
  ASSUME IInv, \/ ResultsLook \/ ResultsLock \/ ResultsWoken \/ ResultsTake \/ ResultsCalibrate
               \/ Import \/ Close \/ Cancel
  PROVE  IInv'
<1>1. QueueTypes /\ StoreInv /\ PeerTypes /\ FetchInv /\ QueueInv
  BY DEF IInv
<1>2. CASE ResultsLook \/ ResultsLock \/ ResultsWoken \/ Import \/ Close \/ Cancel
  <2>1. UNCHANGED <<queueVars, storeVars, peers, leaving, lacking, wakeCh, fetcher, requestVars>>
    BY <1>2, ZenonT(60) DEF ResultsLook, ResultsLock, ResultsWoken, Import, Close, Cancel, importerRest, peerVars
  <2> QED BY <1>1, <2>1, QueueFrame, StoreFrame, PeerFrame, FetchFrame DEF IInv, storeVars
<1>3. CASE ResultsTake
  <2> DEFINE n == Min({MaxTake, Completed})
  <2>1. /\ GetCompleted(n)
        /\ UNCHANGED <<queueVars, throttleThreshold, peers, leaving, lacking, wakeCh, fetcher, requestVars>>
    BY <1>3, ZenonT(60) DEF ResultsTake, importerRest, peerVars
  <2>2. Completed \in Nat
    <3>1. Completed \in indexIncomplete..CacheSize /\ indexIncomplete \in Nat
      BY <1>1, CompletedFacts, Sizes, SMTT(60) DEF StoreInv
    <3> QED BY <3>1, Sizes
  <2>3. n \in Nat /\ n <= Completed
    BY <2>2, Sizes, MinOfTwo
  <2> HIDE DEF n
  <2>4. QueueInv' /\ StoreInv'
    BY <1>1, <2>1, <2>3, TakeKeeps
  <2>5. QueueTypes'
    BY <1>1, <2>1 DEF QueueTypes, queueVars
  <2> QED BY <1>1, <2>1, <2>4, <2>5, PeerFrame, FetchFrame DEF IInv
<1>4. CASE ResultsCalibrate
  <2>1. /\ UNCHANGED <<queueVars, resultOffset, items, indexIncomplete, peers, leaving, lacking, fetcher, requestVars>>
        /\ wakeCh' = Woken /\ throttleThreshold' \in 1..CacheSize
    BY <1>4, ZenonT(60) DEF ResultsCalibrate, ThrottledWoken, importerRest, peerVars
  <2>2. PeerTypes'
    BY <1>1, <2>1, ZenonT(60) DEF PeerTypes, Woken
  <2>3. StoreInv'
    BY <1>1, <2>1, ZenonT(60) DEF StoreInv, InWindow, CompleteRemembered, AllDone
  <2> QED BY <1>1, <2>1, <2>2, <2>3, QueueFrame, FetchFrame DEF IInv
<1> QED BY <1>2, <1>3, <1>4

\* A queue just reset has no task, no slot and no request.
LEMMA InitInv == Init => IInv
<1> SUFFICES ASSUME Init PROVE IInv
  OBVIOUS
<1>1. QueueTypes
  BY Sizes DEF Init, QueueTypes, NoHeaders
<1>2. StoreInv
  <2>1. items \in [Headers -> {Absent} \cup SUBSET Kinds] /\ InWindow
    BY DEF Init, InWindow
  <2>2. /\ resultOffset \in 1..LastHeader + 1 /\ indexIncomplete \in 0..CacheSize
        /\ throttleThreshold \in 1..CacheSize /\ CompleteRemembered
    BY Sizes DEF Init, CompleteRemembered
  <2> QED BY <2>1, <2>2 DEF StoreInv
<1>3. PeerTypes
  BY DEF Init, PeerTypes, NoHeaders
<1>4. FetchInv
  <2>1. AtStep("top") \in Locals
    BY DownloadAssumption DEF AtStep, Locals, Steps
  <2>2. fetcher \in [Kinds -> Locals]
    BY <2>1 DEF Init
  <2>3. ByKind([k \in Kinds |-> {}])
    BY NoRequests DEF ByKind
  <2> QED BY <2>2, <2>3 DEF Init, FetchInv
<1>5. ASSUME NEW k \in Kinds
      PROVE  Exactly(taskQueue[k], pendPool[k], taskPool[k]) /\ Slotted(k) /\ Remembered(k)
  <2>1. /\ \A h \in Headers : taskQueue[k][h] = 0
        /\ \A p \in Peers : pendPool[k][p] = {}
        /\ taskPool[k] = {} /\ scheduled = 0
    BY DEF Init, NoHeaders
  <2>2. Exactly(taskQueue[k], pendPool[k], taskPool[k])
    BY <2>1, SMTT(60) DEF Exactly
  <2> QED BY <2>1, <2>2, Sizes, SMTT(60) DEF Slotted, Remembered
<1> QED BY <1>1, <1>2, <1>3, <1>4, <1>5 DEF IInv, QueueInv

\* Every step of a goroutine or of the peer set keeps the invariant.
LEMMA NextInv == IInv /\ [Next]_vars => IInv'
<1> SUFFICES ASSUME IInv, [Next]_vars PROVE IInv'
  OBVIOUS
<1>1. CASE Next
  BY <1>1, FetchStepKeeps, PeerStepKeeps, FeedStepKeeps, ImportStepKeeps, ZenonT(60) DEF Next
<1>2. CASE UNCHANGED vars
  <2>1. UNCHANGED <<queueVars, storeVars, peers, leaving, lacking, wakeCh, fetcher, requestVars>>
    BY <1>2, ZenonT(60) DEF vars, peerVars
  <2> QED BY <2>1, QueueFrame, StoreFrame, PeerFrame, FetchFrame DEF IInv, storeVars
<1> QED BY <1>1, <1>2

\* The invariant holds throughout a sync.
LEMMA Invariance == Spec => []IInv
  BY InitInv, NextInv, PTL DEF Spec

----------------------------------------------------------------------------
(* Types, and slots only inside the store: the queue, the store, the peer set *)
(* and the requests, for any number of headers, peers and kinds.              *)
THEOREM TypeCorrect == Spec => []TypeOK
<1>1. IInv => TypeOK
  <2> SUFFICES ASSUME IInv PROVE TypeOK
    OBVIOUS
  <2>1. \A h \in Headers : items[h] # Absent =>
          items[h] \subseteq Kinds /\ h \in resultOffset .. resultOffset + CacheSize - 1
    BY DEF IInv, StoreInv, InWindow
  <2>2. \A k \in Kinds : pending[k] \cup stales[k] \cup timeouts[k] \cup wire[k] \subseteq Requests
    BY DEF IInv, FetchInv, ByKind, FinitelyMany
  <2> QED BY <2>1, <2>2, ZenonT(60) DEF IInv, QueueTypes, StoreInv, PeerTypes, TypeOK
<1> QED BY <1>1, Invariance, PTL

(* reserveHeaders, deliver, expire and Revoke lose, double and misdeliver no  *)
(* task, whatever peers join, leave, answer late or in part: each missing     *)
(* part is queued once or reserved for one peer, with a slot for its answer.  *)
THEOREM TasksAreExact == Spec => []TasksExact
<1>1. IInv => TasksExact
  <2> SUFFICES ASSUME IInv, NEW k \in Kinds, NEW h \in Headers
               PROVE  LET places == taskQueue[k][h] + Cardinality(Holders(k, h))
                      IN /\ places \in {0, 1} /\ (places = 1 <=> h \in taskPool[k])
                         /\ h <= scheduled /\ IsTask(k, h) /\ ~Settled(k, h) => places = 1
                         /\ Holders(k, h) # {} => items[h] # Absent /\ k \in items[h]
    BY ZenonT(60) DEF TasksExact
  <2>1. /\ taskQueue[k][h] \in {0, 1}
        /\ \A p, o \in Peers : h \in pendPool[k][p] /\ h \in pendPool[k][o] => p = o
        /\ taskQueue[k][h] = 1 => \A p \in Peers : h \notin pendPool[k][p]
        /\ h \in taskPool[k] <=> (taskQueue[k][h] = 1 \/ \E p \in Peers : h \in pendPool[k][p])
    BY ZenonT(60) DEF IInv, QueueInv, Exactly
  <2>2. h <= scheduled /\ IsTask(k, h) /\ ~Settled(k, h) => h \in taskPool[k]
    BY ZenonT(60) DEF IInv, QueueInv, Remembered
  <2>3. Holders(k, h) # {} => items[h] # Absent /\ k \in items[h]
    BY DEF IInv, QueueInv, Slotted, Holders
  <2>4. CASE Holders(k, h) = {}
    <3>1. Cardinality(Holders(k, h)) = 0
      BY <2>4, FS_EmptySet
    <3>2. h \in taskPool[k] <=> taskQueue[k][h] = 1
      BY <2>1, <2>4 DEF Holders
    <3> QED BY <2>1, <2>2, <2>3, <3>1, <3>2, SMTT(60)
  <2>5. CASE Holders(k, h) # {}
    <3>1. PICK p \in Peers : h \in pendPool[k][p]
      BY <2>5 DEF Holders
    <3>2. Holders(k, h) = {p}
      BY <2>1, <3>1 DEF Holders
    <3>3. Cardinality(Holders(k, h)) = 1
      BY <3>2, FS_Singleton
    <3>4. taskQueue[k][h] = 0 /\ h \in taskPool[k]
      BY <2>1, <3>1
    <3> QED BY <2>2, <2>3, <3>3, <3>4
  <2> QED BY <2>4, <2>5
<1> QED BY <1>1, Invariance, PTL

(* Results hands out complete blocks only: what countCompleted remembers as   *)
(* complete stays complete through every take, delivery and reservation.      *)
THEOREM CompletedStaysComplete == Spec => []CompleteRemembered
<1>1. IInv => CompleteRemembered
  BY DEF IInv, StoreInv
<1> QED BY <1>1, Invariance, PTL

----------------------------------------------------------------------------
(* A sync that ends well *)

\* A goroutine ended with an error or because the sync was cancelled.
Broken ==
  \/ feeder \in {"err", "canceled"} \/ importer \in {"err", "canceled"}
  \/ \E k \in Kinds : fetcher[k].at \in {"err", "canceled"}

\* Everything but the importer has ended well.
Fetched == feeder = "ok" /\ \A k \in Kinds : fetcher[k].at = "ok"

\* A slot waits for parts that the header has.
Fitting == \A h \in Headers : items[h] # Absent => items[h] \subseteq Parts[h]

\* The end of the headers is told after the last one is scheduled, and a fetcher
\* returns only after it was told.
Ending ==
  /\ feeder \in {"select", "batch", "finish", "ok", "canceled"}
  /\ notified # {} => scheduled = LastHeader
  /\ feeder = "ok" => notified # {}
  /\ \A k \in Kinds : wakeCh[k] = <<FALSE>> \/ finished[k] => notified # {}
  /\ \A k \in Kinds : fetcher[k].at = "ok" => notified # {}

\* What a peer has reserved is asked for, about to be, or ignored.
Owed(k, p) ==
  \/ pendPool[k][p] \subseteq orphaned[k]
  \/ \E r \in pending[k] : r.peer = p
  \/ fetcher[k].at = "send" /\ fetcher[k].peer = p

\* A fetcher waits for whatever is reserved, and returns when no task is left but
\* those whose answer was ignored.
Answered(k) ==
  /\ Running(k) => \A p \in Peers : Owed(k, p)
  /\ fetcher[k].at = "ok" => taskPool[k] \subseteq orphaned[k]

\* The importer stops only when the queue is closed, which nobody does while
\* another goroutine runs, and finds a complete block if there is one.
Importing ==
  /\ importer \in {"look", "lock", "wait", "woken", "take", "calibrate", "calibrateNone", "import", "ok", "err"}
  /\ importer = "take" /\ ~HasCompletedItems => closed
  /\ closed => Broken \/ Fetched
  /\ importer \in {"calibrateNone", "ok"} => closed /\ (Broken \/ Neglected \/ resultOffset = LastHeader + 1)

EndTypes == finished \in [Kinds -> BOOLEAN] /\ orphaned \in [Kinds -> SUBSET Headers]

EndInv == EndTypes /\ Fitting /\ Ending /\ (\A k \in Kinds : Answered(k)) /\ Importing

\* Waking Results changes nothing else.
LEMMA SignalledFacts ==
  ASSUME NEW at
  PROVE  Signalled(at) = at \/ (at = "wait" /\ Signalled(at) = "woken")
  BY DEF Signalled

\* A step of the fetcher of k keeps what is said of the others, of the feed and
\* of the importer.
LEMMA FetchEnding ==
  ASSUME EndInv, NEW k \in Kinds, Running(k),
         UNCHANGED <<scheduled, resultOffset, feeder, notified, closed>>,
         importer' = importer \/ importer' = Signalled(importer),
         \A j \in Kinds : j # k =>
           /\ fetcher'[j] = fetcher[j] /\ pendPool'[j] = pendPool[j] /\ pending'[j] = pending[j]
           /\ taskPool'[j] = taskPool[j] /\ orphaned'[j] = orphaned[j],
         orphaned[k] \subseteq orphaned'[k],
         \A j \in Kinds : /\ wakeCh'[j] = <<FALSE>> => wakeCh[j] = <<FALSE>>
                          /\ finished'[j] => finished[j] \/ wakeCh[j] = <<FALSE>>,
         EndTypes', Fitting', HasCompletedItems => HasCompletedItems',
         Answered(k)', fetcher'[k].at = "ok" => notified # {}
  PROVE  EndInv'
<1>1. fetcher[k].at \notin {"ok", "err", "canceled"}
  BY DEF Running
<1>2. Ending'
  BY DEF EndInv, Ending
<1>3. ASSUME NEW j \in Kinds PROVE Answered(j)'
  <2>1. CASE j = k
    BY <2>1
  <2>2. CASE j # k
    <3>1. Answered(j)
      BY DEF EndInv
    <3>2. /\ fetcher'[j] = fetcher[j] /\ pendPool'[j] = pendPool[j] /\ pending'[j] = pending[j]
          /\ taskPool'[j] = taskPool[j] /\ orphaned'[j] = orphaned[j]
      BY <2>2
    <3> QED BY <3>1, <3>2 DEF Answered, Running, Owed
  <2> QED BY <2>1, <2>2
<1>4. importer' = importer \/ (importer = "wait" /\ importer' = "woken")
  BY SignalledFacts
<1>5. Broken => Broken'
  BY <1>1, <1>4 DEF Broken
<1>6. ~Fetched
  BY <1>1 DEF Fetched
<1>7. Importing'
  BY <1>4, <1>5, <1>6 DEF EndInv, Importing
<1> QED BY <1>2, <1>3, <1>7 DEF EndInv

\* One entry of a table is replaced.
LEMMA OneReplaced ==
  ASSUME NEW m, m = [j \in Kinds |-> m[j]], NEW k \in Kinds, NEW x
  PROVE  /\ [m EXCEPT ![k] = x][k] = x
         /\ \A j \in Kinds : j # k => [m EXCEPT ![k] = x][j] = m[j]
<1>1. DOMAIN m = Kinds
  BY ZenonT(60)
<1>2. [m EXCEPT ![k] = x] = [j \in Kinds |-> IF j = k THEN x ELSE m[j]]
  BY <1>1, ZenonT(60)
<1> QED BY <1>2

\* The tables of the fetchers have an entry for each kind.
LEMMA Tables ==
  ASSUME IInv, EndInv
  PROVE  /\ fetcher = [j \in Kinds |-> fetcher[j]] /\ pendPool = [j \in Kinds |-> pendPool[j]]
         /\ pending = [j \in Kinds |-> pending[j]] /\ taskPool = [j \in Kinds |-> taskPool[j]]
         /\ orphaned = [j \in Kinds |-> orphaned[j]] /\ finished = [j \in Kinds |-> finished[j]]
         /\ wakeCh = [j \in Kinds |-> wakeCh[j]]
<1>1. /\ fetcher \in [Kinds -> Locals] /\ pendPool \in [Kinds -> [Peers -> SUBSET Headers]]
      /\ taskPool \in [Kinds -> SUBSET Headers] /\ orphaned \in [Kinds -> SUBSET Headers]
      /\ finished \in [Kinds -> BOOLEAN] /\ wakeCh \in [Kinds -> {<<>>, <<TRUE>>, <<FALSE>>}]
  BY DEF IInv, FetchInv, QueueTypes, PeerTypes, EndInv, EndTypes
<1>2. pending = [j \in Kinds |-> pending[j]]
  BY DEF IInv, FetchInv, ByKind
<1> QED BY <1>1, <1>2

\* A fetcher that ends, ends badly or with nothing left to fetch.
LEMMA EndsBadly ==
  ASSUME IInv, EndInv, NEW k \in Kinds, NEW how \in {"err", "canceled"}, Ends(k, how)
  PROVE  /\ fetcher'[k].at = how /\ Answered(k)'
         /\ \A j \in Kinds : j # k => fetcher'[j] = fetcher[j] /\ pending'[j] = pending[j]
<1>1. fetcher'[k] = AtStep(how) /\ \A j \in Kinds : j # k => fetcher'[j] = fetcher[j]
  BY Tables, OneReplaced DEF Ends, Goes
<1>2. \A j \in Kinds : j # k => pending'[j] = pending[j]
  BY Tables, OneReplaced DEF Ends
<1>3. fetcher'[k].at = how
  BY <1>1 DEF AtStep
<1> QED BY <1>1, <1>2, <1>3 DEF Answered, Running

\* expire and deliver empty the reservation of one peer.
LEMMA OneEmptied ==
  ASSUME QueueTypes, NEW k \in Kinds, NEW p \in Peers,
         \/ pendPool' = [pendPool EXCEPT ![k] = WithoutPool(k, p)]
         \/ pendPool' = [pendPool EXCEPT ![k][p] = {}]
  PROVE  /\ pendPool'[k][p] = {}
         /\ \A q \in Peers : q # p => pendPool'[k][q] = pendPool[k][q]
         /\ \A j \in Kinds : j # k => pendPool'[j] = pendPool[j]
<1>1. pendPool \in [Kinds -> [Peers -> SUBSET Headers]]
  BY DEF QueueTypes
<1>2. pendPool' = [pendPool EXCEPT ![k] = [pendPool[k] EXCEPT ![p] = {}]]
  BY <1>1 DEF WithoutPool
<1>3. pendPool'[k] = [pendPool[k] EXCEPT ![p] = {}] /\ \A j \in Kinds : j # k => pendPool'[j] = pendPool[j]
  BY <1>1, <1>2
<1> QED BY <1>1, <1>3

\* The only element of a channel with one place.
LEMMA HeadOfOne == ASSUME NEW x PROVE Head(<<x>>) = x
  OBVIOUS

\* A wake-up that finds no room says nothing new.
LEMMA WokenFacts == \A k \in Kinds : Woken[k] = <<FALSE>> => wakeCh[k] = <<FALSE>>
<1>1. <<TRUE>> # <<FALSE>>
  <2>1. Head(<<TRUE>>) = TRUE /\ Head(<<FALSE>>) = FALSE
    BY HeadOfOne, ZenonT(60)
  <2> QED BY <2>1, ZenonT(60)
<1> QED BY <1>1, ZenonT(60) DEF Woken

\* A step of the fetcher of k that delivers nothing.
LEMMA QuietEnding ==
  ASSUME EndInv, NEW k \in Kinds, Running(k),
         UNCHANGED <<scheduled, taskPool, storeVars, syncVars, wakeCh, finished, feederVars, importer, orphaned>>
         \/ UNCHANGED <<scheduled, taskPool, storeVars, closed, wakeCh, finished, feederVars, importer, orphaned>>,
         \A j \in Kinds : j # k =>
           fetcher'[j] = fetcher[j] /\ pendPool'[j] = pendPool[j] /\ pending'[j] = pending[j],
         Answered(k)', fetcher'[k].at = "ok" => notified # {}
  PROVE  EndInv'
<1>1. UNCHANGED <<scheduled, taskPool, items, resultOffset, closed, wakeCh, finished, feeder, notified, importer, orphaned>>
  BY DEF storeVars, syncVars, feederVars
<1>2. EndTypes' /\ Fitting'
  BY <1>1 DEF EndInv, EndTypes, Fitting
<1>3. HasCompletedItems => HasCompletedItems'
  BY <1>1 DEF HasCompletedItems, Completes
<1> QED BY <1>1, <1>2, <1>3, FetchEnding

\* The loop of a fetcher, but for reserving and delivering.
LEMMA LoopEnding ==
  ASSUME IInv, EndInv, NEW k \in Kinds,
         \/ FetchTop(k) \/ FetchSend(k) \/ FetchAssigned(k) \/ FetchCanceled(k) \/ FetchPeering(k)
         \/ \E req \in timeouts[k] : FetchTimeout(k, req)
  PROVE  EndInv'
<1>1. QueueTypes /\ FetchInv /\ QueueInv
  BY DEF IInv
<1>2. Answered(k)
  BY DEF EndInv
<1>3. ASSUME NEW step \in {"top", "select"}, Goes(k, step)
      PROVE  /\ fetcher'[k].at = step
             /\ \A j \in Kinds : j # k => fetcher'[j] = fetcher[j]
  <2>1. fetcher'[k] = AtStep(step) /\ \A j \in Kinds : j # k => fetcher'[j] = fetcher[j]
    BY <1>3, Tables, OneReplaced DEF Goes
  <2> QED BY <2>1 DEF AtStep
<1>4. ASSUME Running(k), fetcher[k].at # "send", fetcher'[k].at \in {"top", "assign", "select"},
             UNCHANGED orphaned,
             \A q \in Peers : \/ pendPool'[k][q] = {}
                              \/ /\ pendPool'[k][q] = pendPool[k][q]
                                 /\ \A r \in pending[k] : r.peer = q => r \in pending'[k]
      PROVE  Answered(k)'
  <2>1. ASSUME NEW q \in Peers PROVE Owed(k, q)'
    <3>1. Owed(k, q)
      BY <1>2, <1>4 DEF Answered
    <3> QED BY <1>4, <3>1 DEF Owed
  <2> QED BY <1>4, <2>1 DEF Answered
<1>5. CASE FetchTop(k)
  <2>1. /\ fetcher[k].at = "top"
        /\ UNCHANGED <<queueVars, storeVars, syncVars, wakeCh, finished, feederVars, importer, orphaned>>
    BY <1>5, ZenonT(60) DEF FetchTop
  <2>2. Running(k) /\ UNCHANGED <<scheduled, taskPool, pendPool, taskQueue>>
    BY <2>1 DEF Running, queueVars
  <2>3. CASE Ends(k, "err")
    <3>1. /\ fetcher'[k].at = "err" /\ Answered(k)'
          /\ \A j \in Kinds : j # k => fetcher'[j] = fetcher[j] /\ pending'[j] = pending[j]
      BY <2>3, EndsBadly
    <3> QED BY <2>1, <2>2, <3>1, QuietEnding
  <2>4. CASE Tasks(k) = {} /\ NothingOut(k) /\ Ends(k, "ok")
    <3>1. fetcher'[k] = AtStep("ok") /\ \A j \in Kinds : j # k => fetcher'[j] = fetcher[j]
      BY <2>4, Tables, OneReplaced DEF Ends, Goes
    <3>2. \A j \in Kinds : j # k => pending'[j] = pending[j]
      BY <2>4, Tables, OneReplaced DEF Ends
    <3>3. fetcher'[k].at = "ok"
      BY <3>1 DEF AtStep
    <3>4. notified # {}
      BY <2>4 DEF NothingOut, EndInv, Ending
    <3>5. taskPool[k] \subseteq orphaned[k]
      <4> SUFFICES ASSUME NEW h \in taskPool[k] PROVE h \in orphaned[k]
        OBVIOUS
      <4>1. h \in Headers
        BY <1>1 DEF QueueTypes
      <4>2. taskQueue[k][h] # 1
        BY <2>4, <4>1 DEF Tasks
      <4>3. PICK p \in Peers : h \in pendPool[k][p]
        BY <1>1, <4>1, <4>2 DEF QueueInv, Exactly
      <4>4. Owed(k, p)
        BY <1>2, <2>2 DEF Answered
      <4> QED BY <2>1, <2>4, <4>3, <4>4 DEF Owed, NothingOut
    <3>6. Answered(k)'
      BY <2>1, <2>2, <3>3, <3>5 DEF Answered, Running
    <3> QED BY <2>1, <2>2, <3>1, <3>2, <3>4, <3>6, QuietEnding
  <2>5. CASE Goes(k, "select") /\ UNCHANGED requestVars
    <3>1. fetcher'[k].at = "select" /\ \A j \in Kinds : j # k => fetcher'[j] = fetcher[j]
      BY <1>3, <2>5
    <3>2. UNCHANGED pending
      BY <2>5 DEF requestVars
    <3>3. Answered(k)'
      BY <1>4, <2>1, <2>2, <3>1, <3>2
    <3> QED BY <2>1, <2>2, <3>1, <3>2, <3>3, QuietEnding
  <2>6. CASE /\ LET idles == peers \ Busy(k)
                IN fetcher' = [fetcher EXCEPT ![k] = [AtStep("assign") EXCEPT !.all = idles, !.idles = idles]]
             /\ UNCHANGED requestVars
    <3> DEFINE next == [AtStep("assign") EXCEPT !.all = peers \ Busy(k), !.idles = peers \ Busy(k)]
    <3>1. next.at = "assign"
      BY DEF AtStep
    <3>2. fetcher' = [fetcher EXCEPT ![k] = next]
      BY <2>6, ZenonT(60)
    <3> HIDE DEF next
    <3>3. fetcher'[k].at = "assign" /\ \A j \in Kinds : j # k => fetcher'[j] = fetcher[j]
      BY <3>1, <3>2, Tables, OneReplaced
    <3>4. UNCHANGED pending
      BY <2>6 DEF requestVars
    <3>5. Answered(k)'
      BY <1>4, <2>1, <2>2, <3>3, <3>4
    <3> QED BY <2>1, <2>2, <3>3, <3>4, <3>5, QuietEnding
  <2> QED BY <1>5, <2>3, <2>4, <2>5, <2>6, ZenonT(60) DEF FetchTop
<1>6. CASE FetchSend(k)
  <2> DEFINE p == fetcher[k].peer
  <2> DEFINE next == [fetcher[k] EXCEPT !.at = "assign", !.peer = Master, !.headers = {}]
  <2>1. /\ fetcher[k].at = "send" /\ fetcher' = [fetcher EXCEPT ![k] = next]
        /\ UNCHANGED <<scheduled, taskPool, storeVars, syncVars, wakeCh, finished, feederVars, importer, orphaned>>
    BY <1>6, ZenonT(60) DEF FetchSend
  <2>2. Running(k) /\ p \in Peers /\ next.at = "assign"
    BY <1>1, <2>1 DEF Running, FetchInv, Locals
  <2> HIDE DEF next
  <2>3. fetcher'[k].at = "assign" /\ \A j \in Kinds : j # k => fetcher'[j] = fetcher[j]
    BY <2>1, <2>2, Tables, OneReplaced
  <2>4. \A q \in Peers : q # p => pendPool[k][q] \subseteq orphaned[k] \/ \E r \in pending[k] : r.peer = q
    BY <1>2, <2>2 DEF Answered, Owed
  <2>5. CASE /\ pending' = [pending EXCEPT ![k] = Without(@, p) \cup {NewRequest(k)}]
             /\ UNCHANGED pendPool
    <3>1. /\ pending'[k] = Without(pending[k], p) \cup {NewRequest(k)}
          /\ \A j \in Kinds : j # k => pending'[j] = pending[j]
      BY <2>5, Tables, OneReplaced
    <3>2. NewRequest(k).peer = p
      BY DEF NewRequest
    <3>3. ASSUME NEW q \in Peers PROVE Owed(k, q)'
      <4>1. CASE q = p
        BY <3>1, <3>2, <4>1 DEF Owed
      <4>2. CASE q # p
        <5>1. (\E r \in pending[k] : r.peer = q) => \E r \in pending'[k] : r.peer = q
          BY <3>1, <4>2 DEF Without
        <5> QED BY <2>1, <2>4, <2>5, <4>2, <5>1 DEF Owed
      <4> QED BY <4>1, <4>2
    <3>4. Answered(k)'
      BY <2>3, <3>3 DEF Answered
    <3> QED BY <2>1, <2>2, <2>3, <2>5, <3>1, <3>4, QuietEnding
  <2>6. CASE expire(k, p) /\ UNCHANGED requestVars
    <3>1. /\ pendPool'[k][p] = {} /\ \A q \in Peers : q # p => pendPool'[k][q] = pendPool[k][q]
          /\ \A j \in Kinds : j # k => pendPool'[j] = pendPool[j]
      BY <1>1, <2>2, <2>6, OneEmptied DEF expire
    <3>2. UNCHANGED pending
      BY <2>6 DEF requestVars
    <3>3. Answered(k)'
      BY <2>1, <2>3, <2>4, <3>1, <3>2 DEF Answered, Owed
    <3> QED BY <2>1, <2>2, <2>3, <3>1, <3>2, <3>3, QuietEnding
  <2> QED BY <1>6, <2>5, <2>6, ZenonT(60) DEF FetchSend
<1>7. CASE FetchAssigned(k)
  <2>1. /\ fetcher[k].at = "assign"
        /\ UNCHANGED <<queueVars, storeVars, syncVars, wakeCh, finished, feederVars, importer, orphaned>>
        /\ Ends(k, "err") \/ (Goes(k, "select") /\ UNCHANGED requestVars)
    BY <1>7, ZenonT(60) DEF FetchAssigned
  <2>2. Running(k) /\ UNCHANGED <<scheduled, taskPool, pendPool>>
    BY <2>1 DEF Running, queueVars
  <2>3. CASE Ends(k, "err")
    <3>1. /\ fetcher'[k].at = "err" /\ Answered(k)'
          /\ \A j \in Kinds : j # k => fetcher'[j] = fetcher[j] /\ pending'[j] = pending[j]
      BY <2>3, EndsBadly
    <3> QED BY <2>1, <2>2, <3>1, QuietEnding
  <2>4. CASE Goes(k, "select") /\ UNCHANGED requestVars
    <3>1. fetcher'[k].at = "select" /\ \A j \in Kinds : j # k => fetcher'[j] = fetcher[j]
      BY <1>3, <2>4
    <3>2. UNCHANGED pending
      BY <2>4 DEF requestVars
    <3>3. Answered(k)'
      BY <1>4, <2>1, <2>2, <3>1, <3>2
    <3> QED BY <2>1, <2>2, <3>1, <3>2, <3>3, QuietEnding
  <2> QED BY <2>1, <2>3, <2>4
<1>8. CASE FetchCanceled(k)
  <2>1. /\ fetcher[k].at = "select" /\ Ends(k, "canceled")
        /\ UNCHANGED <<queueVars, storeVars, syncVars, wakeCh, finished, feederVars, importer, orphaned>>
    BY <1>8, ZenonT(60) DEF FetchCanceled
  <2>2. Running(k) /\ UNCHANGED <<scheduled, taskPool, pendPool>>
    BY <2>1 DEF Running, queueVars
  <2>3. /\ fetcher'[k].at = "canceled" /\ Answered(k)'
        /\ \A j \in Kinds : j # k => fetcher'[j] = fetcher[j] /\ pending'[j] = pending[j]
    BY <2>1, EndsBadly
  <2> QED BY <2>1, <2>2, <2>3, QuietEnding
<1>9. CASE FetchPeering(k)
  <2> DEFINE leaver == Head(peering[k]).peer
  <2> DEFINE out == {r \in pending[k] : r.peer = leaver}
  <2>1. /\ fetcher[k].at = "select" /\ Goes(k, "top")
        /\ UNCHANGED <<scheduled, taskPool, storeVars, syncVars, wakeCh, finished, feederVars, importer, orphaned>>
    BY <1>9, ZenonT(60) DEF FetchPeering
  <2>2. fetcher'[k].at = "top" /\ \A j \in Kinds : j # k => fetcher'[j] = fetcher[j]
    BY <1>3, <2>1
  <2>3. Running(k)
    BY <2>1 DEF Running
  <2>4. CASE UNCHANGED <<requestVars, taskQueue, pendPool>>
    <3>1. UNCHANGED <<pending, pendPool>>
      BY <2>4 DEF requestVars
    <3>2. Answered(k)'
      BY <1>4, <2>1, <2>2, <2>3, <3>1
    <3> QED BY <2>1, <2>2, <2>3, <3>1, <3>2, QuietEnding
  <2>5. CASE /\ IF out = {} THEN UNCHANGED <<taskQueue, pendPool>> ELSE expire(k, leaver)
             /\ pending' = [pending EXCEPT ![k] = @ \ out]
    <3>1. pending'[k] = pending[k] \ out /\ \A j \in Kinds : j # k => pending'[j] = pending[j]
      BY <2>5, Tables, OneReplaced
    <3>2. CASE out = {}
      <4>1. UNCHANGED pendPool /\ pending'[k] = pending[k]
        BY <2>5, <3>1, <3>2
      <4>2. Answered(k)'
        BY <1>4, <2>1, <2>2, <2>3, <4>1
      <4> QED BY <2>1, <2>2, <2>3, <3>1, <4>1, <4>2, QuietEnding
    <3>3. CASE out # {}
      <4>1. leaver \in Peers
        BY <1>1, <3>3 DEF FetchInv, ByKind, FinitelyMany, Requests
      <4>2. /\ pendPool'[k][leaver] = {} /\ \A q \in Peers : q # leaver => pendPool'[k][q] = pendPool[k][q]
            /\ \A j \in Kinds : j # k => pendPool'[j] = pendPool[j]
        BY <1>1, <2>5, <3>3, <4>1, OneEmptied DEF expire
      <4>3. \A r \in pending[k] : r.peer # leaver => r \in pending'[k]
        BY <3>1
      <4> HIDE DEF leaver, out
      <4>4. Answered(k)'
        BY <1>4, <2>1, <2>2, <2>3, <4>2, <4>3
      <4> QED BY <2>1, <2>2, <2>3, <3>1, <4>2, <4>4, QuietEnding
    <3> QED BY <3>2, <3>3
  <2> QED BY <1>9, <2>4, <2>5, ZenonT(60) DEF FetchPeering
<1>10. CASE \E req \in timeouts[k] : FetchTimeout(k, req)
  <2>1. PICK req \in timeouts[k] : FetchTimeout(k, req)
    BY <1>10
  <2>2. /\ fetcher[k].at = "select" /\ expire(k, req.peer)
        /\ UNCHANGED <<scheduled, taskPool, storeVars, closed, wakeCh, finished, feederVars, importer, orphaned>>
        /\ \/ Ends(k, "err")
           \/ Goes(k, "top") /\ pending' = [pending EXCEPT ![k] = Without(@, req.peer)]
    BY <2>1, ZenonT(60) DEF FetchTimeout
  <2>3. Running(k) /\ req.peer \in Peers
    BY <1>1, <2>2 DEF Running, FetchInv, ByKind, FinitelyMany, Requests
  <2> DEFINE p == req.peer
  <2>4. /\ pendPool'[k][p] = {} /\ \A q \in Peers : q # p => pendPool'[k][q] = pendPool[k][q]
        /\ \A j \in Kinds : j # k => pendPool'[j] = pendPool[j]
    <3>1. p \in Peers /\ pendPool' = [pendPool EXCEPT ![k] = WithoutPool(k, p)]
      BY <2>2, <2>3 DEF expire
    <3> HIDE DEF p
    <3> QED BY <1>1, <3>1, OneEmptied
  <2>5. CASE Ends(k, "err")
    <3>1. /\ fetcher'[k].at = "err" /\ Answered(k)'
          /\ \A j \in Kinds : j # k => fetcher'[j] = fetcher[j] /\ pending'[j] = pending[j]
      BY <2>5, EndsBadly
    <3> QED BY <2>2, <2>3, <2>4, <3>1, QuietEnding
  <2>6. CASE Goes(k, "top") /\ pending' = [pending EXCEPT ![k] = Without(@, req.peer)]
    <3>1. fetcher'[k].at = "top" /\ \A j \in Kinds : j # k => fetcher'[j] = fetcher[j]
      BY <1>3, <2>6
    <3>2. pending'[k] = Without(pending[k], req.peer) /\ \A j \in Kinds : j # k => pending'[j] = pending[j]
      BY <2>6, Tables, OneReplaced
    <3>3. \A r \in pending[k] : r.peer # req.peer => r \in pending'[k]
      BY <3>2 DEF Without
    <3>4. Answered(k)'
      BY <1>4, <2>2, <2>3, <2>4, <3>1, <3>3
    <3> QED BY <2>2, <2>3, <2>4, <3>1, <3>2, <3>4, QuietEnding
  <2> QED BY <2>2, <2>5, <2>6
<1> QED BY <1>5, <1>6, <1>7, <1>8, <1>9, <1>10

\* reserveHeaders fills a slot with the parts of its header.
LEMMA ReservationFits ==
  ASSUME NEW k \in Kinds, NEW p \in Peers, NEW count \in Headers
  PROVE  \A h \in Headers : Reservation(k, p, count).items[h] \in {items[h], Parts[h]}
<1> DEFINE slot(h) == IF items[h] = Absent THEN NewResult(h) ELSE items[h]
<1>1. \E S : Reservation(k, p, count).items = [h \in Headers |-> IF h \in S THEN slot(h) ELSE items[h]]
  BY ZenonT(60) DEF Reservation
<1>2. \A h \in Headers : slot(h) \in {items[h], Parts[h]}
  BY DEF NewResult
<1> HIDE DEF slot
<1> QED BY <1>1, <1>2

\* Reserving for a peer, delivering its answer and waking up.
LEMMA FetchStepEnding ==
  ASSUME IInv, EndInv, NEW k \in Kinds, FetchStep(k)
  PROVE  EndInv'
<1>1. QueueTypes /\ FetchInv /\ QueueInv /\ StoreInv /\ PeerTypes
  BY DEF IInv
<1>2. Answered(k) /\ Fitting /\ EndTypes
  BY DEF EndInv
<1>3. resultOffset \in Headers => items[resultOffset] \in {Absent} \cup SUBSET Kinds
  BY <1>1 DEF StoreInv
<1>4. CASE \E p \in Peers, count \in Headers : FetchReserve(k, p, count)
  <2>1. PICK p \in Peers, count \in Headers : FetchReserve(k, p, count)
    BY <1>4
  <2> DEFINE res == Reservation(k, p, count)
  <2> DEFINE after == [fetcher[k] EXCEPT !.idles = @ \ {p}]
  <2>2. /\ fetcher[k].at = "assign"
        /\ UNCHANGED <<scheduled, resultOffset, indexIncomplete, throttleThreshold, syncVars, wakeCh,
                       requestVars, finished, feederVars, orphaned>>
    BY <2>1, ZenonT(60) DEF FetchReserve
  <2>3. Running(k) /\ UNCHANGED <<feeder, notified, closed, pending>>
    BY <2>2 DEF Running, feederVars, syncVars, requestVars
  <2>4. after.at = "assign" /\ after \in Locals
    BY <1>1, <2>2 DEF FetchInv, Locals
  <2>5. CASE pendPool[k][p] # {}
    <3>1. /\ fetcher' = [fetcher EXCEPT ![k] = after]
          /\ UNCHANGED <<taskPool, taskQueue, pendPool, items, importer>>
      BY <2>1, <2>5, ZenonT(60) DEF FetchReserve
    <3> HIDE DEF after
    <3>2. fetcher'[k].at = "assign" /\ \A j \in Kinds : j # k => fetcher'[j] = fetcher[j]
      BY <2>4, <3>1, Tables, OneReplaced
    <3>3. Answered(k)'
      BY <1>2, <2>2, <2>3, <3>1, <3>2 DEF Answered, Owed, Running
    <3>4. UNCHANGED <<scheduled, taskPool, storeVars, closed, wakeCh, finished, feederVars, importer, orphaned>>
      BY <2>2, <2>3, <3>1 DEF storeVars
    <3> QED BY <2>3, <3>1, <3>2, <3>3, <3>4, QuietEnding
  <2>6. CASE pendPool[k][p] = {}
    <3> DEFINE next == [after EXCEPT !.at = IF res.send = {} THEN "assign" ELSE "send",
                                     !.peer = IF res.send = {} THEN Master ELSE p,
                                     !.headers = res.send,
                                     !.progressed = @ \/ res.drop # {},
                                     !.throttled = res.throttle]
    <3>1. /\ items' = res.items
          /\ taskPool' = [taskPool EXCEPT ![k] = @ \ res.drop]
          /\ pendPool' = [pendPool EXCEPT ![k][p] = res.send]
          /\ importer' = importer \/ importer' = Signalled(importer)
          /\ fetcher' = [fetcher EXCEPT ![k] = next]
      BY <2>1, <2>6, ZenonT(60) DEF FetchReserve
    <3>2. /\ next.at = IF res.send = {} THEN "assign" ELSE "send"
          /\ next.peer = IF res.send = {} THEN Master ELSE p
      <4> HIDE DEF res, after
      <4> QED BY <2>4 DEF Locals
    <3> HIDE DEF next, after
    <3>3. fetcher'[k] = next /\ \A j \in Kinds : j # k => fetcher'[j] = fetcher[j]
      BY <3>1, Tables, OneReplaced
    <3>4. \A j \in Kinds : j # k => taskPool'[j] = taskPool[j]
      BY <3>1, Tables, OneReplaced
    <3>5. /\ pendPool'[k][p] = res.send /\ \A q \in Peers : q # p => pendPool'[k][q] = pendPool[k][q]
          /\ \A j \in Kinds : j # k => pendPool'[j] = pendPool[j]
      <4> HIDE DEF res
      <4>1. pendPool \in [Kinds -> [Peers -> SUBSET Headers]]
        BY <1>1 DEF QueueTypes
      <4> QED BY <3>1, <4>1
    <3>6. Fitting' /\ (HasCompletedItems => HasCompletedItems')
      <4>1. \A h \in Headers : res.items[h] \in {items[h], Parts[h]} /\ (items[h] # Absent => res.items[h] = items[h])
        BY <1>1, ReservationFits, ReservationFacts, SMTT(60)
      <4> HIDE DEF res
      <4>2. Fitting'
        BY <1>2, <3>1, <4>1 DEF Fitting, Absent
      <4>3. HasCompletedItems => HasCompletedItems'
        BY <2>2, <3>1, <4>1 DEF HasCompletedItems, Completes, Absent
      <4> QED BY <4>2, <4>3
    <3> HIDE DEF res
    <3>7. ASSUME NEW q \in Peers PROVE Owed(k, q)'
      <4>1. CASE q = p
        BY <3>2, <3>3, <3>5, <4>1 DEF Owed
      <4>2. CASE q # p
        BY <1>2, <2>2, <2>3, <3>5, <4>2 DEF Answered, Owed
      <4> QED BY <4>1, <4>2
    <3>8. Answered(k)' /\ fetcher'[k].at # "ok"
      BY <3>2, <3>3, <3>7 DEF Answered
    <3>9. EndTypes'
      BY <1>2, <2>2 DEF EndTypes
    <3> QED BY <2>2, <2>3, <3>1, <3>3, <3>4, <3>5, <3>6, <3>8, <3>9, FetchEnding
  <2> QED BY <2>5, <2>6
<1>5. CASE \E req \in wire[k] : \E S \in SUBSET req.headers : FetchResponse(k, req, S)
  <2>1. PICK req \in wire[k] : \E S \in SUBSET req.headers : FetchResponse(k, req, S)
    BY <1>5
  <2>2. PICK S \in SUBSET req.headers : FetchResponse(k, req, S)
    BY <2>1
  <2> DEFINE p == req.peer
  <2>3. p \in Peers
    BY <1>1 DEF FetchInv, ByKind, FinitelyMany, Requests
  <2>4. /\ fetcher[k].at = "select" /\ Goes(k, "top")
        /\ pending' = [pending EXCEPT ![k] = Without(@, p)]
        /\ orphaned' = [orphaned EXCEPT ![k] = IF p \in peers THEN @ ELSE @ \cup pendPool[k][p]]
        /\ UNCHANGED <<scheduled, resultOffset, syncVars, wakeCh, finished, feederVars>>
    BY <2>2, ZenonT(60) DEF FetchResponse
  <2>5. \/ p \in peers /\ deliver(k, p, S)
        \/ /\ p \in peers => pendPool[k][p] = {}
           /\ UNCHANGED <<taskPool, taskQueue, pendPool, items, lacking, importer>>
    BY <2>2, ZenonT(60) DEF FetchResponse
  <2> HIDE DEF p
  <2>6. Running(k) /\ UNCHANGED <<feeder, notified, closed>>
    BY <2>4 DEF Running, feederVars, syncVars
  <2>7. fetcher'[k] = AtStep("top") /\ \A j \in Kinds : j # k => fetcher'[j] = fetcher[j]
    BY <2>4, Tables, OneReplaced DEF Goes
  <2>8. fetcher'[k].at = "top"
    BY <2>7 DEF AtStep
  <2>9. pending'[k] = Without(pending[k], p) /\ \A j \in Kinds : j # k => pending'[j] = pending[j]
    BY <2>4, Tables, OneReplaced
  <2>10. /\ orphaned'[k] = IF p \in peers THEN orphaned[k] ELSE orphaned[k] \cup pendPool[k][p]
         /\ \A j \in Kinds : j # k => orphaned'[j] = orphaned[j]
    BY <2>4, Tables, OneReplaced
  <2>11. EndTypes'
    <3>1. pendPool[k][p] \in SUBSET Headers
      BY <1>1, <2>3 DEF QueueTypes
    <3> QED BY <1>2, <2>4, <3>1 DEF EndTypes
  <2>12. ASSUME pendPool'[k][p] \subseteq orphaned'[k],
                \A q \in Peers : q # p => pendPool'[k][q] = pendPool[k][q]
         PROVE  Answered(k)'
    <3>1. ASSUME NEW q \in Peers PROVE Owed(k, q)'
      <4>1. CASE q = p
        BY <2>12, <4>1 DEF Owed
      <4>2. CASE q # p
        <5>1. pendPool[k][q] \subseteq orphaned[k] \/ \E r \in pending[k] : r.peer = q
          BY <1>2, <2>4, <2>6 DEF Answered, Owed
        <5>2. (\E r \in pending[k] : r.peer = q) => \E r \in pending'[k] : r.peer = q
          BY <2>9, <4>2 DEF Without
        <5>3. orphaned[k] \subseteq orphaned'[k]
          BY <2>10
        <5> QED BY <2>12, <4>2, <5>1, <5>2, <5>3 DEF Owed
      <4> QED BY <4>1, <4>2
    <3> QED BY <2>8, <3>1 DEF Answered
  <2>13. CASE p \in peers /\ deliver(k, p, S)
    <3> DEFINE accepted == Accepted(pendPool[k][p], S)
    <3>1. /\ pendPool' = [pendPool EXCEPT ![k][p] = {}]
          /\ items' = [h \in Headers |-> IF h \in accepted THEN items[h] \ {k} ELSE items[h]]
          /\ taskPool' = [taskPool EXCEPT ![k] = @ \ accepted]
          /\ importer' = importer \/ importer' = Signalled(importer)
      BY <2>13, ZenonT(60) DEF deliver
    <3>2. /\ pendPool'[k][p] = {} /\ \A q \in Peers : q # p => pendPool'[k][q] = pendPool[k][q]
          /\ \A j \in Kinds : j # k => pendPool'[j] = pendPool[j]
      <4>1. pendPool' = [pendPool EXCEPT ![k][p] = {}]
        BY <3>1
      <4>2. pendPool \in [Kinds -> [Peers -> SUBSET Headers]]
        BY <1>1 DEF QueueTypes
      <4> QED BY <2>3, <4>1, <4>2
    <3>3. accepted \subseteq pendPool[k][p]
      BY DEF Accepted
    <3> HIDE DEF accepted
    <3>4. \A j \in Kinds : j # k => taskPool'[j] = taskPool[j]
      BY <3>1, Tables, OneReplaced
    <3>5. Fitting'
      <4>1. ASSUME NEW h \in Headers, items'[h] # Absent PROVE items'[h] \subseteq Parts[h]
        <5>1. CASE h \in accepted
          <6>1. items[h] # Absent
            BY <1>1, <2>3, <3>3, <5>1 DEF QueueInv, Slotted
          <6> QED BY <1>2, <3>1, <5>1, <6>1 DEF Fitting
        <5>2. CASE h \notin accepted
          BY <1>2, <3>1, <4>1, <5>2 DEF Fitting
        <5> QED BY <5>1, <5>2
      <4> QED BY <4>1 DEF Fitting
    <3>6. HasCompletedItems => HasCompletedItems'
      BY <2>4, <3>1 DEF HasCompletedItems, Completes
    <3>7. Answered(k)'
      BY <2>12, <3>2
    <3>8. orphaned[k] \subseteq orphaned'[k]
      BY <2>10
    <3> QED BY <2>4, <2>6, <2>7, <2>8, <2>9, <2>10, <2>11, <3>1, <3>2, <3>4, <3>5, <3>6, <3>7, <3>8, FetchEnding
  <2>14. CASE /\ p \in peers => pendPool[k][p] = {}
              /\ UNCHANGED <<taskPool, taskQueue, pendPool, items, lacking, importer>>
    <3>1. pendPool'[k][p] \subseteq orphaned'[k] /\ orphaned[k] \subseteq orphaned'[k]
      BY <2>10, <2>14
    <3>2. Answered(k)'
      BY <2>12, <2>14, <3>1
    <3>3. Fitting' /\ (HasCompletedItems => HasCompletedItems')
      BY <1>2, <2>4, <2>14 DEF Fitting, HasCompletedItems, Completes
    <3> QED BY <2>4, <2>6, <2>7, <2>8, <2>9, <2>10, <2>11, <2>14, <3>1, <3>2, <3>3, FetchEnding
  <2> QED BY <2>5, <2>13, <2>14
<1>6. CASE FetchWoken(k)
  <2>1. /\ fetcher[k].at = "select" /\ wakeCh[k] # <<>> /\ Goes(k, "top")
        /\ wakeCh' = [wakeCh EXCEPT ![k] = <<>>]
        /\ finished' = [finished EXCEPT ![k] = @ \/ ~Head(wakeCh[k])]
        /\ UNCHANGED <<queueVars, storeVars, syncVars, requestVars, feederVars, importer, orphaned>>
    BY <1>6, ZenonT(60) DEF FetchWoken
  <2>2. Running(k) /\ UNCHANGED <<scheduled, taskPool, pendPool, items, resultOffset, closed, pending, feeder, notified>>
    BY <2>1 DEF Running, queueVars, storeVars, syncVars, requestVars, feederVars
  <2>3. fetcher'[k] = AtStep("top") /\ \A j \in Kinds : j # k => fetcher'[j] = fetcher[j]
    BY <2>1, Tables, OneReplaced DEF Goes
  <2>4. fetcher'[k].at = "top"
    BY <2>3 DEF AtStep
  <2>5. Answered(k)'
    BY <1>2, <2>1, <2>2, <2>4 DEF Answered, Owed
  <2>6. wakeCh'[k] = <<>> /\ \A j \in Kinds : j # k => wakeCh'[j] = wakeCh[j]
    BY <2>1, Tables, OneReplaced
  <2>7. wakeCh[k] = <<TRUE>> \/ wakeCh[k] = <<FALSE>>
    BY <1>1, <2>1 DEF PeerTypes
  <2>8. /\ finished' \in [Kinds -> BOOLEAN]
        /\ finished'[k] => finished[k] \/ wakeCh[k] = <<FALSE>>
        /\ \A j \in Kinds : j # k => finished'[j] = finished[j]
    <3> DEFINE f == finished[k] \/ ~Head(wakeCh[k])
    <3>1. f \in BOOLEAN /\ (f => finished[k] \/ wakeCh[k] = <<FALSE>>)
      <4>1. finished[k] \in BOOLEAN
        BY <1>2 DEF EndTypes
      <4>2. CASE wakeCh[k] = <<TRUE>>
        <5>1. Head(wakeCh[k]) = TRUE
          BY <4>2, HeadOfOne
        <5> QED BY <4>1, <5>1
      <4> QED BY <2>7, <4>1, <4>2
    <3>2. finished' = [finished EXCEPT ![k] = f]
      BY <2>1
    <3> HIDE DEF f
    <3> QED BY <1>2, <3>1, <3>2, Tables, OneReplaced DEF EndTypes
  <2>9. EndTypes' /\ Fitting' /\ (HasCompletedItems => HasCompletedItems')
    BY <1>2, <2>1, <2>2, <2>8 DEF EndTypes, Fitting, HasCompletedItems, Completes
  <2>10. \A j \in Kinds : /\ wakeCh'[j] = <<FALSE>> => wakeCh[j] = <<FALSE>>
                          /\ finished'[j] => finished[j] \/ wakeCh[j] = <<FALSE>>
    <3>1. <<>> # <<FALSE>>
      OBVIOUS
    <3> QED BY <2>6, <2>8, <3>1, ZenonT(60)
  <2> QED BY <2>1, <2>2, <2>3, <2>4, <2>5, <2>9, <2>10, FetchEnding
<1> QED BY <1>4, <1>5, <1>6, LoopEnding DEF FetchStep

\* Steps that leave the fetchers alone.
LEMMA AnsweredFrame ==
  ASSUME EndInv, UNCHANGED <<fetcher, pending, orphaned>>, NEW k \in Kinds,
         \A p \in Peers : pendPool'[k][p] = pendPool[k][p] \/ pendPool'[k][p] = {},
         taskPool'[k] = taskPool[k] \/ fetcher[k].at # "ok"
  PROVE  Answered(k)'
<1>1. Answered(k)
  BY DEF EndInv
<1>2. ASSUME NEW p \in Peers, Owed(k, p) PROVE Owed(k, p)'
  BY <1>2 DEF Owed
<1> QED BY <1>1, <1>2 DEF Answered, Running

\* The steps of the peer set.
LEMMA PeerStepEnding ==
  ASSUME IInv, EndInv, NEW p \in Peers, Register(p) \/ Unregister(p) \/ Revoke(p)
  PROVE  EndInv'
<1>1. /\ UNCHANGED <<scheduled, taskPool, storeVars, syncVars, wakeCh, fetcher, requestVars, finished,
                     feederVars, importer, orphaned>>
      /\ UNCHANGED pendPool \/ pendPool' = [k \in Kinds |-> WithoutPool(k, p)]
  BY ZenonT(60) DEF Register, Unregister, Revoke, queueVars
<1>2. UNCHANGED <<items, resultOffset, closed, pending, feeder, notified>>
  BY <1>1 DEF storeVars, syncVars, requestVars, feederVars
<1>3. ASSUME NEW k \in Kinds, NEW q \in Peers PROVE pendPool'[k][q] = pendPool[k][q] \/ pendPool'[k][q] = {}
  <2>1. pendPool[k] \in [Peers -> SUBSET Headers]
    BY DEF IInv, QueueTypes
  <2>2. pendPool'[k] = pendPool[k] \/ pendPool'[k] = [pendPool[k] EXCEPT ![p] = {}]
    BY <1>1 DEF WithoutPool
  <2> QED BY <2>1, <2>2
<1>4. \A k \in Kinds : Answered(k)'
  BY <1>1, <1>2, <1>3, AnsweredFrame
<1>5. EndTypes' /\ Fitting' /\ Ending'
  BY <1>1, <1>2 DEF EndInv, EndTypes, Fitting, Ending
<1>6. Importing'
  BY <1>1, <1>2 DEF EndInv, Importing, Broken, Fetched, Neglected, HasCompletedItems, Completes
<1> QED BY <1>4, <1>5, <1>6 DEF EndInv

\* The steps of processHeaders.
LEMMA FeedStepEnding ==
  ASSUME IInv, EndInv, \/ \E k \in Kinds : FeedFinish(k)
                       \/ \E n \in Headers : FeedSchedule(n)
                       \/ FeedWake \/ FeedCanceled
  PROVE  EndInv'
<1>1. /\ feeder \in {"select", "batch", "finish"}
      /\ UNCHANGED <<pendPool, feederRest>>
  BY ZenonT(60) DEF FeedFinish, FeedSchedule, FeedWake, FeedCanceled, queueVars
<1>2. UNCHANGED <<items, resultOffset, closed, fetcher, pending, finished, importer, orphaned>>
  BY <1>1 DEF feederRest, storeVars, syncVars, requestVars
<1>3. EndTypes' /\ Fitting'
  BY <1>2 DEF EndInv, EndTypes, Fitting
<1>4. Importing'
  <2>1. ~Fetched /\ (Broken => Broken')
    BY <1>1, <1>2 DEF Broken, Fetched
  <2> QED BY <1>2, <2>1 DEF EndInv, Importing, HasCompletedItems, Completes
<1>5. ASSUME UNCHANGED taskPool PROVE \A k \in Kinds : Answered(k)'
  BY <1>1, <1>2, <1>5, AnsweredFrame
<1>6. ASSUME NEW k \in Kinds, FeedFinish(k) PROVE EndInv'
  <2>1. /\ scheduled = LastHeader /\ notified' = notified \cup {k} /\ feeder' \in {"ok", "finish"}
        /\ UNCHANGED queueVars
    BY <1>6, ZenonT(60) DEF FeedFinish
  <2>2. UNCHANGED <<scheduled, taskPool>> /\ notified' # {}
    BY <2>1 DEF queueVars
  <2>3. Ending'
    BY <2>1, <2>2 DEF Ending
  <2> QED BY <1>3, <1>4, <1>5, <2>2, <2>3 DEF EndInv
<1>7. ASSUME NEW n \in Headers, FeedSchedule(n) PROVE EndInv'
  <2>1. n \in scheduled + 1 .. LastHeader /\ feeder' = "batch" /\ UNCHANGED <<wakeCh, notified>>
    BY <1>7, ZenonT(60) DEF FeedSchedule
  <2>2. scheduled # LastHeader
    <3>1. scheduled \in Nat /\ n \in Nat /\ LastHeader \in Nat
      BY Sizes, SMTT(60) DEF IInv, QueueTypes
    <3> QED BY <2>1, <3>1
  <2>3. notified = {} /\ \A k \in Kinds : fetcher[k].at # "ok"
    BY <2>2 DEF EndInv, Ending
  <2>4. \A k \in Kinds : Answered(k)'
    BY <1>1, <1>2, <2>3, AnsweredFrame
  <2>5. Ending'
    BY <1>2, <2>1, <2>3 DEF EndInv, Ending
  <2> QED BY <1>3, <1>4, <2>4, <2>5 DEF EndInv
<1>8. CASE FeedWake
  <2>1. feeder' = "select" /\ wakeCh' = Woken /\ UNCHANGED <<queueVars, notified>>
    BY <1>8, ZenonT(60) DEF FeedWake
  <2>2. UNCHANGED <<scheduled, taskPool>>
    BY <2>1 DEF queueVars
  <2>3. \A k \in Kinds : wakeCh'[k] = <<FALSE>> => wakeCh[k] = <<FALSE>>
    BY <2>1, WokenFacts
  <2>4. Ending'
    BY <1>2, <2>1, <2>2, <2>3 DEF EndInv, Ending
  <2> QED BY <1>3, <1>4, <1>5, <2>2, <2>4 DEF EndInv
<1>9. CASE FeedCanceled
  <2>1. feeder' = "canceled" /\ UNCHANGED <<queueVars, wakeCh, notified>>
    BY <1>9, ZenonT(60) DEF FeedCanceled
  <2>2. UNCHANGED <<scheduled, taskPool>>
    BY <2>1 DEF queueVars
  <2>3. Ending'
    BY <1>2, <2>1, <2>2 DEF EndInv, Ending
  <2> QED BY <1>3, <1>4, <1>5, <2>2, <2>3 DEF EndInv
<1> QED BY <1>6, <1>7, <1>8, <1>9

\* countCompleted finds the next block if it is complete.
LEMMA CompletedFinds ==
  ASSUME StoreInv, HasCompletedItems
  PROVE  Completed # 0
<1>1. /\ resultOffset \in Headers /\ AllDone(resultOffset)
  BY DEF HasCompletedItems, Completes, AllDone
<1>2. /\ resultOffset \in Nat /\ indexIncomplete \in Nat /\ LastHeader \in Nat /\ CacheSize \in Nat /\ CacheSize > 0
      /\ resultOffset <= LastHeader
  BY <1>1, Sizes, SMTT(60) DEF StoreInv, Headers
<1>3. CASE indexIncomplete > 0
  <2>1. Completed \in indexIncomplete..CacheSize
    BY CompletedFacts
  <2> QED BY <1>2, <1>3, <2>1
<1>4. CASE indexIncomplete = 0
  <2> DEFINE upto == {h \in resultOffset..LastHeader :
                        h < resultOffset + CacheSize /\ \A g \in resultOffset..h : AllDone(g)}
  <2>1. resultOffset + indexIncomplete = resultOffset
    BY <1>2, <1>4
  <2>2. Completed = indexIncomplete + Cardinality(upto)
    BY <2>1 DEF Completed
  <2>3. resultOffset \in upto
    <3>1. resultOffset..resultOffset = {resultOffset}
      BY <1>2
    <3> QED BY <1>1, <1>2, <3>1, SMTT(60)
  <2>4. IsFiniteSet(upto)
    <3>1. upto \in SUBSET (resultOffset..LastHeader)
      OBVIOUS
    <3>2. IsFiniteSet(resultOffset..LastHeader)
      BY <1>2, FS_Interval, SMTT(60)
    <3> HIDE DEF upto
    <3> QED BY <3>1, <3>2, FS_Subset
  <2> HIDE DEF upto
  <2>5. Cardinality(upto) # 0 /\ Cardinality(upto) \in Nat
    BY <2>3, <2>4, FS_EmptySet, FS_CardinalityType
  <2> QED BY <1>4, <2>2, <2>5
<1> QED BY <1>2, <1>3, <1>4

\* When the fetchers are done, and no task is left to an ignored answer, the next block is complete.
LEMMA FetchedIsComplete ==
  ASSUME IInv, EndInv, Fetched, ~Neglected, resultOffset \in Headers
  PROVE  HasCompletedItems
<1>1. scheduled = LastHeader
  BY DEF Fetched, EndInv, Ending
<1>2. \A k \in Kinds : taskPool[k] = {}
  BY DEF Fetched, Neglected, EndInv, Answered
<1>3. resultOffset \in Nat /\ resultOffset <= scheduled
  BY <1>1, Sizes DEF Headers
<1>4. \A k \in Kinds : IsTask(k, resultOffset) => Settled(k, resultOffset)
  BY <1>2, <1>3 DEF IInv, QueueInv, Remembered
<1>5. \A k \in Kinds : IsTask(k, resultOffset) => items[resultOffset] # Absent /\ k \notin items[resultOffset]
  BY <1>3, <1>4 DEF Settled
<1>6. items[resultOffset] # Absent
  BY <1>5, DownloadAssumption DEF IsTask
<1>7. items[resultOffset] \in SUBSET Kinds /\ items[resultOffset] \subseteq Parts[resultOffset]
  BY <1>6 DEF IInv, StoreInv, EndInv, Fitting
<1>8. items[resultOffset] = {}
  BY <1>5, <1>7 DEF IsTask
<1> QED BY <1>8 DEF HasCompletedItems, Completes

\* The steps of processFullSyncContent.
LEMMA ImportStepEnding ==
  ASSUME IInv, EndInv, \/ ResultsLook \/ ResultsLock \/ ResultsWoken \/ ResultsTake \/ ResultsCalibrate
                       \/ Import
  PROVE  EndInv'
<1>1. UNCHANGED importerRest /\ (wakeCh' = wakeCh \/ wakeCh' = Woken)
  BY ZenonT(60) DEF ResultsLook, ResultsLock, ResultsWoken, ResultsTake, ResultsCalibrate, Import, ThrottledWoken
<1>2. UNCHANGED <<scheduled, taskPool, pendPool, closed, fetcher, pending, finished, feeder, notified, orphaned>>
  BY <1>1 DEF importerRest, queueVars, syncVars, requestVars, feederVars
<1>3. EndTypes' /\ Ending'
  <2>1. \A k \in Kinds : wakeCh'[k] = <<FALSE>> => wakeCh[k] = <<FALSE>>
    BY <1>1, WokenFacts
  <2> QED BY <1>2, <2>1 DEF EndInv, EndTypes, Ending
<1>4. \A k \in Kinds : Answered(k)'
  BY <1>2, AnsweredFrame
<1>5. importer \notin {"ok", "err", "canceled"}
  BY ZenonT(60) DEF ResultsLook, ResultsLock, ResultsWoken, ResultsTake, ResultsCalibrate, Import
<1>6. (Broken => Broken') /\ (Fetched => Fetched') /\ (Neglected => Neglected')
  BY <1>2, <1>5 DEF Broken, Fetched, Neglected
<1>7. CASE ~ResultsTake
  <2>1. UNCHANGED <<items, resultOffset>>
    BY <1>7, ZenonT(60) DEF ResultsLook, ResultsLock, ResultsWoken, ResultsCalibrate, Import, storeVars
  <2>2. Fitting'
    BY <2>1 DEF EndInv, Fitting
  <2>3. HasCompletedItems' = HasCompletedItems
    BY <2>1 DEF HasCompletedItems, Completes
  <2>4. \/ importer' \in {"lock", "wait", "look", "import", "err"}
        \/ importer' = "take" /\ (HasCompletedItems \/ closed)
        \/ importer' = "ok" /\ importer = "calibrateNone"
    BY <1>7, ZenonT(60) DEF ResultsLook, ResultsLock, ResultsWoken, ResultsCalibrate, Import
  <2>5. Importing'
    BY <1>2, <1>6, <2>1, <2>3, <2>4 DEF EndInv, Importing
  <2> QED BY <1>3, <1>4, <2>2, <2>5 DEF EndInv
<1>8. CASE ResultsTake
  <2> DEFINE n == Min({MaxTake, Completed})
  <2>1. /\ importer = "take" /\ GetCompleted(n)
        /\ importer' = IF n = 0 THEN "calibrateNone" ELSE "calibrate"
    BY <1>8, ZenonT(60) DEF ResultsTake
  <2>2. StoreInv
    BY DEF IInv
  <2>3. Fitting'
    BY <2>1 DEF GetCompleted, EndInv, Fitting
  <2>4. CASE n = 0
    <3>1. Completed = 0
      <4>1. Completed \in Nat
        BY <2>2, CompletedFacts, Sizes, SMTT(60) DEF StoreInv
      <4>2. \E x \in {MaxTake, Completed} : \A y \in {MaxTake, Completed} : x <= y
        BY <4>1, Sizes, SMTT(60)
      <4>3. n \in {MaxTake, Completed}
        BY <4>2, ZenonT(60) DEF Min
      <4> QED BY <2>4, <4>3, Sizes
    <3>2. ~HasCompletedItems
      BY <2>2, <3>1, CompletedFinds
    <3>3. closed /\ (Broken \/ Fetched)
      BY <2>1, <3>2 DEF EndInv, Importing
    <3>4. resultOffset' = resultOffset
      <4>1. resultOffset \in Nat
        BY <2>2, Sizes, SMTT(60) DEF StoreInv
      <4> QED BY <2>1, <2>4, <4>1 DEF GetCompleted
    <3>5. Broken \/ Neglected \/ resultOffset = LastHeader + 1
      <4>1. resultOffset \notin Headers => resultOffset = LastHeader + 1
        BY <2>2, Sizes, SMTT(60) DEF StoreInv, Headers
      <4> QED BY <3>2, <3>3, <4>1, FetchedIsComplete
    <3>6. Importing'
      BY <1>2, <1>6, <2>1, <2>4, <3>3, <3>4, <3>5 DEF Importing
    <3> QED BY <1>3, <1>4, <2>3, <3>6 DEF EndInv
  <2>5. CASE n # 0
    <3>1. importer' = "calibrate"
      BY <2>1, <2>5
    <3>2. Importing'
      BY <1>2, <1>6, <3>1 DEF EndInv, Importing
    <3> QED BY <1>3, <1>4, <2>3, <3>2 DEF EndInv
  <2> QED BY <2>4, <2>5
<1> QED BY <1>7, <1>8

\* spawnSync closes the queue only when one goroutine is left, or after an error.
LEMMA CloseFinds ==
  ASSUME IInv, EndInv, Close
  PROVE  Broken \/ Fetched
<1>1. ~closed /\ (Failed \/ Cardinality(Active) <= 1)
  BY DEF Close, LastLeft
<1>2. CASE Failed
  BY <1>2, SMTT(60) DEF Failed, Outcomes, Broken
<1>3. CASE ~Failed /\ Cardinality(Active) <= 1
  <2>1. importer \notin {"ok", "err", "canceled"} /\ <<"importer", importer>> \in Outcomes
    <3>1. <<"importer", importer>> \in Outcomes
      BY DEF Outcomes
    <3>2. importer # "err"
      BY <1>3, <3>1 DEF Failed
    <3> QED BY <1>1, <3>1, <3>2 DEF EndInv, Importing
  <2>2. <<"importer", importer>> \in Active
    BY <2>1 DEF Active, Ended
  <2>3. IsFiniteSet(Active)
    <3> DEFINE ends == {<<k, fetcher[k].at>> : k \in Kinds}
    <3>1. [k \in Kinds |-> <<k, fetcher[k].at>>] \in Surjection(Kinds, ends)
      BY DEF Surjection
    <3>2. IsFiniteSet(ends)
      BY <3>1, DownloadAssumption, FS_Surjection, ZenonT(60)
    <3>3. Outcomes = ends \cup {<<"feeder", feeder>>} \cup {<<"importer", importer>>}
      BY DEF Outcomes
    <3> HIDE DEF ends
    <3>4. IsFiniteSet(Outcomes)
      BY <3>2, <3>3, FS_AddElement, ZenonT(60)
    <3>5. Active \in SUBSET Outcomes
      BY DEF Active
    <3> QED BY <3>4, <3>5, FS_Subset
  <2>4. ASSUME NEW o \in Active PROVE o = <<"importer", importer>>
    <3>1. Cardinality(Active) # 0 /\ Cardinality(Active) \in Nat
      BY <2>2, <2>3, FS_EmptySet, FS_CardinalityType
    <3>2. Cardinality(Active) = 1
      BY <1>3, <3>1
    <3>3. \E x : Active = {x}
      BY <2>3, <3>2, FS_Singleton
    <3> QED BY <2>2, <3>3
  <2>5. feeder \in {"ok", "canceled"}
    <3>1. <<"feeder", feeder>> \in Outcomes
      BY DEF Outcomes
    <3>2. <<"feeder", feeder>> # <<"importer", importer>>
      OBVIOUS
    <3>3. <<"feeder", feeder>> \notin Active
      BY <2>4, <3>2
    <3>4. feeder \in Ended
      BY <3>1, <3>3 DEF Active
    <3> QED BY <3>4 DEF Ended, EndInv, Ending
  <2>6. ASSUME NEW k \in Kinds PROVE fetcher[k].at \in {"ok", "canceled"}
    <3>1. <<k, fetcher[k].at>> \in Outcomes
      BY DEF Outcomes
    <3>2. fetcher[k].at # importer
      <4>1. fetcher[k].at \in Steps
        BY DEF IInv, FetchInv, Locals
      <4> QED BY <2>1, <4>1 DEF Steps, EndInv, Importing
    <3>3. <<k, fetcher[k].at>> # <<"importer", importer>>
      BY <3>2
    <3>4. <<k, fetcher[k].at>> \notin Active
      BY <2>4, <3>3
    <3>5. fetcher[k].at \in Ended
      BY <3>1, <3>4 DEF Active
    <3>6. fetcher[k].at # "err"
      BY <1>3, <3>1 DEF Failed
    <3> QED BY <3>5, <3>6 DEF Ended
  <2> QED BY <2>5, <2>6 DEF Broken, Fetched
<1> QED BY <1>1, <1>2, <1>3

\* spawnSync closing the queue, and cancelling what still runs.
LEMMA CloseEnding ==
  ASSUME IInv, EndInv, Close \/ Cancel
  PROVE  EndInv'
<1>1. /\ UNCHANGED <<queueVars, storeVars, wakeCh, fetcher, requestVars, finished, feederVars, orphaned>>
      /\ importer' = importer \/ importer' = Signalled(importer)
      /\ closed' = closed \/ Close
  BY ZenonT(60) DEF Close, Cancel
<1>2. UNCHANGED <<scheduled, taskPool, pendPool, items, resultOffset, pending, feeder, notified>>
  BY <1>1 DEF queueVars, storeVars, requestVars, feederVars
<1>3. EndTypes' /\ Fitting' /\ Ending'
  BY <1>1, <1>2 DEF EndInv, EndTypes, Fitting, Ending
<1>4. \A k \in Kinds : Answered(k)'
  BY <1>1, <1>2, AnsweredFrame
<1>5. importer' = importer \/ (importer = "wait" /\ importer' = "woken")
  BY <1>1, SignalledFacts
<1>6. (Broken => Broken') /\ (Fetched => Fetched') /\ (Neglected => Neglected')
  BY <1>1, <1>2, <1>5 DEF Broken, Fetched, Neglected
<1>7. /\ closed' => Broken \/ Fetched
      /\ closed => closed'
  <2>1. CASE Close
    BY <2>1, CloseFinds DEF Close
  <2>2. CASE closed' = closed
    BY <2>2 DEF EndInv, Importing
  <2> QED BY <1>1, <2>1, <2>2
<1>8. HasCompletedItems' = HasCompletedItems
  BY <1>2 DEF HasCompletedItems, Completes
<1>9. Importing'
  BY <1>2, <1>5, <1>6, <1>7, <1>8 DEF EndInv, Importing
<1> QED BY <1>3, <1>4, <1>9 DEF EndInv

\* At the start of a sync nothing has ended.
LEMMA InitEnding == Init => EndInv
<1> SUFFICES ASSUME Init PROVE EndInv
  OBVIOUS
<1>1. ASSUME NEW k \in Kinds
      PROVE  /\ fetcher[k].at = "top" /\ wakeCh[k] = <<>> /\ ~finished[k]
             /\ \A p \in Peers : pendPool[k][p] = {}
  BY DEF Init, AtStep, NoHeaders
<1>2. /\ notified = {} /\ feeder = "select" /\ importer = "look" /\ closed = FALSE
      /\ \A h \in Headers : items[h] = Absent
  BY DEF Init
<1>3. EndTypes
  BY DEF Init, EndTypes
<1>4. Ending
  <2>1. <<>> # <<FALSE>>
    OBVIOUS
  <2>2. feeder \in {"select", "batch", "finish", "ok", "canceled"} /\ feeder # "ok"
    BY <1>2
  <2>3. \A k \in Kinds : fetcher[k].at # "ok"
    BY <1>1
  <2> QED BY <1>1, <1>2, <2>1, <2>2, <2>3, ZenonT(60) DEF Ending
<1>5. \A k \in Kinds : Answered(k)
  BY <1>1 DEF Answered, Owed
<1>6. Fitting /\ Importing
  BY <1>2 DEF Fitting, Importing
<1> QED BY <1>3, <1>4, <1>5, <1>6 DEF EndInv

\* Every step keeps what is said of the end of the sync.
LEMMA NextEnding == IInv /\ EndInv /\ [Next]_vars => EndInv'
<1> SUFFICES ASSUME IInv, EndInv, [Next]_vars PROVE EndInv'
  OBVIOUS
<1>1. CASE Next
  BY <1>1, FetchStepEnding, PeerStepEnding, FeedStepEnding, ImportStepEnding, CloseEnding, ZenonT(60) DEF Next
<1>2. CASE UNCHANGED vars
  <2>1. UNCHANGED <<scheduled, taskPool, pendPool, items, resultOffset, closed, wakeCh, fetcher, pending, finished,
                    feeder, notified, importer, orphaned>>
    BY <1>2, ZenonT(60) DEF vars, queueVars, storeVars, syncVars, requestVars, feederVars
  <2>2. EndTypes' /\ Fitting' /\ Ending'
    BY <2>1 DEF EndInv, EndTypes, Fitting, Ending
  <2>3. \A k \in Kinds : Answered(k)'
    BY <2>1, AnsweredFrame
  <2>4. Importing'
    BY <2>1 DEF EndInv, Importing, Broken, Fetched, Neglected, HasCompletedItems, Completes
  <2> QED BY <2>2, <2>3, <2>4 DEF EndInv
<1> QED BY <1>1, <1>2

(* A sync whose goroutines all return nil has imported every header, unless an *)
(* answer was ignored because its peer had just been unregistered: a fetcher   *)
(* returns only when nothing is queued or asked for after the last header was  *)
(* scheduled, spawnSync closes the queue only after the last fetcher, and      *)
(* Results comes back empty only when nothing complete is left.                *)
THEOREM SyncEndsComplete == Spec => []SyncComplete
<1>1. EndInv => SyncComplete
  <2> SUFFICES ASSUME EndInv, \A o \in Outcomes : o[2] = "ok"
               PROVE  resultOffset = LastHeader + 1 \/ Neglected
    BY DEF SyncComplete
  <2>1. /\ <<"feeder", feeder>> \in Outcomes /\ <<"importer", importer>> \in Outcomes
        /\ \A k \in Kinds : <<k, fetcher[k].at>> \in Outcomes
    BY DEF Outcomes
  <2>2. feeder = "ok" /\ importer = "ok" /\ \A k \in Kinds : fetcher[k].at = "ok"
    BY <2>1
  <2>3. ~Broken
    BY <2>2 DEF Broken
  <2> QED BY <2>2, <2>3 DEF EndInv, Importing
<1> QED BY <1>1, Invariance, InitEnding, NextEnding, PTL DEF Spec
=============================================================================
