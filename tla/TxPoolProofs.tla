---------------------------- MODULE TxPoolProofs ----------------------------
(***************************************************************************)
(* Proofs about TxPool, for every set of accounts and transactions, every   *)
(* chain state and every configured limit.                                 *)
(***************************************************************************)
EXTENDS TxPool, FiniteSetTheorems, TLAPS

USE ZenonT(10), SMTT(60)

-----------------------------------------------------------------------------
(* Extremal nonces. *)

\* A nonempty set of naturals has a least member, and Min picks it.
LEMMA MinNat ==
  ASSUME NEW S \in SUBSET Nat, S # {}
  PROVE  Min(S) \in S /\ \A y \in S : Min(S) <= y
<1>1. PICK x \in S : \A y \in S : ~(<<y, x>> \in OpToRel(<, Nat))
  BY NatLessThanWellFounded, WFMin, ZenonT(60)
<1>2. ASSUME NEW y \in S PROVE x =< y
  <2>1. <<y, x>> \in Nat \X Nat
    OBVIOUS
  <2>2. ~(y < x)
    BY <1>1, <2>1 DEF OpToRel
  <2> QED
    BY <2>2
<1> QED
  BY <1>2, ZenonT(60) DEF Min

\* A nonempty bounded set of naturals has a greatest member, and Max picks it.
LEMMA MaxNat ==
  ASSUME NEW S \in SUBSET Nat, S # {}, NEW b \in Nat, \A x \in S : x <= b
  PROVE  Max(S) \in S /\ \A y \in S : y <= Max(S)
<1> DEFINE U == {b - x : x \in S}
<1>1. U \in SUBSET Nat /\ U # {}
  <2>1. ASSUME NEW x \in S PROVE b - x \in Nat
    OBVIOUS
  <2>2. PICK x \in S : TRUE
    BY ZenonT(60)
  <2>3. b - x \in U
    OBVIOUS
  <2> QED
    BY <2>1, <2>3
<1>2. Min(U) \in U /\ \A y \in U : Min(U) <= y
  BY <1>1, MinNat, ZenonT(60)
<1>3. PICK x \in S : Min(U) = b - x
  BY <1>2, ZenonT(60)
<1>4. ASSUME NEW y \in S PROVE x >= y
  <2>1. b - y \in U
    OBVIOUS
  <2>2. b - x <= b - y
    BY <1>2, <1>3, <2>1, ZenonT(60)
  <2> QED
    BY <2>2
<1> QED
  BY <1>4, ZenonT(60) DEF Max

-----------------------------------------------------------------------------
(* Lists. *)

Listed == TypeOK /\ LookupExact /\ OneTxPerNonce

\* With one transaction per nonce, removeTx finds in pending the transaction
\* it was asked for, and what goes back to the queue displaces nothing there.
LEMMA RemoveFacts ==
  ASSUME Listed, NEW D, D \subseteq all
  PROVE  /\ PendingHits(D) = D \cap pending
         /\ Requeued(D) \subseteq pending \ D
         /\ Displaced(queue, Requeued(D)) = {}
         /\ PendingWithout(D) = pending \ (D \cup Requeued(D))
         /\ QueueWithout(D) = (queue \cup Requeued(D)) \ D
         /\ \A S : LookupWithout(S, D) = S \ D
<1>1. D \subseteq pending \cup queue /\ pending \cap queue = {}
  BY DEF Listed, LookupExact
<1>2. PendingHits(D) = D \cap pending
  BY <1>1 DEF PendingHits, Listed, OneTxPerNonce, SameSlot
<1>3. Requeued(D) \subseteq pending \ D
  BY <1>2 DEF Requeued, Invalidated
<1>4. \A o \in queue, t \in Requeued(D) : ~SameSlot(o, t)
  BY <1>1, <1>3 DEF Listed, OneTxPerNonce
<1>5. Displaced(queue, Requeued(D)) = {} /\ Accepted(queue, Requeued(D)) = Requeued(D)
  BY <1>4 DEF Displaced, Accepted
<1>6. PendingWithout(D) = pending \ (D \cup Requeued(D))
  BY <1>2 DEF PendingWithout
<1>7. QueueWithout(D) = (queue \cup Requeued(D)) \ D
  BY <1>5 DEF QueueWithout, ListAdd
<1>8. \A S : LookupWithout(S, D) = S \ D
  BY <1>5 DEF LookupWithout
<1> QED
  BY <1>2, <1>3, <1>5, <1>6, <1>7, <1>8

\* Removal lowers virtual nonces to nonces of transactions, and records
\* heartbeats of senders.
LEMMA RemoveTypes ==
  ASSUME Listed, NEW D, D \subseteq all
  PROVE  /\ NoncesWithout(D) \in [Accounts -> Nat]
         /\ BeatsWithout(D) \in SUBSET Accounts
         /\ PendingWithout(D) \in SUBSET Txs
         /\ QueueWithout(D) \in SUBSET Txs
<1>1. ASSUME NEW a \in Accounts
      PROVE  Min({pendingNonces[a]} \cup {Nonce[p] : p \in ListOf(PendingHits(D), a)}) \in Nat
  <2>1. {pendingNonces[a]} \cup {Nonce[p] : p \in ListOf(PendingHits(D), a)} \in SUBSET Nat
    BY TxAssumption DEF Listed, TypeOK, ListOf, PendingHits
  <2> QED
    BY <2>1, MinNat
<1>2. NoncesWithout(D) \in [Accounts -> Nat]
  BY <1>1 DEF NoncesWithout
<1>3. Requeued(D) \subseteq Txs
  BY RemoveFacts DEF Listed, TypeOK
<1>4. Senders(Requeued(D)) \subseteq Accounts
  BY <1>3, TxAssumption DEF Senders
<1>5. BeatsWithout(D) \in SUBSET Accounts
  BY <1>4 DEF BeatsWithout, Listed, TypeOK
<1>6. PendingWithout(D) \in SUBSET Txs /\ QueueWithout(D) \in SUBSET Txs
  BY <1>3, RemoveFacts DEF Listed, TypeOK
<1> QED
  BY <1>2, <1>5, <1>6

\* The part of the type invariant that removals and additions concern.
PoolTyped ==
  /\ pending \in SUBSET Txs /\ queue \in SUBSET Txs
  /\ localTxs \in SUBSET Txs /\ remoteTxs \in SUBSET Txs
  /\ pendingNonces \in [Accounts -> Nat]
  /\ beats \in SUBSET Accounts

\* removeTx of known transactions keeps lists and lookup in step.
LEMMA RemoveListed ==
  ASSUME Listed, NEW D, D \subseteq all, RemoveTxs(D)
  PROVE  PoolTyped' /\ LookupExact' /\ OneTxPerNonce'
<1>1. /\ pending' = pending \ (D \cup Requeued(D))
      /\ queue' = (queue \cup Requeued(D)) \ D
      /\ localTxs' = localTxs \ D
      /\ remoteTxs' = remoteTxs \ D
  BY RemoveFacts DEF RemoveTxs
<1>2. PoolTyped'
  BY <1>1, RemoveTypes, RemoveFacts DEF PoolTyped, RemoveTxs, Listed, TypeOK
<1>3. LookupExact'
  BY <1>1, RemoveFacts DEF LookupExact, Listed, all
<1>4. pending' \cup queue' \subseteq pending \cup queue
  BY <1>1, RemoveFacts
<1>5. OneTxPerNonce'
  BY <1>4 DEF OneTxPerNonce, Listed, SameSlot
<1> QED
  BY <1>2, <1>3, <1>5


\* add goes on only with a transaction that is new, and drops remote ones only.
LEMMA DropFacts ==
  ASSUME TypeOK, NEW t \in Txs, NEW loc \in BOOLEAN, NEW D \in DropSets(t, loc)
  PROVE  t \notin all /\ D \subseteq remoteTxs /\ Cardinality(D) \in Nat
<1>1. t \notin all
  BY DEF DropSets
<1>2. D = {} \/ D \in DiscardSets(loc)
  BY DEF DropSets
<1>3. D \subseteq remoteTxs
  BY <1>2 DEF DiscardSets
<1>4. IsFiniteSet(D)
  BY <1>3, TxAssumption, FS_Subset DEF TypeOK
<1> QED
  BY <1>1, <1>3, <1>4, FS_CardinalityType

\* A new transaction replaces one pending transaction and no queued one.
LEMMA ReplaceListed ==
  ASSUME Listed, NEW t \in Txs, t \notin all, NEW loc \in BOOLEAN,
         NEW D, D \subseteq remoteTxs, ReplacePending(t, loc, D)
  PROVE  /\ pending' \in SUBSET Txs /\ queue' \in SUBSET Txs
         /\ localTxs' \in SUBSET Txs /\ remoteTxs' \in SUBSET Txs
         /\ beats' \in SUBSET Accounts /\ locals' \in SUBSET Accounts
         /\ LookupExact' /\ OneTxPerNonce'
<1> DEFINE P == PendingWithout(D)
           Q == QueueWithout(D)
           old == Displaced(P, {t})
<1>1. D \subseteq all
  BY DEF all
<1>2. /\ P \cup Q = all \ D /\ P \cap Q = {}
      /\ \A S : LookupWithout(S, D) = S \ D
  <2> DEFINE R == Requeued(D)
  <2>1. P = pending \ (D \cup R) /\ Q = (queue \cup R) \ D /\ R \subseteq pending \ D
    BY <1>1, RemoveFacts
  <2>2. pending \cup queue = all /\ pending \cap queue = {}
    BY DEF Listed, LookupExact
  <2> HIDE DEF P, Q, R
  <2>3. P \cup Q = all \ D /\ P \cap Q = {}
    BY <2>1, <2>2
  <2> QED
    BY <1>1, <2>3, RemoveFacts DEF P, Q
<1>3. /\ pending' = (P \ old) \cup {t} /\ queue' = Q
      /\ localTxs' = ((localTxs \ D) \ old) \cup (IF loc THEN {t} ELSE {})
      /\ remoteTxs' = ((remoteTxs \ D) \ old) \cup (IF loc THEN {} ELSE {t})
  BY <1>2 DEF ReplacePending, Tracked
<1>4. old \subseteq P /\ \A o \in P : SameSlot(o, t) => o \in old
  BY DEF ReplacePending, Accepted, Displaced
<1>5. PICK o \in P : SameSlot(o, t)
  BY DEF ReplacePending, Overlaps
<1>6. \A q \in Q : ~SameSlot(q, t)
  <2>1. ASSUME NEW q \in Q, SameSlot(q, t) PROVE FALSE
    <3>1. SameSlot(q, o)
      BY <2>1, <1>5 DEF SameSlot
    <3>2. q \in pending \cup queue /\ o \in pending \cup queue
      BY <1>2, <1>5 DEF Listed, LookupExact
    <3> QED
      BY <3>1, <3>2, <1>2, <1>5 DEF Listed, OneTxPerNonce
  <2> QED
    BY <2>1
<1>7. LookupExact'
  <2> HIDE DEF P, Q, old
  <2>1. localTxs \cap remoteTxs = {} /\ all = localTxs \cup remoteTxs
    BY DEF Listed, LookupExact, all
  <2>2. t \notin localTxs /\ t \notin remoteTxs
    BY <2>1
  <2>3. (pending \cup queue = all)'
    BY <1>2, <1>3, <1>4, <2>1 DEF all
  <2>4. (pending \cap queue = {})'
    BY <1>2, <1>3, <1>4, <2>1
  <2>5. (localTxs \cap remoteTxs = {})'
    BY <1>3, <2>1, <2>2
  <2> QED
    BY <2>3, <2>4, <2>5 DEF LookupExact
<1>8. OneTxPerNonce'
  <2>1. ASSUME NEW u \in pending' \cup queue', NEW v \in pending' \cup queue', SameSlot(u, v)
        PROVE  u = v
    <3>1. CASE u # t /\ v # t
      BY <3>1, <2>1, <1>2, <1>3 DEF Listed, LookupExact, OneTxPerNonce
    <3>2. CASE u = t /\ v # t
      BY <3>2, <2>1, <1>3, <1>4, <1>6 DEF SameSlot
    <3>3. CASE u # t /\ v = t
      BY <3>3, <2>1, <1>3, <1>4, <1>6
    <3> QED
      BY <3>1, <3>2, <3>3
  <2> QED
    BY <2>1 DEF OneTxPerNonce, SameSlot
<1>9. /\ pending' \in SUBSET Txs /\ queue' \in SUBSET Txs
      /\ localTxs' \in SUBSET Txs /\ remoteTxs' \in SUBSET Txs
  BY <1>1, <1>3, RemoveTypes DEF Listed, TypeOK
<1>10. beats' \in SUBSET Accounts /\ locals' \in SUBSET Accounts
  <2>1. Sender[t] \in Accounts
    BY TxAssumption
  <2>2. BeatsWithout(D) \in SUBSET Accounts
    BY <1>1, RemoveTypes
  <2>3. beats' = BeatsWithout(D) \cup {Sender[t]} /\ locals' = locals
    BY DEF ReplacePending
  <2>4. locals \in SUBSET Accounts
    BY DEF Listed, TypeOK
  <2> QED
    BY <2>1, <2>2, <2>3, <2>4
<1> QED
  BY <1>7, <1>8, <1>9, <1>10

\* A new transaction that enters the queue displaces at most a queued one.
LEMMA EnqueueListed ==
  ASSUME Listed, NEW t \in Txs, t \notin all, NEW local \in BOOLEAN, NEW loc \in BOOLEAN,
         NEW D, D \subseteq remoteTxs, EnqueueNew(t, local, loc, D)
  PROVE  /\ pending' \in SUBSET Txs /\ queue' \in SUBSET Txs
         /\ localTxs' \in SUBSET Txs /\ remoteTxs' \in SUBSET Txs
         /\ beats' \in SUBSET Accounts /\ locals' \in SUBSET Accounts
         /\ LookupExact' /\ OneTxPerNonce'
<1> DEFINE P == PendingWithout(D)
           Q == QueueWithout(D)
           old == Displaced(Q, {t})
           rem == ((remoteTxs \ D) \ old) \cup (IF loc THEN {} ELSE {t})
           migrated == IF locals' = locals THEN {} ELSE RemoteToLocals(rem, locals')
<1>1. D \subseteq all
  BY DEF all
<1>2. /\ P \cup Q = all \ D /\ P \cap Q = {}
      /\ \A S : LookupWithout(S, D) = S \ D
  <2> DEFINE R == Requeued(D)
  <2>1. P = pending \ (D \cup R) /\ Q = (queue \cup R) \ D /\ R \subseteq pending \ D
    BY <1>1, RemoveFacts
  <2>2. pending \cup queue = all /\ pending \cap queue = {}
    BY DEF Listed, LookupExact
  <2> HIDE DEF P, Q, R
  <2>3. P \cup Q = all \ D /\ P \cap Q = {}
    BY <2>1, <2>2
  <2> QED
    BY <1>1, <2>3, RemoveFacts DEF P, Q
<1>3. /\ pending' = P /\ queue' = (Q \ old) \cup {t}
      /\ localTxs' = ((localTxs \ D) \ old) \cup (IF loc THEN {t} ELSE {}) \cup migrated
      /\ remoteTxs' = rem \ migrated
  BY <1>2, ZenonT(60) DEF EnqueueNew, Tracked
<1>4. old \subseteq Q /\ \A o \in Q : SameSlot(o, t) => o \in old
  BY DEF EnqueueNew, Accepted, Displaced
<1>5. \A o \in P : ~SameSlot(o, t)
  BY DEF EnqueueNew, Overlaps
<1>6. migrated \subseteq rem
  BY DEF RemoteToLocals
<1>7. LookupExact'
  <2> HIDE DEF P, Q, old, migrated
  <2>1. localTxs \cap remoteTxs = {} /\ all = localTxs \cup remoteTxs
    BY DEF Listed, LookupExact, all
  <2>2. t \notin localTxs /\ t \notin remoteTxs
    BY <2>1
  <2>3. (pending \cup queue = all)'
    BY <1>2, <1>3, <1>4, <1>6, <2>1 DEF all
  <2>4. (pending \cap queue = {})'
    BY <1>2, <1>3, <1>4, <2>1
  <2>5. (localTxs \cap remoteTxs = {})'
    BY <1>3, <1>6, <2>1, <2>2
  <2> QED
    BY <2>3, <2>4, <2>5 DEF LookupExact
<1>8. OneTxPerNonce'
  <2>1. ASSUME NEW u \in pending' \cup queue', NEW v \in pending' \cup queue', SameSlot(u, v)
        PROVE  u = v
    <3>1. CASE u # t /\ v # t
      BY <3>1, <2>1, <1>2, <1>3 DEF Listed, LookupExact, OneTxPerNonce
    <3>2. CASE u = t /\ v # t
      BY <3>2, <2>1, <1>3, <1>4, <1>5 DEF SameSlot
    <3>3. CASE u # t /\ v = t
      BY <3>3, <2>1, <1>3, <1>4, <1>5
    <3> QED
      BY <3>1, <3>2, <3>3
  <2> QED
    BY <2>1 DEF OneTxPerNonce, SameSlot
<1>9. /\ pending' \in SUBSET Txs /\ queue' \in SUBSET Txs
      /\ localTxs' \in SUBSET Txs /\ remoteTxs' \in SUBSET Txs
  BY <1>1, <1>3, <1>6, RemoveTypes, ZenonT(60) DEF Listed, TypeOK
<1>10. beats' \in SUBSET Accounts /\ locals' \in SUBSET Accounts
  <2>1. Sender[t] \in Accounts
    BY TxAssumption
  <2>2. BeatsWithout(D) \in SUBSET Accounts
    BY <1>1, RemoveTypes
  <2>3. beats' = BeatsWithout(D) \cup {Sender[t]} /\ locals' \in {locals, locals \cup {Sender[t]}}
    BY DEF EnqueueNew
  <2>4. locals \in SUBSET Accounts
    BY DEF Listed, TypeOK
  <2> QED
    BY <2>1, <2>2, <2>3, <2>4
<1> QED
  BY <1>7, <1>8, <1>9, <1>10


\* Whatever add does with a transaction, lists and lookup stay in step.
LEMMA AddListed ==
  ASSUME Listed, NEW t \in Txs, NEW local \in BOOLEAN,
         NEW D \in DropSets(t, isLocal(t, local)), add(t, local, D)
  PROVE  /\ PoolTyped' /\ locals' \in SUBSET Accounts /\ changes' \in Nat
         /\ LookupExact' /\ OneTxPerNonce'
<1>1. isLocal(t, local) \in BOOLEAN
  BY DEF isLocal
<1>2. t \notin all /\ D \subseteq remoteTxs /\ Cardinality(D) \in Nat
  BY <1>1, DropFacts DEF Listed
<1>3. D \subseteq all
  BY <1>2 DEF all
<1>4. pendingNonces' \in [Accounts -> Nat] /\ changes' \in Nat
  BY <1>2, <1>3, RemoveTypes DEF add, Listed, TypeOK
<1>5. CASE ReplacePending(t, isLocal(t, local), D)
  BY <1>1, <1>2, <1>4, <1>5, ReplaceListed DEF PoolTyped
<1>6. CASE EnqueueNew(t, local, isLocal(t, local), D)
  BY <1>1, <1>2, <1>4, <1>6, EnqueueListed DEF PoolTyped
<1>7. CASE RejectReplacement(t, D)
  <2>1. RemoveTxs(D) /\ locals' = locals
    BY <1>7 DEF RejectReplacement, RemoveTxs, add
  <2> QED
    BY <1>3, <1>4, <2>1, RemoveListed DEF Listed, TypeOK
<1> QED
  BY <1>5, <1>6, <1>7 DEF add

\* promoteExecutables moves due transactions to pending, where their nonces
\* are free, and forgets exactly what it drops.
LEMMA PromoteListed ==
  ASSUME Listed, promoteExecutables
  PROVE  Listed'
<1> DEFINE A == IF resetting THEN Senders(queue) ELSE promoteAddrs
           dropped == {t \in queue : Sender[t] \in A /\ (Stale(t) \/ ~Payable(t))}
           kept == queue \ dropped
           readies == UNION {Ready(ListOf(kept, a), pendingNonces[a]) : a \in A}
           rest == kept \ readies
           caps == UNION {Cap(ListOf(rest, a), AccountQueue) : a \in A \ locals}
           promoted == Accepted(pending, readies)
<1>1. /\ pending \cup queue = all /\ pending \cap queue = {}
      /\ localTxs \cap remoteTxs = {} /\ all = localTxs \cup remoteTxs
  BY DEF Listed, LookupExact, all
<1>2. readies \subseteq kept
  BY DEF Ready, ListOf
<1>3. caps \subseteq rest
  BY ZenonT(60) DEF Cap, ListOf
<1>4. \A o \in pending, t \in readies : ~SameSlot(o, t)
  BY <1>1, <1>2 DEF Listed, OneTxPerNonce
<1>5. Displaced(pending, readies) = {} /\ Accepted(pending, readies) = readies
  BY <1>4 DEF Displaced, Accepted
<1>6. /\ pending' = pending \cup readies
      /\ queue' = rest \ caps
      /\ localTxs' = localTxs \ (dropped \cup caps)
      /\ remoteTxs' = remoteTxs \ (dropped \cup caps)
  <2>1. /\ pending' = ListAdd(pending, readies)
        /\ queue' = rest \ caps
        /\ localTxs' = localTxs \ (dropped \cup caps \cup (readies \ promoted)
                                     \cup Displaced(pending, readies))
        /\ remoteTxs' = remoteTxs \ (dropped \cup caps \cup (readies \ promoted)
                                     \cup Displaced(pending, readies))
    BY ZenonT(60) DEF promoteExecutables
  <2> HIDE DEF readies, rest, caps, dropped
  <2> QED
    BY <2>1, <1>5 DEF ListAdd
<1>7. LookupExact'
  <2>1. dropped \subseteq queue
    OBVIOUS
  <2> HIDE DEF dropped, readies, caps
  <2>2. (pending \cup queue = all)'
    BY <1>1, <1>2, <1>3, <1>6, <2>1 DEF all
  <2>3. (pending \cap queue = {})' /\ (localTxs \cap remoteTxs = {})'
    BY <1>1, <1>2, <1>3, <1>6, <2>1
  <2> QED
    BY <2>2, <2>3 DEF LookupExact
<1>8. pending' \cup queue' \subseteq pending \cup queue
  BY <1>2, <1>6, ZenonT(60)
<1>9. OneTxPerNonce'
  BY <1>8 DEF OneTxPerNonce, Listed, SameSlot
<1>10. pendingNonces' \in [Accounts -> Nat]
  <2>1. promoted \subseteq Txs
    BY <1>2, <1>5, ZenonT(60) DEF Listed, TypeOK
  <2> HIDE DEF promoted
  <2>2. ASSUME NEW a \in Accounts, ListOf(promoted, a) # {}
        PROVE  1 + Max({Nonce[t] : t \in ListOf(promoted, a)}) \in Nat
    <3> DEFINE N == {Nonce[t] : t \in ListOf(promoted, a)}
    <3>1. N \in SUBSET Nat /\ N # {} /\ \A n \in N : n <= MaxNonce
      BY <2>1, <2>2, TxAssumption DEF ListOf
    <3> HIDE DEF N
    <3>2. Max(N) \in Nat
      BY <3>1, MaxNat, TxAssumption, ZenonT(60)
    <3>3. 1 + Max(N) \in Nat
      BY <3>2
    <3> QED
      BY <3>3, ZenonT(60) DEF N
  <2>3. pendingNonces' =
          [a \in Accounts |-> IF ListOf(promoted, a) = {} THEN pendingNonces[a]
                              ELSE 1 + Max({Nonce[t] : t \in ListOf(promoted, a)})]
    BY ZenonT(60) DEF promoteExecutables, promoted
  <2> QED
    BY <2>2, <2>3 DEF Listed, TypeOK
<1>11. beats' \in SUBSET Accounts
  <2>1. promoted \subseteq Txs
    BY <1>2, <1>5, ZenonT(60) DEF Listed, TypeOK
  <2>2. Senders(promoted) \subseteq Accounts
    BY <2>1, TxAssumption, ZenonT(60) DEF Senders
  <2> QED
    BY <2>2, ZenonT(60) DEF promoteExecutables, Listed, TypeOK
<1>12. TypeOK'
  <2>1. pending' \in SUBSET Txs /\ queue' \in SUBSET Txs
    BY <1>8 DEF Listed, TypeOK
  <2>2. localTxs' \in SUBSET Txs /\ remoteTxs' \in SUBSET Txs
    BY <1>6 DEF Listed, TypeOK
  <2>3. phase' \in Phases /\ promoteAddrs' \in SUBSET Accounts
    BY ZenonT(60) DEF promoteExecutables, Phases
  <2>4. UNCHANGED <<currentState, locals, gasPrice, changes, dirty, resetting, reinject, offenders>>
    BY ZenonT(60) DEF promoteExecutables
  <2> QED
    BY <1>10, <1>11, <2>1, <2>2, <2>3, <2>4 DEF Listed, TypeOK
<1> QED
  BY <1>7, <1>9, <1>12 DEF Listed


\* demoteUnexecutables moves what cannot be executed yet back to the queue,
\* where its nonces are free, and forgets exactly what it drops.
LEMMA DemoteListed ==
  ASSUME Listed, demoteUnexecutables
  PROVE  Listed'
<1> DEFINE olds == {t \in pending : Stale(t)}
           drops == {t \in pending \ olds : ~Payable(t)}
           invalids == Invalidated(pending \ olds, drops)
           left == pending \ (olds \cup drops \cup invalids)
           back == invalids \cup Gapped(left)
<1>1. /\ pending \cup queue = all /\ pending \cap queue = {}
      /\ localTxs \cap remoteTxs = {} /\ all = localTxs \cup remoteTxs
  BY DEF Listed, LookupExact, all
<1>2. /\ olds \subseteq pending /\ drops \subseteq pending \ olds
      /\ invalids \subseteq (pending \ olds) \ drops
      /\ Gapped(left) \subseteq left
  BY ZenonT(60) DEF Invalidated, Gapped
<1>3. \A o \in queue, t \in back : ~SameSlot(o, t)
  BY <1>1, <1>2, ZenonT(60) DEF Listed, OneTxPerNonce
<1>4. Displaced(queue, back) = {} /\ Accepted(queue, back) = back
  BY <1>3, ZenonT(60) DEF Displaced, Accepted
<1>5. /\ pending' = left \ Gapped(left)
      /\ queue' = queue \cup back
      /\ localTxs' = localTxs \ (olds \cup drops)
      /\ remoteTxs' = remoteTxs \ (olds \cup drops)
  <2>1. /\ pending' = left \ Gapped(left)
        /\ queue' = ListAdd(queue, back)
        /\ localTxs' = localTxs \ (olds \cup drops \cup Displaced(queue, back))
        /\ remoteTxs' = remoteTxs \ (olds \cup drops \cup Displaced(queue, back))
    BY ZenonT(60) DEF demoteUnexecutables
  <2> HIDE DEF olds, drops, left, back
  <2> QED
    BY <2>1, <1>4 DEF ListAdd
<1>6. LookupExact'
  <2> DEFINE G == Gapped(left)
  <2>1. left = pending \ (olds \cup drops \cup invalids) /\ back = invalids \cup G
    OBVIOUS
  <2> HIDE DEF olds, drops, invalids, left, back, G
  <2>2. (pending \cup queue = all)'
    BY <1>1, <1>2, <1>5, <2>1 DEF all, G
  <2>3. (pending \cap queue = {})' /\ (localTxs \cap remoteTxs = {})'
    BY <1>1, <1>2, <1>5, <2>1 DEF G
  <2> QED
    BY <2>2, <2>3 DEF LookupExact
<1>7. pending' \cup queue' \subseteq pending \cup queue
  BY <1>2, <1>5, ZenonT(60)
<1>8. OneTxPerNonce'
  BY <1>7 DEF OneTxPerNonce, Listed, SameSlot
<1>9. pendingNonces' \in [Accounts -> Nat]
  <2>1. pending' \subseteq Txs
    BY <1>7 DEF Listed, TypeOK
  <2>2. ASSUME NEW a \in Accounts, ListOf(pending', a) # {}
        PROVE  1 + Max({Nonce[t] : t \in ListOf(pending', a)}) \in Nat
    <3> DEFINE N == {Nonce[t] : t \in ListOf(pending', a)}
    <3>1. N \in SUBSET Nat /\ N # {} /\ \A n \in N : n <= MaxNonce
      BY <2>1, <2>2, TxAssumption DEF ListOf
    <3> HIDE DEF N
    <3>2. Max(N) \in Nat
      BY <3>1, MaxNat, TxAssumption, ZenonT(60)
    <3>3. 1 + Max(N) \in Nat
      BY <3>2
    <3> QED
      BY <3>3, ZenonT(60) DEF N
  <2>3. pendingNonces' =
          [a \in Accounts |-> IF ListOf(pending', a) = {} THEN currentState.nonce[a]
                              ELSE 1 + Max({Nonce[t] : t \in ListOf(pending', a)})]
    BY ZenonT(60) DEF demoteUnexecutables
  <2>4. currentState.nonce \in [Accounts -> Nat]
    BY StateAssumption DEF Listed, TypeOK
  <2> QED
    BY <2>2, <2>3, <2>4
<1>10. beats' \in SUBSET Accounts
  <2>1. back \subseteq Txs
    BY <1>2, ZenonT(60) DEF Listed, TypeOK
  <2> HIDE DEF back
  <2>2. Senders(back) \subseteq Accounts
    BY <2>1, TxAssumption DEF Senders
  <2>3. beats' = beats \cup Senders(Accepted(queue, back))
    BY ZenonT(60) DEF demoteUnexecutables, back
  <2> QED
    BY <1>4, <2>2, <2>3 DEF Listed, TypeOK
<1>11. TypeOK'
  <2>1. pending' \in SUBSET Txs /\ queue' \in SUBSET Txs
    BY <1>7 DEF Listed, TypeOK
  <2>2. localTxs' \in SUBSET Txs /\ remoteTxs' \in SUBSET Txs
    BY <1>5 DEF Listed, TypeOK
  <2>3. phase' \in Phases
    BY ZenonT(60) DEF demoteUnexecutables, Phases
  <2>4. UNCHANGED <<currentState, locals, gasPrice, changes, dirty, resetting, reinject,
                    promoteAddrs, offenders>>
    BY ZenonT(60) DEF demoteUnexecutables
  <2> QED
    BY <1>9, <1>10, <2>1, <2>2, <2>3, <2>4 DEF Listed, TypeOK
<1> QED
  BY <1>6, <1>8, <1>11 DEF Listed

\* Truncating pending forgets exactly what it takes out of the lists.
LEMMA CapOneListed ==
  ASSUME Listed, NEW A, CapOne(A)
  PROVE  Listed'
<1> DEFINE caps == UNION {Highest(ListOf(pending, a), 1) : a \in A}
<1>1. /\ pending \cup queue = all /\ pending \cap queue = {}
      /\ localTxs \cap remoteTxs = {} /\ all = localTxs \cup remoteTxs
  BY DEF Listed, LookupExact, all
<1>2. caps \subseteq pending
  BY ZenonT(60) DEF Highest, ListOf
<1>3. /\ pending' = pending \ caps /\ queue' = queue
      /\ localTxs' = localTxs \ caps /\ remoteTxs' = remoteTxs \ caps
  BY DEF CapOne
<1>4. LookupExact'
  <2> HIDE DEF caps
  <2> QED
    BY <1>1, <1>2, <1>3 DEF LookupExact, all
<1>5. OneTxPerNonce'
  BY <1>3 DEF OneTxPerNonce, Listed, SameSlot
<1>6. pendingNonces' \in [Accounts -> Nat]
  <2>1. ASSUME NEW a \in Accounts
        PROVE  Min({pendingNonces[a]} \cup {Nonce[t] : t \in ListOf(caps, a)}) \in Nat
    <3> HIDE DEF caps
    <3>1. {pendingNonces[a]} \cup {Nonce[t] : t \in ListOf(caps, a)} \in SUBSET Nat
      BY <1>2, TxAssumption DEF Listed, TypeOK, ListOf
    <3> QED
      BY <3>1, MinNat
  <2>2. pendingNonces' =
          [a \in Accounts |-> Min({pendingNonces[a]} \cup {Nonce[t] : t \in ListOf(caps, a)})]
    BY DEF CapOne
  <2> QED
    BY <2>1, <2>2
<1>7. TypeOK'
  <2> HIDE DEF caps
  <2>1. UNCHANGED <<currentState, locals, beats, gasPrice, changes, dirty, runVars>>
    BY DEF CapOne
  <2> QED
    BY <1>3, <1>6, <2>1 DEF Listed, TypeOK, runVars
<1> QED
  BY <1>4, <1>5, <1>7 DEF Listed


-----------------------------------------------------------------------------
(* Theorems. *)

\* The empty pool has an exact lookup.
LEMMA InitListed == Init => Listed
<1> SUFFICES ASSUME Init PROVE Listed
  OBVIOUS
<1>1. currentState.nonce \in [Accounts -> Nat]
  BY StateAssumption DEF Init
<1>2. gasPrice \in Nat
  BY StateAssumption DEF Init
<1>3. offenders \in Seq(Accounts) /\ pendingNonces \in [Accounts -> Nat]
  BY <1>1 DEF Init
<1>4. TypeOK
  BY <1>2, <1>3, ZenonT(60) DEF Init, TypeOK, Phases
<1>5. LookupExact /\ OneTxPerNonce
  BY DEF Init, LookupExact, OneTxPerNonce, all
<1> QED
  BY <1>4, <1>5 DEF Listed

\* Additions, and every phase of runReorg, keep the lookup exact and the nonces
\* of an account distinct.
LEMMA NextListed == Listed /\ [Next]_vars => Listed'
<1> SUFFICES ASSUME Listed, [Next]_vars PROVE Listed'
  OBVIOUS
<1> DEFINE Lists == <<pending, queue, lookupVars>>
<1>0. ASSUME UNCHANGED Lists PROVE LookupExact' /\ OneTxPerNonce'
  BY <1>0 DEF Listed, LookupExact, OneTxPerNonce, all, lookupVars, SameSlot
<1>1. ASSUME NEW t \in Txs, NEW local \in BOOLEAN, AddTx(t, local) PROVE Listed'
  <2>1. PICK D \in DropSets(t, isLocal(t, local)) :
          /\ add(t, local, D)
          /\ dirty' = IF t \in queue' /\ Displaced(QueueWithout(D), {t}) = {}
                        THEN dirty \cup {Sender[t]} ELSE dirty
    BY <1>1 DEF AddTx
  <2>2. dirty' \in SUBSET Accounts
    BY <2>1, TxAssumption DEF Listed, TypeOK
  <2>3. UNCHANGED <<currentState, gasPrice, runVars>>
    BY <1>1 DEF AddTx
  <2>4. /\ PoolTyped' /\ locals' \in SUBSET Accounts /\ changes' \in Nat
        /\ LookupExact' /\ OneTxPerNonce'
    BY <2>1, AddListed
  <2> QED
    BY <2>2, <2>3, <2>4 DEF Listed, TypeOK, PoolTyped, runVars
<1>2. ASSUME NEW price \in GasPrices, SetGasPrice(price) PROVE Listed'
  <2> DEFINE D == IF price > gasPrice THEN {t \in remoteTxs : Price[t] < price} ELSE {}
  <2>1. D \subseteq all
    BY DEF all
  <2>2. RemoveTxs(D)
    BY <1>2 DEF SetGasPrice
  <2>3. gasPrice' \in Nat /\ UNCHANGED <<currentState, locals, changes, dirty, runVars>>
    BY <1>2, StateAssumption DEF SetGasPrice
  <2> HIDE DEF D
  <2>4. PoolTyped' /\ LookupExact' /\ OneTxPerNonce'
    BY <2>1, <2>2, RemoveListed
  <2> QED
    BY <2>3, <2>4 DEF Listed, TypeOK, PoolTyped, runVars
<1>3. ASSUME NEW A \in SUBSET Accounts, Evict(A) PROVE Listed'
  <2> DEFINE D == {t \in queue : Sender[t] \in A \ locals}
  <2>1. D \subseteq all
    BY DEF Listed, LookupExact
  <2>2. RemoveTxs(D) /\ UNCHANGED <<currentState, locals, gasPrice, changes, dirty, runVars>>
    BY <1>3 DEF Evict
  <2> HIDE DEF D
  <2>3. PoolTyped' /\ LookupExact' /\ OneTxPerNonce'
    BY <2>1, <2>2, RemoveListed
  <2> QED
    BY <2>2, <2>3 DEF Listed, TypeOK, PoolTyped, runVars
<1>4. ASSUME NEW D \in SUBSET dirty, StartPromote(D) PROVE Listed'
  <2>1. UNCHANGED Lists
    BY <1>4 DEF StartPromote
  <2>2. TypeOK'
    BY <1>4 DEF StartPromote, Listed, TypeOK, lookupVars, Phases
  <2> QED
    BY <1>0, <2>1, <2>2 DEF Listed
<1>5. ASSUME NEW s \in States, NEW R \in Reinjectable(s), NEW D \in SUBSET dirty,
             StartReset(s, R, D)
      PROVE  Listed'
  <2>1. UNCHANGED Lists
    BY <1>5 DEF StartReset
  <2>2. s.nonce \in [Accounts -> Nat] /\ R \in SUBSET Txs
    BY StateAssumption DEF Reinjectable
  <2>3. TypeOK'
    BY <1>5, <2>2 DEF StartReset, Listed, TypeOK, lookupVars, Phases
  <2> QED
    BY <1>0, <2>1, <2>3 DEF Listed
<1>6. ASSUME NEW D \in SUBSET dirty, StartAbortedReset(D) PROVE Listed'
  <2>1. UNCHANGED Lists
    BY <1>6 DEF StartAbortedReset
  <2>2. TypeOK'
    BY <1>6 DEF StartAbortedReset, Listed, TypeOK, lookupVars, Phases
  <2> QED
    BY <1>0, <2>1, <2>2 DEF Listed
<1>7. ASSUME NEW t \in reinject, Reinject(t) PROVE Listed'
  <2>1. t \in Txs /\ reinject' \in SUBSET Txs
    BY <1>7 DEF Reinject, Listed, TypeOK
  <2>2. UNCHANGED <<currentState, gasPrice, dirty, phase, resetting, promoteAddrs, offenders>>
    BY <1>7 DEF Reinject
  <2>3. CASE UNCHANGED <<pending, queue, lookupVars, locals, beats, pendingNonces, changes>>
    <3>1. UNCHANGED Lists
      BY <2>3
    <3>2. TypeOK'
      BY <2>1, <2>2, <2>3 DEF Listed, TypeOK, lookupVars
    <3> QED
      BY <1>0, <3>1, <3>2 DEF Listed
  <2>4. ASSUME NEW D \in DropSets(t, isLocal(t, FALSE)), add(t, FALSE, D) PROVE Listed'
    <3>1. /\ PoolTyped' /\ locals' \in SUBSET Accounts /\ changes' \in Nat
          /\ LookupExact' /\ OneTxPerNonce'
      BY <2>1, <2>4, AddListed, ZenonT(60)
    <3> QED
      BY <2>1, <2>2, <3>1 DEF Listed, TypeOK, PoolTyped
  <2> QED
    BY <1>7, <2>3, <2>4, ZenonT(60) DEF Reinject
<1>8. CASE PopOffender
  <2>1. UNCHANGED Lists
    BY <1>8 DEF PopOffender
  <2>2. PICK a \in Spammers : offenders' = Append(offenders, a)
    BY <1>8 DEF PopOffender
  <2>3. a \in Accounts
    BY DEF Spammers
  <2>4. offenders' \in Seq(Accounts)
    BY <2>2, <2>3 DEF Listed, TypeOK
  <2>5. TypeOK'
    BY <1>8, <2>4 DEF PopOffender, Listed, TypeOK, lookupVars
  <2> QED
    BY <1>0, <2>1, <2>5 DEF Listed
<1>9. CASE EqualizeOffenders
  BY <1>9, CapOneListed DEF EqualizeOffenders
<1>10. CASE ReduceOffenders
  BY <1>10, CapOneListed DEF ReduceOffenders
<1>11. CASE PendingTruncated
  <2>1. UNCHANGED Lists
    BY <1>11 DEF PendingTruncated
  <2>2. TypeOK'
    BY <1>11 DEF PendingTruncated, Listed, TypeOK, lookupVars, Phases
  <2> QED
    BY <1>0, <2>1, <2>2 DEF Listed
<1>12. ASSUME NEW a \in Accounts, TruncateQueueOf(a) PROVE Listed'
  <2> DEFINE D == Highest(ListOf(queue, a), Surplus)
  <2>1. D \subseteq all
    BY DEF Listed, LookupExact, Highest, ListOf
  <2>2. RemoveTxs(D) /\ UNCHANGED <<currentState, locals, gasPrice, changes, dirty, runVars>>
    BY <1>12 DEF TruncateQueueOf
  <2> HIDE DEF D
  <2>3. PoolTyped' /\ LookupExact' /\ OneTxPerNonce'
    BY <2>1, <2>2, RemoveListed
  <2> QED
    BY <2>2, <2>3 DEF Listed, TypeOK, PoolTyped, runVars
<1>13. CASE ReorgDone
  <2>1. UNCHANGED Lists
    BY <1>13 DEF ReorgDone
  <2>2. TypeOK'
    BY <1>13, ZenonT(60) DEF ReorgDone, Listed, TypeOK, lookupVars, Phases
  <2> QED
    BY <1>0, <2>1, <2>2 DEF Listed
<1>14. CASE UNCHANGED vars
  <2>1. UNCHANGED Lists
    BY <1>14 DEF vars
  <2>2. TypeOK'
    BY <1>14 DEF vars, Listed, TypeOK, lookupVars, runVars
  <2> QED
    BY <1>0, <2>1, <2>2 DEF Listed
<1> QED
  BY <1>1, <1>2, <1>3, <1>4, <1>5, <1>6, <1>7, <1>8, <1>9, <1>10, <1>11, <1>12, <1>13, <1>14,
     PromoteListed, DemoteListed DEF Next

\* In every reachable state the variables of the pool have their types.
THEOREM TypeCorrect == Spec => []TypeOK
<1>1. Listed => TypeOK
  BY DEF Listed
<1> QED
  BY <1>1, InitListed, NextListed, PTL DEF Spec

\* The lookup set always holds exactly the transactions of the lists, each in
\* one list only, and an account never has two transactions with one nonce.
THEOREM ListsAndLookupAgree == Spec => [](LookupExact /\ OneTxPerNonce)
<1>1. Listed => LookupExact /\ OneTxPerNonce
  BY DEF Listed
<1> QED
  BY <1>1, InitListed, NextListed, PTL DEF Spec

-----------------------------------------------------------------------------
(* Local accounts. *)

\* The price heaps hold no transaction of a local account, and no local account
\* is popped by truncatePending.
Apart ==
  /\ \A r \in remoteTxs : Sender[r] \notin locals
  /\ \A i \in 1..Len(offenders) : offenders[i] \notin locals
  /\ phase # "truncatePending" => offenders = <<>>

\* What the step takes away from a local account it may.
Kept ==
  \A t \in all \ all' :
    Sender[t] \in locals =>
      \/ \E u \in all' : SameSlot(t, u) /\ Bumps(u, t)
      \/ phase \in {"promote", "demote"} /\ (Stale(t) \/ ~Payable(t))

\* add drops remote transactions and what the new one beats, and an account that
\* becomes local takes its remote transactions along.
LEMMA AddKept ==
  ASSUME Listed, Apart, NEW t \in Txs, NEW local \in BOOLEAN,
         NEW D \in DropSets(t, isLocal(t, local)), add(t, local, D)
  PROVE  Kept /\ \A r \in remoteTxs' : Sender[r] \notin locals'
<1>1. isLocal(t, local) \in BOOLEAN
  BY DEF isLocal
<1>2. D \subseteq remoteTxs /\ D \subseteq all
  BY <1>1, DropFacts DEF Listed, all
<1>3. \A S : LookupWithout(S, D) = S \ D
  BY <1>2, RemoveFacts
<1>4. \A o \in D : Sender[o] \notin locals
  BY <1>2 DEF Apart
<1>5. ASSUME NEW old, \A o \in old : SameSlot(o, t) /\ Bumps(t, o),
             all' = ((all \ D) \ old) \cup {t}
      PROVE  Kept
  <2>1. ASSUME NEW o \in all \ all', Sender[o] \in locals
        PROVE  \E u \in all' : SameSlot(o, u) /\ Bumps(u, o)
    <3>1. o \in old /\ t \in all'
      BY <1>4, <1>5, <2>1
    <3> QED BY <1>5, <3>1
  <2> QED BY <2>1 DEF Kept
<1>6. CASE ReplacePending(t, isLocal(t, local), D)
  <2> DEFINE old == Displaced(PendingWithout(D), {t})
  <2>1. /\ localTxs' = ((localTxs \ D) \ old) \cup (IF isLocal(t, local) THEN {t} ELSE {})
        /\ remoteTxs' = ((remoteTxs \ D) \ old) \cup (IF isLocal(t, local) THEN {} ELSE {t})
        /\ locals' = locals
    BY <1>3, <1>6 DEF ReplacePending, Tracked
  <2>2. \A o \in old : SameSlot(o, t) /\ Bumps(t, o)
    BY DEF Displaced
  <2> HIDE DEF old
  <2>3. all' = ((all \ D) \ old) \cup {t}
    BY <2>1 DEF all
  <2>4. \A r \in remoteTxs' : Sender[r] \notin locals'
    BY <2>1 DEF Apart, isLocal
  <2> QED BY <1>5, <2>2, <2>3, <2>4
<1>7. CASE EnqueueNew(t, local, isLocal(t, local), D)
  <2> DEFINE old == Displaced(QueueWithout(D), {t})
             rem == ((remoteTxs \ D) \ old) \cup (IF isLocal(t, local) THEN {} ELSE {t})
             migrated == IF locals' = locals THEN {} ELSE RemoteToLocals(rem, locals')
  <2>1. /\ localTxs' = ((localTxs \ D) \ old) \cup (IF isLocal(t, local) THEN {t} ELSE {}) \cup migrated
        /\ remoteTxs' = rem \ migrated
    BY <1>3, <1>7, ZenonT(60) DEF EnqueueNew, Tracked
  <2>2. \A o \in old : SameSlot(o, t) /\ Bumps(t, o)
    BY DEF Displaced
  <2>3. migrated \subseteq rem
    BY DEF RemoteToLocals
  <2> HIDE DEF old
  <2>4. all' = ((all \ D) \ old) \cup {t}
    <3> HIDE DEF migrated
    <3> QED BY <2>1, <2>3 DEF all
  <2>5. \A r \in remoteTxs' : Sender[r] \notin locals'
    <3>1. CASE locals' = locals
      BY <2>1, <3>1 DEF Apart, isLocal
    <3>2. CASE locals' # locals
      BY <2>1, <3>2 DEF RemoteToLocals
    <3> QED BY <3>1, <3>2
  <2> QED BY <1>5, <2>2, <2>4, <2>5
<1>8. CASE RejectReplacement(t, D)
  <2>1. localTxs' = localTxs \ D /\ remoteTxs' = remoteTxs \ D /\ locals' = locals
    BY <1>3, <1>8 DEF RejectReplacement
  <2> QED BY <1>4, <2>1 DEF Kept, Apart, all
<1> QED BY <1>6, <1>7, <1>8 DEF add

\* removeTx takes what it is told to.
LEMMA RemoveKept ==
  ASSUME Listed, Apart, NEW D, D \subseteq all, \A o \in D : Sender[o] \notin locals,
         RemoveTxs(D), locals' = locals
  PROVE  Kept /\ \A r \in remoteTxs' : Sender[r] \notin locals'
<1>1. localTxs' = localTxs \ D /\ remoteTxs' = remoteTxs \ D
  BY RemoveFacts DEF RemoveTxs
<1> QED BY <1>1 DEF Kept, Apart, all

\* promoteExecutables finds the nonces in pending free, so that it only drops
\* what is stale or unpayable, and above the limit what is not local.
LEMMA PromoteKept ==
  ASSUME Listed, Apart, promoteExecutables
  PROVE  Kept /\ \A r \in remoteTxs' : Sender[r] \notin locals'
<1> DEFINE A == IF resetting THEN Senders(queue) ELSE promoteAddrs
           dropped == {t \in queue : Sender[t] \in A /\ (Stale(t) \/ ~Payable(t))}
           kept == queue \ dropped
           readies == UNION {Ready(ListOf(kept, a), pendingNonces[a]) : a \in A}
           rest == kept \ readies
           caps == UNION {Cap(ListOf(rest, a), AccountQueue) : a \in A \ locals}
           promoted == Accepted(pending, readies)
<1>1. \A o \in pending, t \in readies : ~SameSlot(o, t)
  <2>1. readies \subseteq queue
    BY DEF Ready, ListOf
  <2> HIDE DEF readies
  <2> QED BY <2>1 DEF Listed, OneTxPerNonce, LookupExact
<1>2. Displaced(pending, readies) = {} /\ promoted = readies
  BY <1>1 DEF Displaced, Accepted
<1>3. \A t \in caps : Sender[t] \notin locals
  BY ZenonT(60) DEF Cap, ListOf
<1>4. /\ localTxs' = localTxs \ (dropped \cup caps \cup (readies \ promoted) \cup Displaced(pending, readies))
      /\ remoteTxs' = remoteTxs \ (dropped \cup caps \cup (readies \ promoted) \cup Displaced(pending, readies))
      /\ locals' = locals /\ phase = "promote"
  BY ZenonT(60) DEF promoteExecutables
<1>5. \A t \in dropped : Stale(t) \/ ~Payable(t)
  OBVIOUS
<1> HIDE DEF dropped, readies, caps, promoted
<1>6. all \ all' \subseteq dropped \cup caps /\ remoteTxs' \subseteq remoteTxs
  BY <1>2, <1>4 DEF all
<1>7. Kept
  BY <1>3, <1>4, <1>5, <1>6 DEF Kept
<1> QED BY <1>4, <1>6, <1>7 DEF Apart

\* demoteUnexecutables finds the nonces in the queue free.
LEMMA DemoteKept ==
  ASSUME Listed, Apart, demoteUnexecutables
  PROVE  Kept /\ \A r \in remoteTxs' : Sender[r] \notin locals'
<1> DEFINE olds == {t \in pending : Stale(t)}
           drops == {t \in pending \ olds : ~Payable(t)}
           invalids == Invalidated(pending \ olds, drops)
           left == pending \ (olds \cup drops \cup invalids)
           back == invalids \cup Gapped(left)
<1>1. \A o \in queue, t \in back : ~SameSlot(o, t)
  <2>1. back \subseteq pending
    BY ZenonT(60) DEF Invalidated, Gapped
  <2> HIDE DEF back
  <2> QED BY <2>1 DEF Listed, OneTxPerNonce, LookupExact
<1>2. Displaced(queue, back) = {}
  BY <1>1, ZenonT(60) DEF Displaced
<1>3. /\ localTxs' = localTxs \ (olds \cup drops \cup Displaced(queue, back))
      /\ remoteTxs' = remoteTxs \ (olds \cup drops \cup Displaced(queue, back))
      /\ locals' = locals /\ phase = "demote"
  BY ZenonT(60) DEF demoteUnexecutables
<1>4. \A t \in olds \cup drops : Stale(t) \/ ~Payable(t)
  OBVIOUS
<1> HIDE DEF olds, drops, back
<1>5. all \ all' \subseteq olds \cup drops /\ remoteTxs' \subseteq remoteTxs
  BY <1>2, <1>3 DEF all
<1>6. Kept
  BY <1>3, <1>4, <1>5 DEF Kept
<1> QED BY <1>3, <1>5, <1>6 DEF Apart

\* truncatePending takes from the accounts it has popped.
LEMMA CapOneKept ==
  ASSUME Listed, Apart, NEW A, \A a \in A : a \notin locals, CapOne(A)
  PROVE  Kept /\ \A r \in remoteTxs' : Sender[r] \notin locals'
<1> DEFINE caps == UNION {Highest(ListOf(pending, a), 1) : a \in A}
<1>1. \A t \in caps : Sender[t] \notin locals
  BY ZenonT(60) DEF Highest, ListOf
<1>2. localTxs' = localTxs \ caps /\ remoteTxs' = remoteTxs \ caps /\ locals' = locals
  BY DEF CapOne
<1> HIDE DEF caps
<1> QED BY <1>1, <1>2 DEF Kept, Apart, all

-----------------------------------------------------------------------------
(* What pending offers. *)

\* The list P of an account begins with its nonce; without a list the virtual
\* nonce has not run ahead.
Due(P, nonces, a) ==
  IF ListOf(P, a) = {} THEN nonces[a] <= currentState.nonce[a]
  ELSE \E u \in ListOf(P, a) : Nonce[u] = currentState.nonce[a]

Executable(P, nonces) ==
  /\ \A t \in P : Payable(t) /\ ~Stale(t)
  /\ \A a \in Accounts : Due(P, nonces, a)

\* Only between a reset and its demoteUnexecutables pending may be out of date.
Offered ==
  /\ phase = "idle" => ~resetting
  /\ ~(resetting /\ phase \in {"promote", "demote"}) => Executable(pending, pendingNonces)

\* The numbers that are compared.
LEMMA Numbers ==
  ASSUME Listed
  PROVE  /\ \A t \in Txs : Nonce[t] \in Nat /\ Sender[t] \in Accounts
         /\ \A a \in Accounts : pendingNonces[a] \in Nat /\ currentState.nonce[a] \in Nat
<1>1. currentState.nonce \in [Accounts -> Nat]
  BY StateAssumption DEF Listed, TypeOK
<1> QED BY <1>1, TxAssumption DEF Listed, TypeOK

\* removeTx takes a whole list if it takes its front, and then lowers the virtual
\* nonce to it.
LEMMA RemoveExecutable ==
  ASSUME Listed, Executable(pending, pendingNonces), NEW D, D \subseteq all
  PROVE  Executable(PendingWithout(D), NoncesWithout(D))
<1>1. /\ PendingHits(D) = D \cap pending /\ Requeued(D) \subseteq pending \ D
      /\ PendingWithout(D) = pending \ (D \cup Requeued(D))
  BY RemoveFacts
<1>2. Requeued(D) = {t \in pending \ D : \E d \in D \cap pending : Sender[d] = Sender[t] /\ Nonce[d] < Nonce[t]}
  BY <1>1 DEF Requeued, Invalidated
<1>3. pending \in SUBSET Txs
  BY DEF Listed, TypeOK
<1>4. ASSUME NEW a \in Accounts PROVE Due(PendingWithout(D), NoncesWithout(D), a)
  <2> DEFINE S == {pendingNonces[a]} \cup {Nonce[p] : p \in ListOf(PendingHits(D), a)}
  <2>1. NoncesWithout(D)[a] = Min(S)
    BY DEF NoncesWithout
  <2>2. S \in SUBSET Nat /\ S # {}
    BY <1>1, <1>3, Numbers DEF ListOf
  <2>3. Min(S) \in Nat /\ \A n \in S : Min(S) <= n
    BY <2>2, MinNat
  <2>4. CASE ListOf(pending, a) = {}
    <3>1. ListOf(PendingWithout(D), a) = {} /\ pendingNonces[a] <= currentState.nonce[a]
      BY <1>1, <2>4 DEF ListOf, Executable, Due
    <3>2. Min(S) <= pendingNonces[a]
      BY <2>3
    <3>3. pendingNonces[a] \in Nat /\ currentState.nonce[a] \in Nat
      BY Numbers
    <3> HIDE DEF S
    <3>4. Min(S) <= currentState.nonce[a]
      BY <2>3, <3>1, <3>2, <3>3
    <3> QED BY <2>1, <3>1, <3>4 DEF Due
  <2>5. CASE ListOf(pending, a) # {}
    <3>1. PICK f \in ListOf(pending, a) : Nonce[f] = currentState.nonce[a]
      BY <2>5 DEF Executable, Due
    <3>2. f \in pending /\ Sender[f] = a /\ f \in Txs
      BY <1>3, <3>1 DEF ListOf
    <3>3. \A t \in ListOf(pending, a) : t \in Txs /\ t \in pending /\ Sender[t] = a /\ Nonce[f] <= Nonce[t]
      BY <1>3, <3>1, Numbers DEF Executable, Stale, ListOf
    <3>4. CASE f \in D
      <4>1. ListOf(PendingWithout(D), a) = {}
        <5>1. ASSUME NEW t \in ListOf(PendingWithout(D), a) PROVE FALSE
          <6>1. t \in ListOf(pending, a) /\ t \notin D /\ t \notin Requeued(D)
            BY <1>1 DEF ListOf
          <6>2. Nonce[f] # Nonce[t]
            BY <3>2, <3>3, <3>4, <6>1 DEF Listed, OneTxPerNonce, SameSlot
          <6>3. Nonce[f] < Nonce[t]
            BY <3>2, <3>3, <6>1, <6>2, Numbers
          <6> QED BY <1>2, <3>2, <3>3, <3>4, <6>1, <6>3
        <5> QED BY <5>1
      <4>2. Nonce[f] \in S
        BY <1>1, <3>2, <3>4 DEF ListOf
      <4>3. Min(S) <= Nonce[f]
        BY <2>3, <4>2
      <4> QED BY <2>1, <3>1, <4>1, <4>3 DEF Due
    <3>5. CASE f \notin D
      <4>1. f \notin Requeued(D)
        <5>1. ASSUME NEW d \in D \cap pending, Sender[d] = Sender[f], Nonce[d] < Nonce[f] PROVE FALSE
          <6>1. d \in ListOf(pending, a) /\ d \in Txs
            BY <1>3, <3>2, <5>1 DEF ListOf
          <6> QED BY <3>2, <3>3, <5>1, <6>1, Numbers
        <5> QED BY <1>2, <5>1
      <4>2. f \in ListOf(PendingWithout(D), a)
        BY <1>1, <3>2, <3>5, <4>1 DEF ListOf
      <4> QED BY <3>1, <4>2 DEF Due
    <3> QED BY <3>4, <3>5
  <2> QED BY <2>4, <2>5
<1> QED BY <1>1, <1>4 DEF Executable

\* add: the new transaction is valid, and takes the place of the one it beats.
LEMMA AddExecutable ==
  ASSUME Listed, Executable(pending, pendingNonces), NEW t \in Txs, NEW local \in BOOLEAN,
         NEW D \in DropSets(t, isLocal(t, local)), add(t, local, D)
  PROVE  Executable(pending', pendingNonces')
<1> DEFINE P == PendingWithout(D)
<1>1. isLocal(t, local) \in BOOLEAN
  BY DEF isLocal
<1>2. D \subseteq all
  BY <1>1, DropFacts DEF Listed, all
<1>3. Executable(P, NoncesWithout(D)) /\ pendingNonces' = NoncesWithout(D)
  BY <1>2, RemoveExecutable DEF add
<1>4. Payable(t) /\ ~Stale(t)
  BY DEF DropSets, validateTx
<1> HIDE DEF P
<1>5. CASE ReplacePending(t, isLocal(t, local), D)
  <2> DEFINE old == Displaced(P, {t})
  <2>1. pending' = (P \ old) \cup {t}
    BY <1>5 DEF ReplacePending, P
  <2>2. PICK o \in P : SameSlot(o, t)
    BY <1>5 DEF ReplacePending, Overlaps, P
  <2>3. \A o1 \in old : SameSlot(o1, t)
    BY DEF Displaced
  <2> HIDE DEF old
  <2>4. ASSUME NEW a \in Accounts PROVE Due(pending', pendingNonces', a)
    <3>1. CASE ListOf(P, a) = {}
      <4>1. ListOf(pending', a) = {}
        BY <2>1, <2>2, <3>1 DEF ListOf, SameSlot
      <4> QED BY <1>3, <3>1, <4>1 DEF Executable, Due
    <3>2. CASE ListOf(P, a) # {}
      <4>1. PICK f \in ListOf(P, a) : Nonce[f] = currentState.nonce[a]
        BY <1>3, <3>2 DEF Executable, Due
      <4>2. CASE f \in old
        <5>1. t \in ListOf(pending', a) /\ Nonce[t] = currentState.nonce[a]
          BY <2>1, <2>3, <4>1, <4>2 DEF ListOf, SameSlot
        <5> QED BY <5>1 DEF Due
      <4>3. CASE f \notin old
        <5>1. f \in ListOf(pending', a)
          BY <2>1, <4>1, <4>3 DEF ListOf
        <5> QED BY <4>1, <5>1 DEF Due
      <4> QED BY <4>2, <4>3
    <3> QED BY <3>1, <3>2
  <2> QED BY <1>3, <1>4, <2>1, <2>4 DEF Executable
<1>6. CASE pending' = P
  BY <1>3, <1>6
<1> QED BY <1>5, <1>6 DEF add, EnqueueNew, RejectReplacement, P

\* promoteExecutables starts a list only at the nonce of the account: a queued
\* transaction that is left is not stale, and the virtual nonce has not run ahead.
LEMMA PromoteExecutable ==
  ASSUME Listed, Executable(pending, pendingNonces), promoteExecutables
  PROVE  Executable(pending', pendingNonces')
<1> DEFINE A == IF resetting THEN Senders(queue) ELSE promoteAddrs
           dropped == {t \in queue : Sender[t] \in A /\ (Stale(t) \/ ~Payable(t))}
           kept == queue \ dropped
           readies == UNION {Ready(ListOf(kept, a), pendingNonces[a]) : a \in A}
           promoted == Accepted(pending, readies)
<1>1. /\ pending' = ListAdd(pending, readies)
      /\ pendingNonces' = [a \in Accounts |-> IF ListOf(promoted, a) = {} THEN pendingNonces[a]
                                              ELSE 1 + Max({Nonce[t] : t \in ListOf(promoted, a)})]
  BY ZenonT(60) DEF promoteExecutables
<1>2. \A t \in readies : t \in kept /\ Sender[t] \in A /\ t \in Ready(ListOf(kept, Sender[t]), pendingNonces[Sender[t]])
  <2>1. ASSUME NEW a \in A, NEW t \in Ready(ListOf(kept, a), pendingNonces[a])
        PROVE  t \in kept /\ Sender[t] \in A /\ t \in Ready(ListOf(kept, Sender[t]), pendingNonces[Sender[t]])
    <3>1. t \in kept /\ Sender[t] = a
      BY <2>1, ZenonT(60) DEF Ready, ListOf
    <3> QED BY <2>1, <3>1, ZenonT(60)
  <2> HIDE DEF A, kept
  <2>2. \A t \in readies : \E a \in A : t \in Ready(ListOf(kept, a), pendingNonces[a])
    BY ZenonT(60)
  <2> QED BY <2>1, <2>2, ZenonT(60)
<1>3. \A a \in A : \A t \in Ready(ListOf(kept, a), pendingNonces[a]) : t \in readies
  BY ZenonT(60)
<1>4. \A t \in kept : t \in queue /\ t \in Txs /\ (Sender[t] \in A => Payable(t) /\ ~Stale(t))
  BY DEF Listed, TypeOK
<1> HIDE DEF A, kept, readies
<1>5. \A o \in pending, t \in readies : ~SameSlot(o, t)
  BY <1>2, <1>4 DEF Listed, OneTxPerNonce, LookupExact
<1>6. Displaced(pending, readies) = {} /\ promoted = readies
  BY <1>5 DEF Displaced, Accepted
<1>7. pending' = pending \cup readies
  BY <1>1, <1>6 DEF ListAdd
<1>8. ASSUME NEW a \in Accounts PROVE Due(pending', pendingNonces', a)
  <2>1. CASE ListOf(pending, a) # {}
    <3>1. PICK f \in ListOf(pending, a) : Nonce[f] = currentState.nonce[a]
      BY <2>1 DEF Executable, Due
    <3>2. f \in ListOf(pending', a)
      BY <1>7, <3>1 DEF ListOf
    <3> QED BY <3>1, <3>2 DEF Due
  <2>2. CASE ListOf(pending, a) = {} /\ ListOf(readies, a) = {}
    <3>1. ListOf(pending', a) = {} /\ pendingNonces'[a] = pendingNonces[a]
      BY <1>1, <1>6, <1>7, <2>2 DEF ListOf
    <3> QED BY <2>2, <3>1 DEF Executable, Due
  <2>3. CASE ListOf(pending, a) = {} /\ ListOf(readies, a) # {}
    <3> DEFINE L == ListOf(kept, a)
    <3>1. PICK t \in readies : Sender[t] = a
      BY <2>3 DEF ListOf
    <3>2. a \in A /\ t \in Ready(L, pendingNonces[a])
      BY <1>2, <3>1
    <3>3. PICK u \in L : Nonce[u] <= pendingNonces[a]
      BY <3>2 DEF Ready
    <3>4. pendingNonces[a] <= currentState.nonce[a]
      BY <2>3 DEF Executable, Due
    <3>5. \A w \in L : w \in Txs /\ Sender[w] = a /\ currentState.nonce[a] <= Nonce[w]
      BY <1>4, <3>2, Numbers DEF Stale, ListOf
    <3>6. Nonce[u] = currentState.nonce[a]
      BY <3>3, <3>4, <3>5, Numbers
    <3>7. \A w \in L : \A n \in Nonce[w]..Nonce[u] : n = Nonce[u]
      BY <3>3, <3>5, <3>6, Numbers
    <3> HIDE DEF L
    <3>8. u \in Ready(L, pendingNonces[a])
      BY <3>3, <3>7 DEF Ready
    <3>9. u \in readies /\ Sender[u] = a
      BY <1>3, <3>2, <3>3, <3>5, <3>8 DEF L
    <3>10. u \in ListOf(pending', a)
      BY <1>7, <3>9 DEF ListOf
    <3> QED BY <3>6, <3>10 DEF Due
  <2> QED BY <2>1, <2>2, <2>3
<1> QED BY <1>2, <1>4, <1>7, <1>8 DEF Executable

\* demoteUnexecutables establishes it, whatever the reset left behind.
LEMMA DemoteExecutable ==
  ASSUME Listed, demoteUnexecutables
  PROVE  Executable(pending', pendingNonces')
<1> DEFINE olds == {t \in pending : Stale(t)}
           drops == {t \in pending \ olds : ~Payable(t)}
           invalids == Invalidated(pending \ olds, drops)
           left == pending \ (olds \cup drops \cup invalids)
<1>1. /\ pending' = left \ Gapped(left)
      /\ pendingNonces' = [a \in Accounts |-> IF ListOf(pending', a) = {} THEN currentState.nonce[a]
                                              ELSE 1 + Max({Nonce[t] : t \in ListOf(pending', a)})]
  BY ZenonT(60) DEF demoteUnexecutables
<1>2. \A t \in left : Payable(t) /\ ~Stale(t)
  OBVIOUS
<1> HIDE DEF left
<1>3. ASSUME NEW a \in Accounts PROVE Due(pending', pendingNonces', a)
  <2>1. CASE ListOf(pending', a) = {}
    <3>1. pendingNonces'[a] = currentState.nonce[a]
      BY <1>1, <2>1, ZenonT(60)
    <3>2. currentState.nonce[a] <= currentState.nonce[a]
      BY Numbers
    <3> QED BY <2>1, <3>1, <3>2 DEF Due
  <2>2. CASE ListOf(pending', a) # {}
    <3>1. PICK t \in left : t \notin Gapped(left) /\ Sender[t] = a
      BY <1>1, <2>2 DEF ListOf
    <3>2. PICK u \in ListOf(left, a) : Nonce[u] = currentState.nonce[a]
      BY <3>1 DEF Gapped
    <3>3. u \in left /\ Sender[u] = a
      BY <3>2 DEF ListOf
    <3>4. u \notin Gapped(left)
      BY <3>2, <3>3 DEF Gapped
    <3>5. u \in ListOf(pending', a)
      BY <1>1, <3>3, <3>4 DEF ListOf
    <3> QED BY <2>2, <3>2, <3>5 DEF Due
  <2> QED BY <2>1, <2>2
<1> QED BY <1>1, <1>2, <1>3, ZenonT(60) DEF Executable

\* The transaction with the highest nonce of a list has none above it.
LEMMA HighestTops ==
  ASSUME Listed, NEW a, NEW f \in Highest(ListOf(pending, a), 1)
  PROVE  f \in ListOf(pending, a) /\ \A u \in ListOf(pending, a) : ~(Nonce[u] > Nonce[f])
<1> DEFINE U == {u \in ListOf(pending, a) : Nonce[u] > Nonce[f]}
<1>1. U \subseteq Txs
  BY DEF ListOf, Listed, TypeOK
<1>2. IsFiniteSet(U) /\ Cardinality(U) < 1
  BY <1>1, TxAssumption, FS_Subset DEF Highest
<1>3. Cardinality(U) \in Nat
  BY <1>2, FS_CardinalityType
<1>4. Cardinality(U) = 0
  BY <1>2, <1>3
<1>5. U = {}
  BY <1>2, <1>4, FS_EmptySet
<1> QED BY <1>5 DEF Highest

\* Capping takes a front only with the whole list.
LEMMA CapOneExecutable ==
  ASSUME Listed, Executable(pending, pendingNonces), NEW A, CapOne(A)
  PROVE  Executable(pending', pendingNonces')
<1> DEFINE caps == UNION {Highest(ListOf(pending, a), 1) : a \in A}
<1>1. /\ pending' = pending \ caps
      /\ pendingNonces' = [a \in Accounts |-> Min({pendingNonces[a]} \cup {Nonce[t] : t \in ListOf(caps, a)})]
  BY DEF CapOne
<1>2. \A f \in caps : f \in pending /\ f \in Txs /\ \A u \in ListOf(pending, Sender[f]) : ~(Nonce[u] > Nonce[f])
  <2>1. ASSUME NEW a \in A, NEW f \in Highest(ListOf(pending, a), 1)
        PROVE  f \in pending /\ f \in Txs /\ \A u \in ListOf(pending, Sender[f]) : ~(Nonce[u] > Nonce[f])
    <3>1. f \in ListOf(pending, a) /\ \A u \in ListOf(pending, a) : ~(Nonce[u] > Nonce[f])
      BY HighestTops
    <3> QED BY <3>1 DEF ListOf, Listed, TypeOK
  <2> QED BY <2>1, ZenonT(60)
<1> HIDE DEF caps
<1>3. ASSUME NEW a \in Accounts PROVE Due(pending', pendingNonces', a)
  <2> DEFINE S == {pendingNonces[a]} \cup {Nonce[t] : t \in ListOf(caps, a)}
  <2>1. pendingNonces'[a] = Min(S)
    BY <1>1
  <2>2. S \in SUBSET Nat /\ S # {}
    BY <1>2, Numbers DEF ListOf
  <2>3. Min(S) \in Nat /\ \A n \in S : Min(S) <= n
    BY <2>2, MinNat
  <2>4. CASE ListOf(pending, a) = {}
    <3>1. ListOf(pending', a) = {} /\ pendingNonces[a] <= currentState.nonce[a]
      BY <1>1, <2>4 DEF ListOf, Executable, Due
    <3>2. Min(S) <= pendingNonces[a]
      BY <2>3
    <3>3. pendingNonces[a] \in Nat /\ currentState.nonce[a] \in Nat
      BY Numbers
    <3> HIDE DEF S
    <3>4. Min(S) <= currentState.nonce[a]
      BY <2>3, <3>1, <3>2, <3>3
    <3> QED BY <2>1, <3>1, <3>4 DEF Due
  <2>5. CASE ListOf(pending, a) # {}
    <3>1. PICK f \in ListOf(pending, a) : Nonce[f] = currentState.nonce[a]
      BY <2>5 DEF Executable, Due
    <3>2. f \in pending /\ Sender[f] = a
      BY <3>1 DEF ListOf
    <3>3. CASE f \notin caps
      <4>1. f \in ListOf(pending', a)
        BY <1>1, <3>2, <3>3 DEF ListOf
      <4> QED BY <3>1, <4>1 DEF Due
    <3>4. CASE f \in caps
      <4>1. ASSUME NEW t \in ListOf(pending, a) PROVE t = f
        <5>1. t \in Txs /\ t \in pending /\ Sender[t] = a /\ Nonce[f] <= Nonce[t]
          BY <3>1, <4>1, Numbers DEF Executable, Stale, ListOf, Listed, TypeOK
        <5>2. ~(Nonce[t] > Nonce[f]) /\ f \in Txs
          BY <1>2, <3>2, <3>4
        <5>3. Nonce[t] \in Nat /\ Nonce[f] \in Nat
          BY <5>1, <5>2, Numbers
        <5>4. Nonce[t] = Nonce[f]
          BY <5>1, <5>2, <5>3
        <5> QED BY <3>2, <5>1, <5>4 DEF Listed, OneTxPerNonce, SameSlot
      <4>2. ListOf(pending', a) = {}
        BY <1>1, <3>4, <4>1 DEF ListOf
      <4>3. Nonce[f] \in S
        BY <3>2, <3>4 DEF ListOf
      <4>4. Min(S) <= Nonce[f]
        BY <2>3, <4>3
      <4> QED BY <2>1, <3>1, <4>2, <4>4 DEF Due
    <3> QED BY <3>3, <3>4
  <2> QED BY <2>4, <2>5
<1> QED BY <1>1, <1>3, ZenonT(60) DEF Executable

\* The pool starts without transactions.
LEMMA InitApart == Init => Apart
BY DEF Init, Apart

\* Every operation keeps the heaps apart from the local accounts, and takes from
\* those only what it may.
LEMMA NextApart == Listed /\ Apart /\ [Next]_vars => Apart' /\ Kept
<1> SUFFICES ASSUME Listed, Apart, [Next]_vars PROVE Apart' /\ Kept
  OBVIOUS
<1> DEFINE Spared == \A r \in remoteTxs' : Sender[r] \notin locals'
<1>0. /\ Spared /\ locals' = locals /\ offenders' = offenders /\ phase' = phase => Apart'
      /\ Spared /\ offenders = <<>> /\ offenders' = offenders => Apart'
      /\ UNCHANGED <<lookupVars, locals>> => Spared /\ Kept
  BY DEF Apart, Kept, lookupVars, all
<1>1. ASSUME NEW t \in Txs, NEW local \in BOOLEAN, AddTx(t, local) PROVE Apart' /\ Kept
  <2>1. PICK D \in DropSets(t, isLocal(t, local)) : add(t, local, D)
    BY <1>1 DEF AddTx
  <2>2. phase = "idle" /\ offenders' = offenders
    BY <1>1 DEF AddTx, runVars
  <2>3. offenders = <<>>
    BY <2>2 DEF Apart
  <2> QED BY <1>0, <2>1, <2>2, <2>3, AddKept
<1>2. ASSUME NEW price \in GasPrices, SetGasPrice(price) PROVE Apart' /\ Kept
  <2> DEFINE D == IF price > gasPrice THEN {t \in remoteTxs : Price[t] < price} ELSE {}
  <2>1. D \subseteq all /\ \A o \in D : Sender[o] \notin locals
    BY DEF all, Apart
  <2>2. RemoveTxs(D) /\ locals' = locals /\ offenders' = offenders /\ phase' = phase
    BY <1>2 DEF SetGasPrice, runVars
  <2> HIDE DEF D
  <2> QED BY <1>0, <2>1, <2>2, RemoveKept
<1>3. ASSUME NEW A \in SUBSET Accounts, Evict(A) PROVE Apart' /\ Kept
  <2> DEFINE D == {t \in queue : Sender[t] \in A \ locals}
  <2>1. D \subseteq all /\ \A o \in D : Sender[o] \notin locals
    BY DEF Listed, LookupExact
  <2>2. RemoveTxs(D) /\ locals' = locals /\ offenders' = offenders /\ phase' = phase
    BY <1>3 DEF Evict, runVars
  <2> HIDE DEF D
  <2> QED BY <1>0, <2>1, <2>2, RemoveKept
<1>4. ASSUME NEW D \in SUBSET dirty, StartPromote(D) PROVE Apart' /\ Kept
  <2>1. UNCHANGED <<lookupVars, locals>> /\ phase = "idle" /\ offenders' = offenders
    BY <1>4 DEF StartPromote
  <2>2. offenders = <<>>
    BY <2>1 DEF Apart
  <2> QED BY <1>0, <2>1, <2>2
<1>5. ASSUME NEW s \in States, NEW R \in Reinjectable(s), NEW D \in SUBSET dirty,
             StartReset(s, R, D)
      PROVE  Apart' /\ Kept
  <2>1. UNCHANGED <<lookupVars, locals>> /\ phase = "idle" /\ offenders' = offenders
    BY <1>5 DEF StartReset
  <2>2. offenders = <<>>
    BY <2>1 DEF Apart
  <2> QED BY <1>0, <2>1, <2>2
<1>6. ASSUME NEW D \in SUBSET dirty, StartAbortedReset(D) PROVE Apart' /\ Kept
  <2>1. UNCHANGED <<lookupVars, locals>> /\ phase = "idle" /\ offenders' = offenders
    BY <1>6 DEF StartAbortedReset
  <2>2. offenders = <<>>
    BY <2>1 DEF Apart
  <2> QED BY <1>0, <2>1, <2>2
<1>7. ASSUME NEW t \in reinject, Reinject(t) PROVE Apart' /\ Kept
  <2>1. t \in Txs /\ phase = "promote" /\ offenders' = offenders
    BY <1>7 DEF Reinject, Listed, TypeOK
  <2>2. offenders = <<>>
    BY <2>1 DEF Apart
  <2>3. CASE UNCHANGED <<pending, queue, lookupVars, locals, beats, pendingNonces, changes>>
    BY <1>0, <2>1, <2>2, <2>3
  <2>4. ASSUME NEW D \in DropSets(t, isLocal(t, FALSE)), add(t, FALSE, D) PROVE Apart' /\ Kept
    <3>1. Kept /\ Spared
      BY <2>1, <2>4, AddKept, ZenonT(60)
    <3> QED BY <1>0, <2>1, <2>2, <3>1
  <2> QED BY <1>7, <2>3, <2>4, ZenonT(60) DEF Reinject
<1>8. CASE promoteExecutables
  <2>1. phase = "promote" /\ offenders' = offenders
    BY <1>8, ZenonT(60) DEF promoteExecutables
  <2>2. offenders = <<>>
    BY <2>1 DEF Apart
  <2> QED BY <1>0, <1>8, <2>1, <2>2, PromoteKept
<1>9. CASE demoteUnexecutables
  <2>1. phase = "demote" /\ offenders' = offenders
    BY <1>9, ZenonT(60) DEF demoteUnexecutables
  <2>2. offenders = <<>>
    BY <2>1 DEF Apart
  <2> QED BY <1>0, <1>9, <2>1, <2>2, DemoteKept
<1>10. CASE PopOffender
  <2>1. /\ UNCHANGED <<lookupVars, locals>> /\ phase' = "truncatePending"
    BY <1>10 DEF PopOffender
  <2>2. PICK a \in Spammers : offenders' = Append(offenders, a)
    BY <1>10 DEF PopOffender
  <2>3. a \in Accounts /\ a \notin locals /\ offenders \in Seq(Accounts)
    BY DEF Spammers, Listed, TypeOK
  <2>4. \A i \in 1..Len(offenders') : offenders'[i] \notin locals
    BY <2>2, <2>3 DEF Apart
  <2>5. Spared /\ Kept
    BY <1>0, <2>1
  <2> QED BY <2>1, <2>4, <2>5 DEF Apart
<1>11. CASE EqualizeOffenders
  <2> DEFINE A == {offenders[i] : i \in 1..(Len(offenders) - 1)}
  <2>1. CapOne(A) /\ locals' = locals /\ offenders' = offenders /\ phase' = phase
    BY <1>11 DEF EqualizeOffenders, CapOne, runVars
  <2>2. \A a \in A : a \notin locals
    BY DEF Apart, Listed, TypeOK
  <2> HIDE DEF A
  <2> QED BY <1>0, <2>1, <2>2, CapOneKept
<1>12. CASE ReduceOffenders
  <2>1. CapOne(Range(offenders)) /\ locals' = locals /\ offenders' = offenders /\ phase' = phase
    BY <1>12 DEF ReduceOffenders, CapOne, runVars
  <2>2. \A a \in Range(offenders) : a \notin locals
    BY DEF Apart, Listed, TypeOK, Range
  <2> QED BY <1>0, <2>1, <2>2, CapOneKept
<1>13. CASE PendingTruncated
  <2>1. UNCHANGED <<lookupVars, locals>> /\ offenders' = <<>>
    BY <1>13 DEF PendingTruncated
  <2>2. Spared /\ Kept
    BY <1>0, <2>1
  <2> QED BY <2>1, <2>2 DEF Apart
<1>14. ASSUME NEW a \in Accounts, TruncateQueueOf(a) PROVE Apart' /\ Kept
  <2> DEFINE D == Highest(ListOf(queue, a), Surplus)
  <2>1. D \subseteq all /\ \A o \in D : Sender[o] \notin locals
    BY <1>14 DEF Listed, LookupExact, Highest, ListOf, TruncateQueueOf
  <2>2. RemoveTxs(D) /\ locals' = locals /\ offenders' = offenders /\ phase' = phase
    BY <1>14 DEF TruncateQueueOf, runVars
  <2> HIDE DEF D
  <2> QED BY <1>0, <2>1, <2>2, RemoveKept
<1>15. CASE ReorgDone
  <2>1. UNCHANGED <<lookupVars, locals>> /\ phase = "truncateQueue" /\ offenders' = offenders
    BY <1>15 DEF ReorgDone
  <2>2. offenders = <<>>
    BY <2>1 DEF Apart
  <2> QED BY <1>0, <2>1, <2>2
<1>16. CASE UNCHANGED vars
  <2>1. UNCHANGED <<lookupVars, locals>> /\ offenders' = offenders /\ phase' = phase
    BY <1>16 DEF vars, runVars
  <2> QED BY <1>0, <2>1
<1> QED
  BY <1>1, <1>2, <1>3, <1>4, <1>5, <1>6, <1>7, <1>8, <1>9, <1>10, <1>11, <1>12, <1>13, <1>14,
     <1>15, <1>16 DEF Next

\* A transaction of a local account leaves the pool only for a better one of the
\* same nonce, or because the chain made it stale or unpayable: no price limit,
\* eviction, discard or truncation reaches it, also when the account has become
\* local after its transactions arrived.
THEOREM LocalsStay == Spec => LocalsKept
<1>1. Listed /\ Apart /\ [Next]_vars => [Kept]_vars
  BY NextApart
<1> QED
  BY <1>1, InitListed, NextListed, InitApart, NextApart, PTL DEF Spec, LocalsKept, Kept

-----------------------------------------------------------------------------

\* The virtual nonces start as those of the state.
LEMMA InitOffered == Init => Offered
<1> SUFFICES ASSUME Init PROVE Offered
  OBVIOUS
<1>1. currentState.nonce \in [Accounts -> Nat]
  BY StateAssumption DEF Init
<1>2. \A a \in Accounts : pendingNonces[a] <= currentState.nonce[a]
  BY <1>1 DEF Init
<1>3. pending = {} /\ resetting = FALSE
  BY DEF Init
<1> QED BY <1>2, <1>3 DEF Offered, Executable, Due, ListOf

\* Every operation keeps what pending offers executable; a reset is excused until
\* its demoteUnexecutables.
LEMMA NextOffered == Listed /\ Offered /\ [Next]_vars => Offered'
<1> SUFFICES ASSUME Listed, Offered, [Next]_vars PROVE Offered'
  OBVIOUS
<1> DEFINE Now == Executable(pending, pendingNonces)
           Later == Executable(pending', pendingNonces')
           Excused == resetting /\ phase \in {"promote", "demote"}
           Same == UNCHANGED <<currentState, phase, resetting>>
<1>0. ~Excused => Now
  BY DEF Offered
<1>a. Later /\ currentState' = currentState => Executable(pending, pendingNonces)'
  BY ZenonT(60) DEF Executable, Due, Payable, Stale
<1>b. ASSUME Same, Now => Later PROVE Offered'
  <2>1. currentState' = currentState /\ phase' = phase /\ resetting' = resetting
    BY <1>b
  <2> HIDE DEF Now, Later
  <2>2. CASE Excused
    BY <2>1, <2>2 DEF Offered
  <2>3. CASE ~Excused
    <3>1. Executable(pending, pendingNonces)'
      BY <1>0, <1>a, <1>b, <2>1, <2>3
    <3> QED BY <2>1, <3>1 DEF Offered
  <2> QED BY <2>2, <2>3
<1>c. pending' = pending /\ pendingNonces' = pendingNonces => (Now => Later)
  OBVIOUS
<1>1. ASSUME NEW t \in Txs, NEW local \in BOOLEAN, AddTx(t, local) PROVE Offered'
  <2>1. PICK D \in DropSets(t, isLocal(t, local)) : add(t, local, D)
    BY <1>1 DEF AddTx
  <2>2. Same
    BY <1>1 DEF AddTx, runVars
  <2>3. Now => Later
    BY <2>1, AddExecutable
  <2> QED BY <1>b, <2>2, <2>3
<1>d. ASSUME NEW D, D \subseteq all, RemoveTxs(D) PROVE Now => Later
  BY <1>d, RemoveExecutable DEF RemoveTxs
<1>2. ASSUME NEW price \in GasPrices, SetGasPrice(price) PROVE Offered'
  <2> DEFINE D == IF price > gasPrice THEN {t \in remoteTxs : Price[t] < price} ELSE {}
  <2>1. D \subseteq all
    BY DEF all
  <2>2. RemoveTxs(D) /\ Same
    BY <1>2 DEF SetGasPrice, runVars
  <2> HIDE DEF D, Now, Later
  <2> QED BY <1>b, <1>d, <2>1, <2>2
<1>3. ASSUME NEW A \in SUBSET Accounts, Evict(A) PROVE Offered'
  <2> DEFINE D == {t \in queue : Sender[t] \in A \ locals}
  <2>1. D \subseteq all
    BY DEF Listed, LookupExact
  <2>2. RemoveTxs(D) /\ Same
    BY <1>3 DEF Evict, runVars
  <2> HIDE DEF D, Now, Later
  <2> QED BY <1>b, <1>d, <2>1, <2>2
<1>4. ASSUME NEW D \in SUBSET dirty, StartPromote(D) PROVE Offered'
  <2>1. phase = "idle" /\ pending' = pending /\ pendingNonces' = pendingNonces
        /\ currentState' = currentState /\ resetting' = resetting
    BY <1>4 DEF StartPromote
  <2>2. Now /\ ~resetting
    BY <2>1 DEF Offered
  <2> HIDE DEF Now, Later
  <2>3. Executable(pending, pendingNonces)'
    BY <1>a, <1>c, <2>1, <2>2
  <2>4. phase' = "promote"
    BY <1>4 DEF StartPromote
  <2> QED BY <2>1, <2>2, <2>3, <2>4 DEF Offered
<1>5. ASSUME NEW s \in States, NEW R \in Reinjectable(s), NEW D \in SUBSET dirty,
             StartReset(s, R, D)
      PROVE  Offered'
  <2>1. phase' = "promote" /\ resetting' = TRUE
    BY <1>5 DEF StartReset
  <2> QED BY <2>1 DEF Offered
<1>6. ASSUME NEW D \in SUBSET dirty, StartAbortedReset(D) PROVE Offered'
  <2>1. phase' = "promote" /\ resetting' = TRUE
    BY <1>6 DEF StartAbortedReset
  <2> QED BY <2>1 DEF Offered
<1>7. ASSUME NEW t \in reinject, Reinject(t) PROVE Offered'
  <2>1. t \in Txs /\ Same
    BY <1>7 DEF Reinject, Listed, TypeOK
  <2>2. CASE UNCHANGED <<pending, queue, lookupVars, locals, beats, pendingNonces, changes>>
    <3>1. pending' = pending /\ pendingNonces' = pendingNonces
      BY <2>2
    <3> HIDE DEF Now, Later
    <3> QED BY <1>b, <1>c, <2>1, <3>1
  <2>3. ASSUME NEW D \in DropSets(t, isLocal(t, FALSE)), add(t, FALSE, D) PROVE Offered'
    <3>1. Now => Later
      BY <2>1, <2>3, AddExecutable, ZenonT(60)
    <3> QED BY <1>b, <2>1, <3>1
  <2> QED BY <1>7, <2>2, <2>3, ZenonT(60) DEF Reinject
<1>8. CASE promoteExecutables
  <2>1. /\ phase = "promote" /\ currentState' = currentState /\ resetting' = resetting
        /\ phase' = IF resetting THEN "demote" ELSE "truncatePending"
    BY <1>8, ZenonT(60) DEF promoteExecutables
  <2>2. Now => Later
    BY <1>8, PromoteExecutable
  <2> HIDE DEF Now, Later
  <2>3. CASE resetting
    BY <2>1, <2>3 DEF Offered
  <2>4. CASE ~resetting
    <3>1. Executable(pending, pendingNonces)'
      BY <1>0, <1>a, <2>1, <2>2, <2>4
    <3> QED BY <2>1, <2>4, <3>1 DEF Offered
  <2> QED BY <2>3, <2>4
<1>9. CASE demoteUnexecutables
  <2>1. currentState' = currentState /\ phase' = "truncatePending"
    BY <1>9, ZenonT(60) DEF demoteUnexecutables
  <2>2. Executable(pending, pendingNonces)'
    BY <1>9, <1>a, <2>1, DemoteExecutable
  <2> QED BY <2>1, <2>2 DEF Offered
<1>10. CASE PopOffender
  <2>1. pending' = pending /\ pendingNonces' = pendingNonces /\ Same
    BY <1>10 DEF PopOffender
  <2> HIDE DEF Now, Later
  <2> QED BY <1>b, <1>c, <2>1
<1>11. ASSUME NEW A, CapOne(A) PROVE Offered'
  <2>1. Same
    BY <1>11 DEF CapOne, runVars
  <2>2. Now => Later
    BY <1>11, CapOneExecutable
  <2> HIDE DEF Now, Later
  <2> QED BY <1>b, <2>1, <2>2
<1>12. CASE PendingTruncated
  <2>1. /\ pending' = pending /\ pendingNonces' = pendingNonces /\ currentState' = currentState
        /\ phase = "truncatePending" /\ phase' = "truncateQueue"
    BY <1>12 DEF PendingTruncated
  <2> HIDE DEF Now, Later
  <2>2. Executable(pending, pendingNonces)'
    BY <1>0, <1>a, <1>c, <2>1
  <2> QED BY <2>1, <2>2 DEF Offered
<1>13. ASSUME NEW a \in Accounts, TruncateQueueOf(a) PROVE Offered'
  <2> DEFINE D == Highest(ListOf(queue, a), Surplus)
  <2>1. D \subseteq all
    BY DEF Listed, LookupExact, Highest, ListOf
  <2>2. RemoveTxs(D) /\ Same
    BY <1>13 DEF TruncateQueueOf, runVars
  <2> HIDE DEF D, Now, Later
  <2> QED BY <1>b, <1>d, <2>1, <2>2
<1>14. CASE ReorgDone
  <2>1. /\ pending' = pending /\ pendingNonces' = pendingNonces /\ currentState' = currentState
        /\ phase = "truncateQueue" /\ phase' = "idle" /\ resetting' = FALSE
    BY <1>14, ZenonT(60) DEF ReorgDone
  <2> HIDE DEF Now, Later
  <2>2. Executable(pending, pendingNonces)'
    BY <1>0, <1>a, <1>c, <2>1
  <2> QED BY <2>1, <2>2 DEF Offered
<1>15. CASE UNCHANGED vars
  <2>1. pending' = pending /\ pendingNonces' = pendingNonces /\ Same
    BY <1>15 DEF vars, runVars
  <2> HIDE DEF Now, Later
  <2> QED BY <1>b, <1>c, <2>1
<1>16. CASE EqualizeOffenders
  BY <1>11, <1>16 DEF EqualizeOffenders
<1>17. CASE ReduceOffenders
  BY <1>11, <1>17 DEF ReduceOffenders
<1> QED
  BY <1>1, <1>2, <1>3, <1>4, <1>5, <1>6, <1>7, <1>8, <1>9, <1>10, <1>12, <1>13, <1>14,
     <1>15, <1>16, <1>17 DEF Next

\* With pool.mu free, what pending offers to the miner can be executed: it is
\* payable, not stale, and the list of every account starts at its nonce, also
\* after resets to any head, aborted ones, reinjections, removals from the
\* middle of a list and truncations.
THEOREM PendingExecutable == Spec => []FrontExecutable
<1>1. Listed /\ Offered => FrontExecutable
  <2> SUFFICES ASSUME Listed, Offered, phase = "idle", NEW t \in pending
               PROVE  /\ Payable(t) /\ ~Stale(t)
                      /\ \E u \in ListOf(pending, Sender[t]) : Nonce[u] = currentState.nonce[Sender[t]]
    BY DEF FrontExecutable
  <2>1. Executable(pending, pendingNonces)
    BY DEF Offered
  <2>2. Sender[t] \in Accounts
    BY Numbers DEF Listed, TypeOK
  <2>3. ListOf(pending, Sender[t]) # {}
    BY DEF ListOf
  <2> QED BY <2>1, <2>2, <2>3 DEF Executable, Due
<1> QED
  BY <1>1, InitListed, NextListed, InitOffered, NextOffered, PTL DEF Spec
-----------------------------------------------------------------------------
(* truncatePending and truncateQueue. *)

\* The accounts popped so far: all but the last have lists of one length, which is
\* not below the length of the last, and nobody still to pop has a longer one.
Popped ==
  LET n == Len(offenders) IN
  /\ \A i, j \in 1..n : offenders[i] = offenders[j] => i = j
  /\ \A i, j \in 1..n : i < n /\ j < n => LenOf(offenders[i]) = LenOf(offenders[j])
  /\ \A i \in 1..n : LenOf(offenders[i]) >= LenOf(offenders[n])
  /\ n > 0 => \A b \in Spammers : LenOf(b) <= LenOf(offenders[n])

\* What truncatePending has achieved when truncateQueue begins.
Truncated ==
  phase = "truncateQueue" =>
    \/ Cardinality(pending) <= GlobalSlots
    \/ \A a \in Accounts \ locals : LenOf(a) <= AccountSlots

\* A list that is not empty has one highest nonce, because no two of its
\* transactions have the same.
LEMMA HighestIsOne ==
  ASSUME Listed, NEW a, ListOf(pending, a) # {}
  PROVE  \E f \in ListOf(pending, a) : Highest(ListOf(pending, a), 1) = {f}
<1> DEFINE L == ListOf(pending, a)
           S == {Nonce[t] : t \in L}
<1>1. L \subseteq Txs
  BY DEF ListOf, Listed, TypeOK
<1>2. S \in SUBSET Nat /\ S # {} /\ \A x \in S : x <= MaxNonce
  BY <1>1, TxAssumption
<1>3. Max(S) \in S /\ \A y \in S : y <= Max(S)
  BY <1>2, MaxNat, TxAssumption, ZenonT(60)
<1>4. PICK f \in L : Nonce[f] = Max(S)
  BY <1>3
<1>5. {u \in L : Nonce[u] > Nonce[f]} = {}
  <2>1. ASSUME NEW u \in L PROVE ~(Nonce[u] > Nonce[f])
    <3>1. Nonce[u] \in S /\ Nonce[u] \in Nat /\ Nonce[f] \in Nat
      BY <1>1, <1>4, Numbers
    <3>2. Nonce[u] <= Nonce[f]
      BY <1>3, <1>4, <3>1
    <3> QED BY <3>1, <3>2
  <2> QED BY <2>1
<1>6. f \in Highest(L, 1)
  <2>1. Cardinality({u \in L : Nonce[u] > Nonce[f]}) = 0
    BY <1>5, FS_EmptySet
  <2>2. Cardinality({u \in L : Nonce[u] > Nonce[f]}) < 1
    BY <2>1
  <2> HIDE DEF L, S
  <2> QED BY <1>4, <2>2 DEF Highest
<1>7. ASSUME NEW g \in Highest(L, 1) PROVE g = f
  <2>1. g \in L /\ ~(Nonce[f] > Nonce[g]) /\ ~(Nonce[g] > Nonce[f])
    BY <1>4, <1>6, <1>7, HighestTops
  <2>2. Nonce[f] = Nonce[g]
    BY <1>1, <1>4, <2>1, Numbers
  <2> QED BY <1>4, <2>1, <2>2 DEF Listed, OneTxPerNonce, SameSlot, ListOf
<1> QED BY <1>4, <1>6, <1>7

\* A round of capping takes one transaction of every account it is for.
LEMMA CapOneLengths ==
  ASSUME Listed, NEW A, CapOne(A), NEW a
  PROVE  /\ Cardinality(ListOf(pending, a)) \in Nat
         /\ a \notin A => ListOf(pending', a) = ListOf(pending, a)
         /\ a \in A /\ Cardinality(ListOf(pending, a)) > 0 =>
              Cardinality(ListOf(pending', a)) = Cardinality(ListOf(pending, a)) - 1
<1> DEFINE caps == UNION {Highest(ListOf(pending, b), 1) : b \in A}
           L == ListOf(pending, a)
<1>1. pending' = pending \ caps
  BY DEF CapOne
<1>2. IsFiniteSet(L) /\ Cardinality(L) \in Nat
  <2>1. L \subseteq Txs
    BY DEF ListOf, Listed, TypeOK
  <2> QED BY <2>1, TxAssumption, FS_Subset, FS_CardinalityType
<1>3. \A f \in caps : Sender[f] \in A /\ f \in Highest(ListOf(pending, Sender[f]), 1)
  <2>1. \A f \in caps : \E b \in A : f \in Highest(ListOf(pending, b), 1)
    BY ZenonT(60)
  <2>2. \A b : \A f \in Highest(ListOf(pending, b), 1) : Sender[f] = b
    BY DEF Highest, ListOf
  <2> HIDE DEF caps
  <2> QED BY <2>1, <2>2
<1>4. a \in A => Highest(L, 1) \subseteq caps
  BY ZenonT(60)
<1> HIDE DEF caps
<1>5. a \notin A => ListOf(pending', a) = L
  BY <1>1, <1>3, ZenonT(60) DEF ListOf
<1>6. ASSUME a \in A, Cardinality(L) > 0 PROVE Cardinality(ListOf(pending', a)) = Cardinality(L) - 1
  <2>1. L # {}
    BY <1>2, <1>6, FS_EmptySet
  <2>2. PICK f \in L : Highest(L, 1) = {f}
    BY <2>1, HighestIsOne
  <2>3. ListOf(pending', a) = L \ {f}
    <3>1. f \in caps
      BY <1>4, <1>6, <2>2
    <3>2. ASSUME NEW t \in L, t \in caps PROVE t = f
      <4>1. Sender[t] = a
        BY DEF ListOf
      <4> QED BY <1>3, <2>2, <3>2, <4>1
    <3> QED BY <1>1, <3>1, <3>2 DEF ListOf
  <2> QED BY <1>2, <2>2, <2>3, FS_RemoveElement
<1> QED BY <1>2, <1>5, <1>6

\* Accounts that are not popped are not touched, and nobody joins the spammers.
LEMMA CapOneSpammers ==
  ASSUME Listed, NEW A, CapOne(A), A \subseteq Range(offenders)
  PROVE  Spammers' = Spammers /\ \A b \in Spammers : LenOf(b)' = LenOf(b)
<1>1. locals' = locals /\ offenders' = offenders
  BY DEF CapOne, runVars
<1>2. \A b : b \notin Range(offenders) => ListOf(pending', b) = ListOf(pending, b)
  BY CapOneLengths
<1> QED BY <1>1, <1>2 DEF Spammers, LenOf

\* Lists are finite.
LEMMA LensNat ==
  ASSUME Listed, NEW a
  PROVE  LenOf(a) \in Nat
<1>1. ListOf(pending, a) \subseteq Txs
  BY DEF ListOf, Listed, TypeOK
<1> QED BY <1>1, TxAssumption, FS_Subset, FS_CardinalityType DEF LenOf

\* The next account is popped when the earlier ones have come down to the last.
LEMMA PopPopped ==
  ASSUME Listed, Popped, PopOffender
  PROVE  Popped'
<1> DEFINE n == Len(offenders)
<1>1. /\ ~Unequal /\ pending' = pending /\ locals' = locals
  BY DEF PopOffender
<1>2. PICK a \in Spammers : (\A b \in Spammers : LenOf(b) <= LenOf(a)) /\ offenders' = Append(offenders, a)
  BY DEF PopOffender
<1>3. offenders \in Seq(Accounts) /\ a \in Accounts /\ n \in Nat
  BY DEF Listed, TypeOK, Spammers
<1>4. /\ Len(offenders') = n + 1 /\ offenders'[n + 1] = a
      /\ \A i \in 1..n : offenders'[i] = offenders[i]
  BY <1>2, <1>3
<1>5. \A i \in 1..n : offenders[i] # a
  BY <1>3 DEF Spammers, Range
<1>6. \A b : LenOf(b)' = LenOf(b)
  BY <1>1 DEF LenOf
<1>7. Spammers' \subseteq Spammers
  <2>1. Range(offenders) \subseteq Range(offenders')
    BY <1>3, <1>4 DEF Range
  <2> QED BY <1>1, <1>6, <2>1 DEF Spammers
<1>8. \A i, j \in 1..n : LenOf(offenders[i]) = LenOf(offenders[j])
  <2>1. \A i \in 1..n : LenOf(offenders[i]) \in Nat
    BY LensNat
  <2>2. \A i \in 1..n : LenOf(offenders[i]) = LenOf(offenders[n])
    <3>1. SUFFICES ASSUME NEW i \in 1..n, i # n PROVE LenOf(offenders[i]) = LenOf(offenders[n])
      OBVIOUS
    <3>2. n - 1 \in 1..n /\ n \in 1..n /\ n > 1 /\ n - 1 < n /\ i < n
      BY <1>3, <3>1
    <3>3. LenOf(offenders[n - 1]) <= LenOf(offenders[n])
      BY <1>1, <2>1, <3>2 DEF Unequal
    <3>4. LenOf(offenders[i]) = LenOf(offenders[n - 1]) /\ LenOf(offenders[i]) >= LenOf(offenders[n])
      BY <3>2 DEF Popped
    <3> QED BY <2>1, <3>2, <3>3, <3>4
  <2> QED BY <2>2
<1>9. \A i \in 1..n : LenOf(offenders[i]) >= LenOf(a)
  <2>1. SUFFICES ASSUME NEW i \in 1..n PROVE LenOf(offenders[i]) >= LenOf(a)
    OBVIOUS
  <2>2. n > 0 /\ n \in 1..n
    BY <1>3
  <2>3. LenOf(a) <= LenOf(offenders[n]) /\ LenOf(offenders[i]) >= LenOf(offenders[n])
    BY <2>2 DEF Popped
  <2> QED BY <2>3, LensNat
<1> DEFINE m == n + 1
<1>10. \A i, j \in 1..m : offenders'[i] = offenders'[j] => i = j
  BY <1>3, <1>4, <1>5 DEF Popped
<1>11. \A i, j \in 1..m : i < m /\ j < m => LenOf(offenders'[i]) = LenOf(offenders'[j])
  BY <1>3, <1>4, <1>8
<1>12. \A i \in 1..m : LenOf(offenders'[i]) >= LenOf(offenders'[m])
  <2>1. LenOf(a) >= LenOf(a)
    BY LensNat
  <2> QED BY <1>3, <1>4, <1>9, <2>1
<1>13. \A b \in Spammers' : LenOf(b) <= LenOf(offenders'[m])
  BY <1>2, <1>4, <1>7
<1>14. \A i : LenOf(offenders[i])' = LenOf(offenders'[i])
  BY <1>1 DEF LenOf
<1> QED BY <1>4, <1>6, <1>10, <1>11, <1>12, <1>13, <1>14 DEF Popped
\* All the rounds of truncatePending keep the popped accounts in order.
LEMMA EqualizePopped ==
  ASSUME Listed, Popped, EqualizeOffenders
  PROVE  Popped'
<1> DEFINE n == Len(offenders)
           A == {offenders[i] : i \in 1..(Len(offenders) - 1)}
<1>1. Unequal /\ CapOne(A)
  BY DEF EqualizeOffenders
<1>2. offenders' = offenders
  BY <1>1 DEF CapOne, runVars
<1>3. offenders \in Seq(Accounts) /\ n \in Nat
  BY DEF Listed, TypeOK
<1>4. A \subseteq Range(offenders)
  BY <1>3 DEF Range
<1>5. \A i \in 1..n : i < n => offenders[i] \in A
  BY <1>3
<1>6. n > 0 => offenders[n] \notin A
  BY <1>3 DEF Popped
<1> HIDE DEF A
<1>7. Spammers' = Spammers /\ \A b \in Spammers : LenOf(b)' = LenOf(b)
  BY <1>1, <1>4, CapOneSpammers
<1>8. n > 1 /\ n - 1 \in 1..n /\ n - 1 < n /\ n \in 1..n /\ LenOf(offenders[n - 1]) > LenOf(offenders[n])
  BY <1>1, <1>3 DEF Unequal
<1>9. \A b : LenOf(b) \in Nat
  BY LensNat
<1>10. LenOf(offenders[n])' = LenOf(offenders[n])
  BY <1>1, <1>2, <1>6, <1>8, CapOneLengths DEF LenOf
<1>11. \A i \in 1..n : i < n => LenOf(offenders[i]) = LenOf(offenders[n - 1])
  BY <1>8 DEF Popped
<1>12. \A i \in 1..n : i < n => LenOf(offenders[i])' = LenOf(offenders[i]) - 1
  <2>1. ASSUME NEW i \in 1..n, i < n PROVE LenOf(offenders[i])' = LenOf(offenders[i]) - 1
    <3>1. LenOf(offenders[i]) > 0
      BY <1>8, <1>9, <1>11, <2>1
    <3> QED BY <1>1, <1>2, <1>5, <2>1, <3>1, CapOneLengths DEF LenOf
  <2> QED BY <2>1
<1>13. \A i \in 1..n : LenOf(offenders[i])' >= LenOf(offenders[n])
  <2>1. ASSUME NEW i \in 1..n PROVE LenOf(offenders[i])' >= LenOf(offenders[n])
    <3>1. CASE i = n
      BY <1>2, <1>9, <1>10, <3>1
    <3>2. CASE i < n
      BY <1>8, <1>9, <1>11, <1>12, <2>1, <3>2
    <3> QED BY <1>3, <2>1, <3>1, <3>2
  <2> QED BY <2>1
<1>14. \A i, j \in 1..n : i < n /\ j < n => LenOf(offenders[i])' = LenOf(offenders[j])'
  BY <1>11, <1>12
<1>15. \A b \in Spammers' : LenOf(b)' <= LenOf(offenders[n])'
  BY <1>7, <1>8, <1>10 DEF Popped
<1> QED BY <1>2, <1>10, <1>13, <1>14, <1>15 DEF Popped

\* The last rounds take one transaction of every popped account.
LEMMA ReducePopped ==
  ASSUME Listed, Popped, ReduceOffenders
  PROVE  Popped'
<1> DEFINE n == Len(offenders)
<1>1. /\ Spammers = {} /\ CapOne(Range(offenders)) /\ offenders # <<>>
      /\ LenOf(offenders[n]) > AccountSlots
  BY DEF ReduceOffenders
<1>2. offenders' = offenders
  BY <1>1 DEF CapOne, runVars
<1>3. offenders \in Seq(Accounts) /\ n \in Nat
  BY DEF Listed, TypeOK
<1>4. n \in 1..n /\ n > 0
  BY <1>1, <1>3
<1>5. \A i \in 1..n : offenders[i] \in Range(offenders)
  BY <1>3 DEF Range
<1>6. Spammers' = {}
  BY <1>1, CapOneSpammers
<1>7. \A b : LenOf(b) \in Nat
  BY LensNat
<1>8. \A i \in 1..n : LenOf(offenders[i])' = LenOf(offenders[i]) - 1
  <2>1. ASSUME NEW i \in 1..n PROVE LenOf(offenders[i])' = LenOf(offenders[i]) - 1
    <3>1. LenOf(offenders[i]) >= LenOf(offenders[n])
      BY DEF Popped
    <3>2. LenOf(offenders[i]) > 0
      BY <1>1, <1>7, <3>1, ConfigAssumption
    <3> QED BY <1>1, <1>2, <1>5, <2>1, <3>2, CapOneLengths DEF LenOf
  <2> QED BY <2>1
<1>9. \A i \in 1..n : LenOf(offenders[i])' >= LenOf(offenders[n])'
  <2>1. \A i \in 1..n : LenOf(offenders[i]) >= LenOf(offenders[n])
    BY DEF Popped
  <2> QED BY <1>2, <1>4, <1>7, <1>8, <2>1
<1>10. \A i, j \in 1..n : i < n /\ j < n => LenOf(offenders[i])' = LenOf(offenders[j])'
  BY <1>8 DEF Popped
<1> QED BY <1>2, <1>6, <1>9, <1>10 DEF Popped

\* Where truncatePending stops, every popped account is within its slots.
LEMMA TruncatedReached ==
  ASSUME Listed, Popped, PendingTruncated
  PROVE  Truncated' /\ Popped'
<1> DEFINE n == Len(offenders)
<1>1. pending' = pending /\ locals' = locals /\ offenders' = <<>>
  BY DEF PendingTruncated
<1>2. CASE ~OverSlots
  <2>1. Cardinality(pending) <= GlobalSlots
    <3>1. pending \subseteq Txs
      BY DEF Listed, TypeOK
    <3>2. Cardinality(pending) \in Nat
      BY <3>1, TxAssumption, FS_Subset, FS_CardinalityType
    <3> QED BY <1>2, <3>2, ConfigAssumption DEF OverSlots
  <2> QED BY <1>1, <2>1 DEF Truncated, Popped
<1>3. CASE OverSlots
  <2>1. /\ ~Unequal /\ Spammers = {}
        /\ offenders # <<>> => LenOf(offenders[n]) <= AccountSlots
    BY <1>3 DEF PendingTruncated
  <2>2. offenders \in Seq(Accounts) /\ n \in Nat
    BY DEF Listed, TypeOK
  <2>3. ASSUME NEW a \in Accounts \ locals PROVE LenOf(a) <= AccountSlots
    <3>1. LenOf(a) \in Nat /\ \A b : LenOf(b) \in Nat
      BY LensNat
    <3>2. CASE a \notin Range(offenders)
      BY <2>1, <2>3, <3>1, <3>2, ConfigAssumption DEF Spammers
    <3>3. CASE a \in Range(offenders)
      <4>1. PICK i \in 1..n : a = offenders[i]
        BY <2>2, <3>3 DEF Range
      <4>2. offenders # <<>> /\ n \in 1..n
        BY <2>2, <4>1
      <4>3. LenOf(offenders[n]) <= AccountSlots
        BY <2>1, <4>2
      <4>4. CASE i = n
        BY <4>1, <4>3, <4>4
      <4>5. CASE i # n
        <5>1. n > 1 /\ n - 1 \in 1..n /\ n - 1 < n /\ i < n
          BY <2>2, <4>1, <4>5
        <5>2. LenOf(offenders[n - 1]) <= LenOf(offenders[n])
          BY <2>1, <3>1, <5>1 DEF Unequal
        <5>3. LenOf(offenders[i]) = LenOf(offenders[n - 1])
          BY <5>1 DEF Popped
        <5> QED BY <3>1, <4>1, <4>3, <5>2, <5>3, ConfigAssumption
      <4> QED BY <4>4, <4>5
    <3> QED BY <3>2, <3>3
  <2>4. \A a \in Accounts \ locals : LenOf(a)' <= AccountSlots
    BY <1>1, <2>3 DEF LenOf
  <2> QED BY <1>1, <2>4 DEF Truncated, Popped
<1> QED BY <1>2, <1>3

\* Nothing is popped at the start.
LEMMA InitTruncated == Init => Popped /\ Truncated
BY DEF Init, Popped, Truncated

\* Only truncatePending pops accounts, and truncateQueue leaves pending alone.
LEMMA NextTruncated == Listed /\ Apart /\ Popped /\ Truncated /\ [Next]_vars => Popped' /\ Truncated'
<1> SUFFICES ASSUME Listed, Apart, Popped, Truncated, [Next]_vars PROVE Popped' /\ Truncated'
  OBVIOUS
<1>0. offenders' = <<>> /\ phase' # "truncateQueue" => Popped' /\ Truncated'
  BY DEF Popped, Truncated
<1>a. phase # "truncatePending" /\ offenders' = offenders => offenders' = <<>>
  BY DEF Apart
<1>1. ASSUME NEW t \in Txs, NEW local \in BOOLEAN, AddTx(t, local) PROVE Popped' /\ Truncated'
  BY <1>0, <1>a, <1>1 DEF AddTx, runVars
<1>2. ASSUME NEW price \in GasPrices, SetGasPrice(price) PROVE Popped' /\ Truncated'
  BY <1>0, <1>a, <1>2 DEF SetGasPrice, runVars
<1>3. ASSUME NEW A \in SUBSET Accounts, Evict(A) PROVE Popped' /\ Truncated'
  BY <1>0, <1>a, <1>3 DEF Evict, runVars
<1>4. ASSUME NEW D \in SUBSET dirty, StartPromote(D) PROVE Popped' /\ Truncated'
  BY <1>0, <1>a, <1>4 DEF StartPromote
<1>5. ASSUME NEW s \in States, NEW R \in Reinjectable(s), NEW D \in SUBSET dirty,
             StartReset(s, R, D)
      PROVE  Popped' /\ Truncated'
  BY <1>0, <1>a, <1>5 DEF StartReset
<1>6. ASSUME NEW D \in SUBSET dirty, StartAbortedReset(D) PROVE Popped' /\ Truncated'
  BY <1>0, <1>a, <1>6 DEF StartAbortedReset
<1>7. ASSUME NEW t \in reinject, Reinject(t) PROVE Popped' /\ Truncated'
  <2>1. phase = "promote" /\ phase' = phase /\ offenders' = offenders
    BY <1>7 DEF Reinject
  <2> QED BY <1>0, <1>a, <2>1
<1>8. CASE promoteExecutables
  <2>1. /\ phase = "promote" /\ offenders' = offenders
        /\ phase' = IF resetting THEN "demote" ELSE "truncatePending"
    BY <1>8, ZenonT(60) DEF promoteExecutables
  <2> QED BY <1>0, <1>a, <2>1
<1>9. CASE demoteUnexecutables
  <2>1. phase = "demote" /\ offenders' = offenders /\ phase' = "truncatePending"
    BY <1>9, ZenonT(60) DEF demoteUnexecutables
  <2> QED BY <1>0, <1>a, <2>1
<1>10. CASE PopOffender
  <2>1. phase' = "truncatePending"
    BY <1>10 DEF PopOffender
  <2> QED BY <1>10, <2>1, PopPopped DEF Truncated
<1>11. CASE EqualizeOffenders
  <2>1. phase' = "truncatePending"
    BY <1>11 DEF EqualizeOffenders, CapOne, runVars
  <2> QED BY <1>11, <2>1, EqualizePopped DEF Truncated
<1>12. CASE ReduceOffenders
  <2>1. phase' = "truncatePending"
    BY <1>12 DEF ReduceOffenders, CapOne, runVars
  <2> QED BY <1>12, <2>1, ReducePopped DEF Truncated
<1>13. CASE PendingTruncated
  BY <1>13, TruncatedReached
<1>14. ASSUME NEW a \in Accounts, TruncateQueueOf(a) PROVE Popped' /\ Truncated'
  <2> DEFINE D == Highest(ListOf(queue, a), Surplus)
  <2>1. D \subseteq queue
    BY DEF Highest, ListOf
  <2>2. /\ RemoveTxs(D) /\ phase = "truncateQueue"
        /\ locals' = locals /\ offenders' = offenders /\ phase' = phase
    BY <1>14 DEF TruncateQueueOf, runVars
  <2> HIDE DEF D
  <2>3. D \subseteq all /\ D \cap pending = {}
    BY <2>1 DEF Listed, LookupExact
  <2>4. PendingHits(D) = {}
    BY <2>3, RemoveFacts
  <2>5. pending' = pending
    BY <2>2, <2>4, ZenonT(60) DEF RemoveTxs, PendingWithout, Requeued, Invalidated
  <2>6. offenders' = <<>>
    BY <1>a, <2>2
  <2>7. Truncated'
    BY <2>2, <2>5 DEF Truncated, LenOf
  <2> QED BY <2>6, <2>7 DEF Popped
<1>15. CASE ReorgDone
  BY <1>0, <1>a, <1>15 DEF ReorgDone
<1>16. CASE UNCHANGED vars
  <2>1. pending' = pending /\ locals' = locals /\ offenders' = offenders /\ phase' = phase
    BY <1>16 DEF vars, runVars
  <2>2. \A b : LenOf(b)' = LenOf(b)
    BY <2>1 DEF LenOf
  <2>3. Spammers' = Spammers
    BY <2>1 DEF Spammers, LenOf
  <2>4. Popped'
    BY <2>1, <2>3 DEF Popped, LenOf
  <2>5. Truncated'
    BY <2>1 DEF Truncated, LenOf
  <2> QED BY <2>4, <2>5
<1> QED
  BY <1>1, <1>2, <1>3, <1>4, <1>5, <1>6, <1>7, <1>8, <1>9, <1>10, <1>11, <1>12, <1>13, <1>14,
     <1>15, <1>16 DEF Next

\* When a run of runReorg ends, pending is within GlobalSlots unless no account
\* that is not local is above its guaranteed slots, and the queue is within
\* GlobalQueue unless only local accounts are in it: the rounds of
\* truncatePending neither stop early nor forget an account they equalized.
THEOREM LimitsHold == Spec => LimitsRestored
<1> DEFINE Limits ==
      phase = "truncateQueue" /\ phase' = "idle" =>
        /\ \/ Cardinality(pending') <= GlobalSlots
           \/ \A a \in Accounts \ locals' : Cardinality(ListOf(pending', a)) <= AccountSlots
        /\ \/ Cardinality(queue') <= GlobalQueue
           \/ Senders(queue') \subseteq locals'
<1>1. Listed /\ Truncated /\ [Next]_vars => [Limits]_vars
  <2> SUFFICES ASSUME Listed, Truncated, Next, phase = "truncateQueue", phase' = "idle" PROVE Limits
    OBVIOUS
  <2>1. ReorgDone
    <3>1. phase' # phase
      OBVIOUS
    <3>2. \A t \in Txs, local \in BOOLEAN : ~AddTx(t, local)
      BY DEF AddTx
    <3>3. \A price \in GasPrices : ~SetGasPrice(price)
      BY DEF SetGasPrice
    <3>4. \A A \in SUBSET Accounts : ~Evict(A)
      BY DEF Evict
    <3>5. \A D \in SUBSET dirty : ~StartPromote(D) /\ ~StartAbortedReset(D)
      BY DEF StartPromote, StartAbortedReset
    <3>6. \A s \in States : \A R \in Reinjectable(s), D \in SUBSET dirty : ~StartReset(s, R, D)
      BY DEF StartReset
    <3>7. \A t \in reinject : ~Reinject(t)
      BY DEF Reinject
    <3>8. ~promoteExecutables /\ ~demoteUnexecutables
      BY ZenonT(60) DEF promoteExecutables, demoteUnexecutables
    <3>9. ~PopOffender /\ ~EqualizeOffenders /\ ~ReduceOffenders /\ ~PendingTruncated
      BY DEF PopOffender, EqualizeOffenders, ReduceOffenders, PendingTruncated
    <3>10. \A a \in Accounts : ~TruncateQueueOf(a)
      BY <3>1 DEF TruncateQueueOf, runVars
    <3> QED BY <3>2, <3>3, <3>4, <3>5, <3>6, <3>7, <3>8, <3>9, <3>10 DEF Next
  <2>2. pending' = pending /\ queue' = queue /\ locals' = locals /\ (Surplus > 0 => Senders(queue) \subseteq locals)
    BY <2>1 DEF ReorgDone
  <2>3. Cardinality(queue) <= GlobalQueue \/ Surplus > 0
    <3>1. queue \subseteq Txs
      BY DEF Listed, TypeOK
    <3>2. Cardinality(queue) \in Nat
      BY <3>1, TxAssumption, FS_Subset, FS_CardinalityType
    <3> QED BY <3>2, ConfigAssumption DEF Surplus
  <2> QED BY <2>2, <2>3 DEF Truncated, LenOf, Senders
<1> QED
  BY <1>1, InitListed, NextListed, InitApart, NextApart, InitTruncated, NextTruncated, PTL
  DEF Spec, LimitsRestored
=============================================================================
