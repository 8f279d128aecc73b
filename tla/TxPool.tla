------------------------------- MODULE TxPool -------------------------------
(***************************************************************************)
(* The transaction pool of blockchain/octopus_blockchain_tx_pool.go: the    *)
(* pending and queued lists, the lookup set, the virtual nonces and the     *)
(* local accounts, as the operations that hold pool.mu change them.         *)
(*                                                                         *)
(* A list of an account (pending[addr], queue[addr]) is the set of its      *)
(* transactions: the lists of all accounts together are one set, and an     *)
(* absent list is an account without a member.  runReorg holds pool.mu      *)
(* from its reset to its truncations, so `phase' lets no other operation    *)
(* in until the run is over.  Prices are one number (fee cap = tip cap, as  *)
(* for a legacy transaction), every transaction takes one slot, and time is *)
(* left out: which account has the oldest heartbeat is a free choice.       *)
(***************************************************************************)
EXTENDS Integers, FiniteSets, Sequences, FiniteSetsExt

CONSTANTS
  Accounts,       \* addresses
  Txs,            \* transactions that may reach the pool
  Sender,         \* Sender[t]: account that signed t
  Nonce,          \* Nonce[t]: account nonce of t
  MaxNonce,       \* largest nonce (2^64 - 1)
  Price,          \* Price[t]: gas price t offers
  Cost,           \* Cost[t]: value + gas * price
  Gas,            \* Gas[t]: gas limit of t
  States,         \* chain states a head may have: nonces, balances, gas limit
  GasPrices,      \* minimum prices SetGasPrice may be given
  PriceBump,      \* percentage a replacement has to offer on top
  AccountSlots,   \* config.AccountSlots
  GlobalSlots,    \* config.GlobalSlots
  AccountQueue,   \* config.AccountQueue
  GlobalQueue     \* config.GlobalQueue

ASSUME TxAssumption ==
  /\ Sender \in [Txs -> Accounts]
  /\ IsFiniteSet(Txs)
  /\ MaxNonce \in Nat
  /\ Nonce \in [Txs -> 0..MaxNonce]
  /\ Price \in [Txs -> Nat]
  /\ Cost \in [Txs -> Nat]
  /\ Gas \in [Txs -> Nat]

ASSUME StateAssumption ==
  /\ States \subseteq [nonce : [Accounts -> Nat], balance : [Accounts -> Nat], gas : Nat]
  /\ GasPrices \subseteq Nat

\* Sanitize leaves no limit below one.
ASSUME ConfigAssumption ==
  /\ PriceBump \in Nat \ {0}
  /\ AccountSlots \in Nat \ {0}
  /\ GlobalSlots \in Nat \ {0}
  /\ AccountQueue \in Nat \ {0}
  /\ GlobalQueue \in Nat \ {0}

VARIABLES
  currentState,      \* state of the head the pool was last reset to
  pending,           \* executable transactions
  queue,             \* future transactions
  localTxs,          \* all.locals
  remoteTxs,         \* all.remotes
  locals,            \* accounts exempt from eviction
  pendingNonces,     \* next nonce of an account on top of its pending ones
  beats,             \* accounts with a recorded heartbeat
  gasPrice,          \* minimum price of a remote transaction
  changes,           \* changesSinceReorg
  dirty,             \* accounts a caller of addTxs asked to promote
  phase,             \* step of runReorg, "idle" when pool.mu is free
  resetting,         \* does this run hold a reset request?
  reinject,          \* transactions of the old branch still to be re-added
  promoteAddrs,      \* accounts this run promotes
  offenders          \* accounts truncatePending has popped so far

lookupVars == <<localTxs, remoteTxs>>
runVars == <<phase, resetting, reinject, promoteAddrs, offenders>>
vars == <<currentState, pending, queue, lookupVars, locals, pendingNonces, beats,
          gasPrice, changes, dirty, runVars>>

all == localTxs \cup remoteTxs
Phases == {"idle", "promote", "demote", "truncatePending", "truncateQueue"}

-----------------------------------------------------------------------------
(* Lists. *)

ListOf(S, a) == {t \in S : Sender[t] = a}
Senders(S) == {Sender[t] : t \in S}
SameSlot(t, u) == Sender[t] = Sender[u] /\ Nonce[t] = Nonce[u]

Overlaps(L, t) == \E o \in L : SameSlot(o, t)

\* A replacement must beat the old price, and by the configured percentage.
Bumps(new, old) ==
  /\ Price[new] > Price[old]
  /\ Price[new] >= (Price[old] * (100 + PriceBump)) \div 100

\* txList.Add of the members of T to the lists L: who gets in, and who is displaced.
Accepted(L, T) == {t \in T : \A o \in L : SameSlot(o, t) => Bumps(t, o)}
Displaced(L, T) == {o \in L : \E t \in T : SameSlot(o, t) /\ Bumps(t, o)}
ListAdd(L, T) == (L \ Displaced(L, T)) \cup Accepted(L, T)

\* Ready: the run of consecutive nonces from the lowest one, if that is due.
Ready(L, start) ==
  {t \in L : /\ \E u \in L : Nonce[u] <= start
             /\ \A u \in L : \A n \in Nonce[u]..Nonce[t] : \E v \in L : Nonce[v] = n}

\* Cap: what exceeds the `limit' lowest nonces of a list.
Cap(L, limit) == {t \in L : Cardinality({u \in L : Nonce[u] < Nonce[t]}) >= limit}

\* The k highest nonces of a list.
Highest(L, k) == {t \in L : Cardinality({u \in L : Nonce[u] > Nonce[t]}) < k}

\* Filter of a strict list: what follows a transaction that had to go.
Invalidated(L, gone) ==
  {t \in L \ gone : \E d \in gone : Sender[d] = Sender[t] /\ Nonce[d] < Nonce[t]}

Payable(t) == Cost[t] <= currentState.balance[Sender[t]] /\ Gas[t] <= currentState.gas
Stale(t) == Nonce[t] < currentState.nonce[Sender[t]]

-----------------------------------------------------------------------------
(* removeTx, for all members of D: it looks a transaction up by its nonce,  *)
(* first in pending, where everything after it goes back to the queue.      *)

PendingHits(D) == {p \in pending : \E d \in D : SameSlot(p, d)}
Requeued(D) == Invalidated(pending, PendingHits(D))
PendingWithout(D) == pending \ (PendingHits(D) \cup Requeued(D))
QueueWithout(D) == ListAdd(queue, Requeued(D)) \ D
LookupWithout(S, D) == S \ (D \cup Displaced(queue, Requeued(D)))

NoncesWithout(D) ==
  [a \in Accounts |-> Min({pendingNonces[a]} \cup {Nonce[p] : p \in ListOf(PendingHits(D), a)})]

BeatsWithout(D) ==
  (beats \cup Senders(Requeued(D))) \ (Senders(D) \ Senders(QueueWithout(D)))

RemoveTxs(D) ==
  /\ pending' = PendingWithout(D)
  /\ queue' = QueueWithout(D)
  /\ localTxs' = LookupWithout(localTxs, D)
  /\ remoteTxs' = LookupWithout(remoteTxs, D)
  /\ pendingNonces' = NoncesWithout(D)
  /\ beats' = BeatsWithout(D)

-----------------------------------------------------------------------------
(* add *)

validateTx(t, isLocal) ==
  /\ isLocal \/ Price[t] >= gasPrice
  /\ ~Stale(t)
  /\ Payable(t)

\* Slots the new transaction is short of.
Excess == Cardinality(all) + 1 - (GlobalSlots + GlobalQueue)

\* priced.Underpriced: no tracked remote transaction is cheaper.
Underpriced(t) == remoteTxs # {} /\ \A r \in remoteTxs : Price[r] >= Price[t]

\* priced.Discard: remote transactions that make room.  The price order that
\* picks them is left open; a transaction the heaps hold twice counts twice.
DiscardSets(isLocal) ==
  {D \in SUBSET remoteTxs :
     /\ Cardinality(D) <= Excess
     /\ D # {} \/ (isLocal /\ remoteTxs = {})}

\* The drop sets with which add goes on; none if it turns the transaction away.
DropSets(t, isLocal) ==
  {D \in IF Excess <= 0 THEN {{}} ELSE DiscardSets(isLocal) :
     /\ t \notin all
     /\ validateTx(t, isLocal)
     /\ Excess > 0 => /\ isLocal \/ ~Underpriced(t)
                      /\ changes <= GlobalSlots \div 4}

\* The lookup set S once D and the transactions `old' left and `new' came.
\* Mutant: the replaced transaction stays in it.
TrackedKeepingOld(S, D, old, new) == LookupWithout(S, D) \cup new
Tracked(S, D, old, new) == (LookupWithout(S, D) \ old) \cup new

\* The new transaction replaces a pending one.
ReplacePending(t, isLocal, D) ==
  /\ Overlaps(PendingWithout(D), t)
  /\ t \in Accepted(PendingWithout(D), {t})
  /\ LET old == Displaced(PendingWithout(D), {t}) IN
       /\ pending' = (PendingWithout(D) \ old) \cup {t}
       /\ localTxs' = Tracked(localTxs, D, old, IF isLocal THEN {t} ELSE {})
       /\ remoteTxs' = Tracked(remoteTxs, D, old, IF isLocal THEN {} ELSE {t})
  /\ queue' = QueueWithout(D)
  /\ beats' = BeatsWithout(D) \cup {Sender[t]}
  /\ UNCHANGED locals

RemoteToLocals(remotes, accounts) == {r \in remotes : Sender[r] \in accounts}

\* It enters the queue, displacing a cheaper one there; a local submission
\* makes its account local, with the remote transactions it already has.
EnqueueNew(t, local, isLocal, D) ==
  /\ ~Overlaps(PendingWithout(D), t)
  /\ t \in Accepted(QueueWithout(D), {t})
  /\ locals' = locals \cup (IF local THEN {Sender[t]} ELSE {})
  /\ LET old == Displaced(QueueWithout(D), {t})
         loc == Tracked(localTxs, D, old, IF isLocal THEN {t} ELSE {})
         rem == Tracked(remoteTxs, D, old, IF isLocal THEN {} ELSE {t})
         migrated == IF locals' = locals THEN {} ELSE RemoteToLocals(rem, locals')
     IN
       /\ queue' = (QueueWithout(D) \ old) \cup {t}
       /\ localTxs' = loc \cup migrated
       /\ remoteTxs' = rem \ migrated
  /\ pending' = PendingWithout(D)
  /\ beats' = BeatsWithout(D) \cup {Sender[t]}

\* The transaction already there is too good; what was dropped stays dropped.
RejectReplacement(t, D) ==
  /\ LET list == IF Overlaps(PendingWithout(D), t) THEN PendingWithout(D) ELSE QueueWithout(D)
     IN t \notin Accepted(list, {t})
  /\ pending' = PendingWithout(D)
  /\ queue' = QueueWithout(D)
  /\ localTxs' = LookupWithout(localTxs, D)
  /\ remoteTxs' = LookupWithout(remoteTxs, D)
  /\ beats' = BeatsWithout(D)
  /\ UNCHANGED locals

isLocal(t, local) == local \/ Sender[t] \in locals

\* add, once it has dropped D to make room.
add(t, local, D) ==
  /\ \/ ReplacePending(t, isLocal(t, local), D)
     \/ EnqueueNew(t, local, isLocal(t, local), D)
     \/ RejectReplacement(t, D)
  /\ pendingNonces' = NoncesWithout(D)
  /\ changes' = changes + Cardinality(D)

-----------------------------------------------------------------------------
(* Operations of callers: AddLocals and AddRemotes, SetGasPrice, and the    *)
(* eviction tick of loop.                                                   *)

\* A transaction that entered the queue and replaced none makes its account dirty.
AddTx(t, local) ==
  /\ phase = "idle"
  /\ \E D \in DropSets(t, isLocal(t, local)) :
       /\ add(t, local, D)
       /\ dirty' = IF t \in queue' /\ Displaced(QueueWithout(D), {t}) = {}
                     THEN dirty \cup {Sender[t]} ELSE dirty
  /\ UNCHANGED <<currentState, gasPrice, runVars>>

SetGasPrice(price) ==
  /\ phase = "idle"
  /\ price # gasPrice
  /\ gasPrice' = price
  /\ RemoveTxs(IF price > gasPrice THEN {t \in remoteTxs : Price[t] < price} ELSE {})
  /\ UNCHANGED <<currentState, locals, changes, dirty, runVars>>

\* Mutant: local accounts are not spared.
EvictAnyone(A) ==
  /\ phase = "idle"
  /\ RemoveTxs({t \in queue : Sender[t] \in A})
  /\ UNCHANGED <<currentState, locals, gasPrice, changes, dirty, runVars>>
Evict(A) ==
  /\ phase = "idle"
  /\ RemoveTxs({t \in queue : Sender[t] \in A \ locals})
  /\ UNCHANGED <<currentState, locals, gasPrice, changes, dirty, runVars>>

-----------------------------------------------------------------------------
(* runReorg *)

\* A run for the accounts D of the requests received so far.
StartPromote(D) ==
  /\ phase = "idle"
  /\ phase' = "promote"
  /\ promoteAddrs' = D
  /\ dirty' = dirty \ D
  /\ UNCHANGED <<currentState, pending, queue, lookupVars, locals, pendingNonces,
                 beats, gasPrice, changes, resetting, reinject, offenders>>

\* What reset finds in the abandoned blocks and not in the new ones: one
\* transaction for every nonce the new head takes back, and maybe some whose
\* nonce the new branch uses for another one.  Nothing at all, if the head
\* did not leave its branch, the reorg is too deep, or the old head is gone.
Reinjectable(s) ==
  {R \in SUBSET {t \in Txs : Stale(t)} :
     \/ R = {}
     \/ /\ \A t, u \in R : SameSlot(t, u) => t = u
        /\ \A a \in Accounts : \A n \in s.nonce[a]..(currentState.nonce[a] - 1) :
             \E t \in R : Sender[t] = a /\ Nonce[t] = n}

\* A run that first resets the pool to a head with state s, from which the
\* transactions R of the abandoned blocks are missing.  Promotion requests D
\* received with it are dropped: a reset promotes every queued account.
StartReset(s, R, D) ==
  /\ phase = "idle"
  /\ phase' = "promote"
  /\ resetting' = TRUE
  /\ currentState' = s
  /\ pendingNonces' = s.nonce
  /\ reinject' = R
  /\ dirty' = dirty \ D
  /\ UNCHANGED <<pending, queue, lookupVars, locals, beats, gasPrice, changes,
                 promoteAddrs, offenders>>

\* reset gives up (a block of the old or new branch, or the state, is missing).
StartAbortedReset(D) ==
  /\ phase = "idle"
  /\ phase' = "promote"
  /\ resetting' = TRUE
  /\ dirty' = dirty \ D
  /\ UNCHANGED <<currentState, pending, queue, lookupVars, locals, pendingNonces,
                 beats, gasPrice, changes, reinject, promoteAddrs, offenders>>

\* addTxsLocked(reinject, false); the dirty set it returns is ignored.
Reinject(t) ==
  /\ phase = "promote"
  /\ t \in reinject
  /\ reinject' = reinject \ {t}
  /\ \/ /\ DropSets(t, isLocal(t, FALSE)) = {}
        /\ UNCHANGED <<pending, queue, lookupVars, locals, beats, pendingNonces, changes>>
     \/ \E D \in DropSets(t, isLocal(t, FALSE)) : add(t, FALSE, D)
  /\ UNCHANGED <<currentState, gasPrice, dirty, phase, resetting, promoteAddrs, offenders>>

\* promoteExecutables: drop what is stale or unpayable, move what is due to
\* pending, and cap what is left of the queue of an account that is not local.
promoteExecutables ==
  LET A == IF resetting THEN Senders(queue) ELSE promoteAddrs
      dropped == {t \in queue : Sender[t] \in A /\ (Stale(t) \/ ~Payable(t))}
      kept == queue \ dropped
      readies == UNION {Ready(ListOf(kept, a), pendingNonces[a]) : a \in A}
      promoted == Accepted(pending, readies)
      rest == kept \ readies
      caps == UNION {Cap(ListOf(rest, a), AccountQueue) : a \in A \ locals}
      removed == dropped \cup caps \cup (readies \ promoted) \cup Displaced(pending, readies)
  IN
  /\ phase = "promote"
  /\ reinject = {}
  /\ pending' = ListAdd(pending, readies)
  /\ queue' = rest \ caps
  /\ localTxs' = localTxs \ removed
  /\ remoteTxs' = remoteTxs \ removed
  /\ pendingNonces' =
       [a \in Accounts |-> IF ListOf(promoted, a) = {} THEN pendingNonces[a]
                           ELSE 1 + Max({Nonce[t] : t \in ListOf(promoted, a)})]
  /\ beats' = (beats \cup Senders(promoted)) \ ((A \cap Senders(queue)) \ Senders(queue'))
  /\ phase' = IF resetting THEN "demote" ELSE "truncatePending"
  /\ promoteAddrs' = {}
  /\ UNCHANGED <<currentState, locals, gasPrice, changes, dirty, resetting, reinject, offenders>>

\* Lists that do not start at the nonce of their account are all postponed.
\* Mutant: the gap is overlooked.
NoneGapped(L) == {}
Gapped(L) ==
  {t \in L : ~\E u \in ListOf(L, Sender[t]) : Nonce[u] = currentState.nonce[Sender[t]]}

\* demoteUnexecutables, and the nonces runReorg sets after it.
demoteUnexecutables ==
  LET olds == {t \in pending : Stale(t)}
      drops == {t \in pending \ olds : ~Payable(t)}
      invalids == Invalidated(pending \ olds, drops)
      left == pending \ (olds \cup drops \cup invalids)
      back == invalids \cup Gapped(left)
      removed == olds \cup drops \cup Displaced(queue, back)
  IN
  /\ phase = "demote"
  /\ pending' = left \ Gapped(left)
  /\ queue' = ListAdd(queue, back)
  /\ localTxs' = localTxs \ removed
  /\ remoteTxs' = remoteTxs \ removed
  /\ pendingNonces' =
       [a \in Accounts |-> IF ListOf(pending', a) = {} THEN currentState.nonce[a]
                           ELSE 1 + Max({Nonce[t] : t \in ListOf(pending', a)})]
  /\ beats' = beats \cup Senders(Accepted(queue, back))
  /\ phase' = "truncatePending"
  /\ UNCHANGED <<currentState, locals, gasPrice, changes, dirty, resetting, reinject,
                 promoteAddrs, offenders>>

\* truncatePending: accounts above AccountSlots are popped, longest list first.
LenOf(a) == Cardinality(ListOf(pending, a))
OverSlots == Cardinality(pending) > GlobalSlots
Spammers == {a \in Accounts \ (locals \cup Range(offenders)) : LenOf(a) > AccountSlots}

\* The earlier offenders are still longer than the one popped last.
Unequal ==
  Len(offenders) > 1 /\ LenOf(offenders[Len(offenders) - 1]) > LenOf(offenders[Len(offenders)])

PopOffender ==
  /\ phase = "truncatePending"
  /\ OverSlots /\ ~Unequal
  /\ \E a \in Spammers :
       /\ \A b \in Spammers : LenOf(b) <= LenOf(a)
       /\ offenders' = Append(offenders, a)
  /\ UNCHANGED <<currentState, pending, queue, lookupVars, locals, pendingNonces, beats,
                 gasPrice, changes, dirty, phase, resetting, reinject, promoteAddrs>>

\* One round: every account of A loses its highest nonce, whether or not the
\* limit is met on the way.
CapOne(A) ==
  LET caps == UNION {Highest(ListOf(pending, a), 1) : a \in A} IN
  /\ pending' = pending \ caps
  /\ localTxs' = localTxs \ caps
  /\ remoteTxs' = remoteTxs \ caps
  /\ pendingNonces' =
       [a \in Accounts |-> Min({pendingNonces[a]} \cup {Nonce[t] : t \in ListOf(caps, a)})]
  /\ UNCHANGED <<currentState, queue, locals, beats, gasPrice, changes, dirty, runVars>>

\* Bring the earlier offenders down to the last one.
EqualizeOffenders ==
  /\ phase = "truncatePending"
  /\ OverSlots /\ Unequal
  /\ CapOne({offenders[i] : i \in 1..(Len(offenders) - 1)})

\* All offenders are equal: bring them down to AccountSlots.
ReduceOffenders ==
  /\ phase = "truncatePending"
  /\ OverSlots /\ ~Unequal /\ Spammers = {}
  /\ offenders # <<>> /\ LenOf(offenders[Len(offenders)]) > AccountSlots
  /\ CapOne(Range(offenders))

PendingTruncated ==
  /\ phase = "truncatePending"
  /\ OverSlots =>
       /\ ~Unequal /\ Spammers = {}
       /\ offenders # <<>> => LenOf(offenders[Len(offenders)]) <= AccountSlots
  /\ phase' = "truncateQueue"
  /\ offenders' = <<>>
  /\ UNCHANGED <<currentState, pending, queue, lookupVars, locals, pendingNonces, beats,
                 gasPrice, changes, dirty, resetting, reinject, promoteAddrs>>

\* truncateQueue: take accounts that are not local, oldest heartbeat first,
\* and drop their highest nonces until the limit is met.
\* Mutant: one more than the limit stays.
SurplusButOne == Cardinality(queue) - GlobalQueue - 1
Surplus == Cardinality(queue) - GlobalQueue

TruncateQueueOf(a) ==
  /\ phase = "truncateQueue"
  /\ Surplus > 0
  /\ a \in Senders(queue) \ locals
  /\ RemoveTxs(Highest(ListOf(queue, a), Surplus))
  /\ UNCHANGED <<currentState, locals, gasPrice, changes, dirty, runVars>>

ReorgDone ==
  /\ phase = "truncateQueue"
  /\ Surplus > 0 => Senders(queue) \subseteq locals
  /\ changes' = 0
  /\ phase' = "idle"
  /\ resetting' = FALSE
  /\ UNCHANGED <<currentState, pending, queue, lookupVars, locals, pendingNonces, beats,
                 gasPrice, dirty, reinject, promoteAddrs, offenders>>

-----------------------------------------------------------------------------
Init ==
  /\ currentState \in States
  /\ pendingNonces = currentState.nonce
  /\ pending = {} /\ queue = {} /\ localTxs = {} /\ remoteTxs = {}
  /\ locals \in SUBSET Accounts
  /\ beats = {}
  /\ gasPrice \in GasPrices
  /\ changes = 0
  /\ dirty = {}
  /\ phase = "idle" /\ resetting = FALSE
  /\ reinject = {} /\ promoteAddrs = {} /\ offenders = <<>>

Next ==
  \/ \E t \in Txs, local \in BOOLEAN : AddTx(t, local)
  \/ \E price \in GasPrices : SetGasPrice(price)
  \/ \E A \in SUBSET Accounts : Evict(A)
  \/ \E D \in SUBSET dirty : StartPromote(D)
  \/ \E s \in States : \E R \in Reinjectable(s), D \in SUBSET dirty : StartReset(s, R, D)
  \/ \E D \in SUBSET dirty : StartAbortedReset(D)
  \/ \E t \in reinject : Reinject(t)
  \/ promoteExecutables
  \/ demoteUnexecutables
  \/ PopOffender
  \/ EqualizeOffenders
  \/ ReduceOffenders
  \/ PendingTruncated
  \/ \E a \in Accounts : TruncateQueueOf(a)
  \/ ReorgDone

Spec == Init /\ [][Next]_vars

-----------------------------------------------------------------------------
TypeOK ==
  /\ currentState \in States
  /\ pending \in SUBSET Txs
  /\ queue \in SUBSET Txs
  /\ localTxs \in SUBSET Txs
  /\ remoteTxs \in SUBSET Txs
  /\ locals \in SUBSET Accounts
  /\ pendingNonces \in [Accounts -> Nat]
  /\ beats \in SUBSET Accounts
  /\ gasPrice \in Nat
  /\ changes \in Nat
  /\ dirty \in SUBSET Accounts
  /\ phase \in Phases
  /\ resetting \in BOOLEAN
  /\ reinject \in SUBSET Txs
  /\ promoteAddrs \in SUBSET Accounts
  /\ offenders \in Seq(Accounts)

\* The lookup set and the lists agree: a transaction the pool knows is in
\* exactly one list, is either local or remote, and a listed one is known.
LookupExact ==
  /\ pending \cup queue = all
  /\ pending \cap queue = {}
  /\ localTxs \cap remoteTxs = {}

\* An account never has two transactions with one nonce, not even one in
\* pending and one in the queue (removeTx looks them up by nonce).
OneTxPerNonce ==
  \A t, u \in pending \cup queue : SameSlot(t, u) => t = u

\* With pool.mu free, what pending offers to the miner can be executed: it
\* is payable, not stale, and the list of an account starts at its nonce.
FrontExecutable ==
  phase = "idle" =>
    \A t \in pending :
      /\ Payable(t) /\ ~Stale(t)
      /\ \E u \in ListOf(pending, Sender[t]) : Nonce[u] = currentState.nonce[Sender[t]]

\* A transaction of a local account leaves the pool only for a better one of
\* the same nonce, or because the chain made it stale or unpayable.
LocalsKept ==
  [][\A t \in all \ all' :
       Sender[t] \in locals =>
         \/ \E u \in all' : SameSlot(t, u) /\ Bumps(u, t)
         \/ phase \in {"promote", "demote"} /\ (Stale(t) \/ ~Payable(t))]_vars

\* When a run ends, pending is within GlobalSlots unless no account that is
\* not local is above its guaranteed AccountSlots, and the queue is within
\* GlobalQueue unless only local accounts are in it.
LimitsRestored ==
  [][phase = "truncateQueue" /\ phase' = "idle" =>
       /\ \/ Cardinality(pending') <= GlobalSlots
          \/ \A a \in Accounts \ locals' : Cardinality(ListOf(pending', a)) <= AccountSlots
       /\ \/ Cardinality(queue') <= GlobalQueue
          \/ Senders(queue') \subseteq locals']_vars
=============================================================================
