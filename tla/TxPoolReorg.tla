----------------------------- MODULE TxPoolReorg -----------------------------
(***************************************************************************)
(* How the goroutines of the transaction pool work together: callers of     *)
(* addTxs, the event loop, scheduleReorgLoop and the runReorg it launches,  *)
(* over unbuffered request channels, one reply channel, the pool lock and   *)
(* a shutdown channel (blockchain/octopus_blockchain_tx_pool.go).  What     *)
(* happens to a transaction under the lock is the business of TxPool: here  *)
(* add turns it away, queues it or lets it replace one of the same nonce,   *)
(* anything may be dropped, and promotion takes any part of the accounts it *)
(* looks at.                                                                *)
(***************************************************************************)
EXTENDS Integers, Sequences, FiniteSets

CONSTANTS
  Callers,    \* calls of addTxs
  Sync,       \* those of AddLocals, which wait for the run
  Accounts,
  Txs,        \* transactions
  From,       \* From[t]: the account that sent t
  Nonce,      \* Nonce[t]
  Price,      \* Price[t]: what a replacement has to exceed
  TxOf,       \* TxOf[c]: the transaction c submits
  Mined,      \* transactions of blocks that a reorg may abandon
  MaxHead     \* bound: how often the chain head moves

ASSUME CallAssumption ==
  /\ Sync \subseteq Callers /\ "loop" \notin Callers
  /\ From \in [Txs -> Accounts] /\ Nonce \in [Txs -> Nat] /\ Price \in [Txs -> Nat]
  /\ TxOf \in [Callers -> Txs]
  /\ Mined \subseteq Txs
  /\ MaxHead \in Nat

Loop == "loop"        \* the event loop, as a requester
Procs == Callers \cup {Loop}
NoReset == [old |-> 0, new |-> 0]

VARIABLES
  pc,            \* where each requester is
  done,          \* done[p]: channel a requester was given, 0 before, -1 for reorgShutdownCh
  mu,            \* pool.mu is held
  queued,        \* transactions in the queue
  pooled,        \* transactions the pool knows: those in the queue and the pending ones
  unserved,      \* history: callers with a transaction in the queue whose account no run has looked at
  head,          \* the loop's head
  found,         \* history: the head the loop found when it started, until the first reset
  chainHead,     \* the chain's current head
  chainHeadCh,   \* head events on their way to the loop
  posted,        \* history: the head of the last event
  poolHead,      \* the head the pool is on
  gaveUp,        \* history: the head that the last reset did not reach, 0 if it did
  stopping,      \* Stop was called
  shutdown,      \* reorgShutdownCh is closed
  sched,         \* where scheduleReorgLoop is
  curDone,       \* done channel of the active run, 0 if nil
  nextDone,      \* done channel of the next run
  launchNextRun,
  reset,         \* pending reset request
  dirtyAccounts, \* pending promotion request
  queuedEvents,  \* events for the next run
  closed,        \* done channels that are closed
  run            \* the active runReorg

callVars == <<pc, done>>
poolVars == <<mu, queued, pooled, unserved>>
headVars == <<head, found, chainHead, chainHeadCh, posted, poolHead, gaveUp>>
stopVars == <<stopping, shutdown>>
schedVars == <<sched, curDone, nextDone, launchNextRun, reset, dirtyAccounts, queuedEvents>>
runVars == <<closed, run>>
vars == <<callVars, poolVars, headVars, stopVars, schedVars, runVars>>

NoRun == [at |-> "none", reset |-> NoReset, dirty |-> {}, events |-> {}, again |-> {}]

\* scheduleReorgLoop is in its select: it has launched the next run if it could.
Selecting == sched = "select" /\ ~(curDone = 0 /\ launchNextRun)

SameNonce(t, u) == From[t] = From[u] /\ Nonce[t] = Nonce[u]

\* The transactions of S that those of T take the place of.
Replaced(S, T) == {u \in S : \E t \in T : SameNonce(t, u)}
Dearer(t, S) == \A u \in Replaced(S, {t}) : Price[t] > Price[u]

\* Events are kept by account and nonce: a new one takes the place of an old one.
Put(events, T) == (events \ Replaced(events, T)) \cup T

-----------------------------------------------------------------------------
(* addTxs *)

\* The filter for known transactions, without the lock.
Filter(c) ==
  /\ pc[c] = "start"
  /\ pc' = [pc EXCEPT ![c] = IF TxOf[c] \in pooled THEN "returned" ELSE "lock"]
  /\ UNCHANGED <<done, poolVars, headVars, stopVars, schedVars, runVars>>

\* removeTx drops the transactions gone; those that come after one in a pending
\* list go back to the queue.
Dropped(gone, back) ==
  /\ gone \subseteq pooled /\ back \subseteq (pooled \ queued) \ gone
  /\ gone = {} => back = {}

\* addTxsLocked, which may have to make room, turns the transaction away ...
AddRejected(c, gone, back) ==
  /\ pc[c] = "lock" /\ ~mu
  /\ Dropped(gone, back)
  /\ queued' = (queued \ gone) \cup back
  /\ pooled' = pooled \ gone
  /\ unserved' = {d \in unserved : TxOf[d] \notin gone}
  /\ pc' = [pc EXCEPT ![c] = "request"]
  /\ UNCHANGED <<done, mu, headVars, stopVars, schedVars, runVars>>

\* ... or queues it; if it replaces none there its account is the caller's dirty set.
AddQueued(c, gone, back) ==
  LET t == TxOf[c]
      old == Replaced(pooled \ gone, {t})
  IN  /\ pc[c] = "lock" /\ ~mu
      /\ t \notin pooled /\ Dropped(gone, back)
      /\ old \subseteq queued \cup back /\ Dearer(t, old)
      /\ queued' = (((queued \ gone) \cup back) \ old) \cup {t}
      /\ pooled' = ((pooled \ gone) \ old) \cup {t}
      /\ unserved' = {d \in unserved : TxOf[d] \notin gone \cup old} \cup (IF old = {} THEN {c} ELSE {})
      /\ pc' = [pc EXCEPT ![c] = IF old = {} THEN "requestDirty" ELSE "request"]
      /\ UNCHANGED <<done, mu, headVars, stopVars, schedVars, runVars>>

\* It replaces a pending transaction: its event is queued under the lock.
AddReplacing(c, gone, back) ==
  LET t == TxOf[c]
      old == Replaced((pooled \ gone) \ (queued \cup back), {t})
  IN  /\ pc[c] = "lock" /\ ~mu
      /\ t \notin pooled /\ Dropped(gone, back)
      /\ old # {} /\ Dearer(t, old)
      /\ queued' = (queued \ gone) \cup back
      /\ pooled' = ((pooled \ gone) \ old) \cup {t}
      /\ unserved' = {d \in unserved : TxOf[d] \notin gone}
      /\ mu' = TRUE
      /\ pc' = [pc EXCEPT ![c] = "event"]
      /\ UNCHANGED <<done, headVars, stopVars, schedVars, runVars>>

\* scheduleReorgLoop takes the event, or the pool is shut down.
queueTxEvent(t) ==
  \/ Selecting /\ queuedEvents' = Put(queuedEvents, {t})
  \/ shutdown /\ UNCHANGED queuedEvents

AddEvent(c) ==
  /\ pc[c] = "event"
  /\ queueTxEvent(TxOf[c])
  /\ mu' = FALSE
  /\ pc' = [pc EXCEPT ![c] = "request"]
  /\ UNCHANGED <<done, queued, pooled, unserved, headVars, stopVars, runVars, sched, curDone,
                 nextDone, launchNextRun, reset, dirtyAccounts>>

\* A promotion request joins the pending one.
RequestMerged(t) == dirtyAccounts \cup {From[t]}

requestPromoteExecutables(c) ==
  /\ pc[c] \in {"request", "requestDirty"}
  /\ Selecting
  /\ dirtyAccounts' = IF pc[c] = "requestDirty" THEN RequestMerged(TxOf[c]) ELSE dirtyAccounts
  /\ launchNextRun' = TRUE
  /\ sched' = "reply"
  /\ pc' = [pc EXCEPT ![c] = "reply"]
  /\ UNCHANGED <<done, poolVars, headVars, stopVars, runVars, curDone, nextDone, reset,
                 queuedEvents>>

\* What a requester does once it has a channel: the loop goes back to its
\* select, AddRemotes returns, AddLocals waits for the channel to be closed.
After(p) ==
  CASE p = Loop -> "select"
    [] p \in Sync -> "wait"
    [] OTHER -> "returned"

\* The channel that the next run closes.
\* Mutant: that of the active run.
ActiveDone == curDone
DoneGiven == nextDone

\* The reply channel is shared: whoever waits on it gets what is sent.
Reply(p) ==
  /\ pc[p] = "reply" /\ sched = "reply"
  /\ done' = [done EXCEPT ![p] = DoneGiven]
  /\ pc' = [pc EXCEPT ![p] = After(p)]
  /\ sched' = "select"
  /\ UNCHANGED <<poolVars, headVars, stopVars, runVars, curDone, nextDone, launchNextRun,
                 reset, dirtyAccounts, queuedEvents>>

\* A request made after the shutdown gets the shutdown channel.
RequestRefused(c) ==
  /\ pc[c] \in {"request", "requestDirty"}
  /\ shutdown
  /\ done' = [done EXCEPT ![c] = -1]
  /\ pc' = [pc EXCEPT ![c] = After(c)]
  /\ UNCHANGED <<poolVars, headVars, stopVars, schedVars, runVars>>

Return(c) ==
  /\ pc[c] = "wait"
  /\ done[c] \in closed \/ (done[c] = -1 /\ shutdown)
  /\ pc' = [pc EXCEPT ![c] = "returned"]
  /\ UNCHANGED <<done, poolVars, headVars, stopVars, schedVars, runVars>>

-----------------------------------------------------------------------------
(* Removals, the chain, the event loop and Stop *)

\* SetGasPrice, and the loop's eviction of idle accounts.
Evict(gone, back) ==
  /\ ~mu
  /\ gone # {} /\ Dropped(gone, back)
  /\ queued' = (queued \ gone) \cup back
  /\ pooled' = pooled \ gone
  /\ unserved' = {d \in unserved : TxOf[d] \notin gone}
  /\ UNCHANGED <<callVars, mu, headVars, stopVars, schedVars, runVars>>

\* The head is a block of the node's own miner, with an event ...
HeadMined ==
  /\ chainHead < MaxHead
  /\ chainHead' = chainHead + 1
  /\ chainHeadCh' = Append(chainHeadCh, chainHead + 1)
  /\ posted' = chainHead + 1
  /\ UNCHANGED <<callVars, poolVars, head, found, poolHead, gaveUp, stopVars, schedVars, runVars>>

\* ... or one that insertChain imported, without.
HeadImported ==
  /\ chainHead < MaxHead
  /\ chainHead' = chainHead + 1
  /\ UNCHANGED <<callVars, poolVars, head, found, chainHeadCh, posted, poolHead, gaveUp, stopVars,
                 schedVars, runVars>>

\* The goroutine starts and reads the head it will compare events with.
LoopStart ==
  /\ pc[Loop] = "start"
  /\ head' = chainHead /\ found' = chainHead
  /\ pc' = [pc EXCEPT ![Loop] = "select"]
  /\ UNCHANGED <<done, poolVars, chainHead, chainHeadCh, posted, poolHead, gaveUp, stopVars,
                 schedVars, runVars>>

LoopHeadEvent ==
  /\ pc[Loop] = "select"
  /\ chainHeadCh # <<>>
  /\ pc' = [pc EXCEPT ![Loop] = "request"]
  /\ UNCHANGED <<done, poolVars, headVars, stopVars, schedVars, runVars>>

\* An already pending reset only gets the newer head.
\* Mutant: the pending request is replaced.
ResetReplaced(new) == [old |-> head, new |-> new]
ResetMerged(new) ==
  IF reset = NoReset THEN [old |-> head, new |-> new] ELSE [reset EXCEPT !.new = new]

requestReset ==
  /\ pc[Loop] = "request"
  /\ Selecting
  /\ reset' = ResetMerged(Head(chainHeadCh))
  /\ launchNextRun' = TRUE
  /\ sched' = "reply"
  /\ head' = Head(chainHeadCh)
  /\ chainHeadCh' = Tail(chainHeadCh)
  /\ pc' = [pc EXCEPT ![Loop] = "reply"]
  /\ UNCHANGED <<done, poolVars, found, chainHead, posted, poolHead, gaveUp, stopVars, runVars,
                 curDone, nextDone, dirtyAccounts, queuedEvents>>

Stop ==
  /\ ~stopping
  /\ stopping' = TRUE
  /\ UNCHANGED <<callVars, poolVars, headVars, shutdown, schedVars, runVars>>

\* The head subscription is gone: the loop closes reorgShutdownCh and ends.
LoopStop ==
  /\ pc[Loop] = "select"
  /\ stopping
  /\ shutdown' = TRUE
  /\ pc' = [pc EXCEPT ![Loop] = "returned"]
  /\ UNCHANGED <<done, poolVars, headVars, stopping, schedVars, runVars>>

-----------------------------------------------------------------------------
(* scheduleReorgLoop *)

\* What the run is given.
\* Mutants: not the events; not the reset.
RunWithoutEvents ==
  [at |-> "lock", reset |-> reset, dirty |-> dirtyAccounts, events |-> {}, again |-> {}]
RunWithoutReset ==
  [at |-> "lock", reset |-> NoReset, dirty |-> dirtyAccounts, events |-> queuedEvents, again |-> {}]
NextRun ==
  [at |-> "lock", reset |-> reset, dirty |-> dirtyAccounts, events |-> queuedEvents, again |-> {}]

LaunchRun ==
  /\ sched = "select"
  /\ curDone = 0 /\ launchNextRun
  /\ run' = NextRun
  /\ curDone' = nextDone
  /\ nextDone' = nextDone + 1
  /\ launchNextRun' = FALSE
  /\ reset' = NoReset
  /\ dirtyAccounts' = {}
  /\ queuedEvents' = {}
  /\ UNCHANGED <<callVars, poolVars, headVars, stopVars, sched, closed>>

RunFinished ==
  /\ Selecting
  /\ curDone \in closed
  /\ curDone' = 0
  /\ UNCHANGED <<callVars, poolVars, headVars, stopVars, sched, nextDone, launchNextRun, reset,
                 dirtyAccounts, queuedEvents, runVars>>

SchedShutdown ==
  /\ Selecting
  /\ shutdown
  /\ sched' = "drain"
  /\ UNCHANGED <<callVars, poolVars, headVars, stopVars, curDone, nextDone, launchNextRun,
                 reset, dirtyAccounts, queuedEvents, runVars>>

\* Channels closed on exit: that of the run which will not happen.
\* Mutant: none.
NoneClosed == {}
ClosedOnExit == {nextDone}

\* There is no active run, or it is done.
\* Mutant: the channel is waited for although there is none.
DoneReceived == curDone \in closed
NoneActive == curDone = 0 \/ curDone \in closed

SchedExit ==
  /\ sched = "drain"
  /\ NoneActive
  /\ sched' = "exited"
  /\ closed' = closed \cup ClosedOnExit
  /\ UNCHANGED <<callVars, poolVars, headVars, stopVars, curDone, nextDone, launchNextRun,
                 reset, dirtyAccounts, queuedEvents, run>>

-----------------------------------------------------------------------------
(* runReorg *)

\* Under the lock: reset moves to the new head and re-adds what the chain
\* lost: back goes to the queue, again replaces pending transactions.  Queued
\* events of nonces that are now stale are forgotten.
RunReset(stale, back, again) ==
  /\ run.at = "lock" /\ ~mu
  /\ run.reset # NoReset
  /\ \A t, u \in back \cup again : SameNonce(t, u) => t = u
  /\ \A t \in back : Replaced(pooled, {t}) \subseteq queued /\ Dearer(t, pooled)
  /\ \A t \in again : Replaced(pooled \ queued, {t}) # {} /\ Dearer(t, pooled)
  /\ mu' = TRUE
  /\ poolHead' = run.reset.new /\ gaveUp' = 0 /\ found' = 0
  /\ queued' = (queued \ Replaced(queued, back)) \cup back
  /\ pooled' = (pooled \ Replaced(pooled, back \cup again)) \cup back \cup again
  /\ unserved' = {c \in unserved : TxOf[c] \notin Replaced(queued, back)}
  /\ run' = [run EXCEPT !.at = "promote", !.again = again, !.events = @ \ stale]
  /\ UNCHANGED <<callVars, head, chainHead, chainHeadCh, posted, stopVars, schedVars,
                 closed>>

\* reset gives up on a block or a state that is missing and leaves the pool where
\* it is; the run goes on as after a reset.
RunResetAborted(stale) ==
  /\ run.at = "lock" /\ ~mu
  /\ run.reset # NoReset
  /\ mu' = TRUE
  /\ gaveUp' = run.reset.new
  /\ run' = [run EXCEPT !.at = "promote", !.events = @ \ stale]
  /\ UNCHANGED <<callVars, queued, pooled, unserved, head, found, chainHead, chainHeadCh,
                 posted, poolHead, stopVars, schedVars, closed>>

\* The event of a re-added transaction waits for a later run.
RunReinject(t) ==
  /\ t \in run.again
  /\ queueTxEvent(t)
  /\ run' = [run EXCEPT !.again = @ \ {t}]
  /\ UNCHANGED <<callVars, poolVars, headVars, stopVars, closed, sched, curDone,
                 nextDone, launchNextRun, reset, dirtyAccounts>>

RunLock ==
  /\ run.at = "lock" /\ ~mu
  /\ run.reset = NoReset
  /\ mu' = TRUE
  /\ run' = [run EXCEPT !.at = "promote"]
  /\ UNCHANGED <<callVars, queued, pooled, unserved, headVars, stopVars, schedVars, closed>>

\* Accounts promoteExecutables looks at.
PromoteAddrs == IF run.reset = NoReset THEN run.dirty ELSE {From[t] : t \in queued}
Promotable == {t \in queued : From[t] \in PromoteAddrs}

\* promoteExecutables moves the transactions P to pending, demoteUnexecutables,
\* after a reset, the transactions down back to the queue, and all of it drops the
\* transactions gone; then the lock is released.  What was promoted is announced.
RunPromote(P, down, gone) ==
  /\ run.at = "promote" /\ run.again = {}
  /\ run.reset = NoReset => down = {}
  /\ mu' = FALSE
  /\ queued' = ((queued \ P) \cup down) \ gone
  /\ pooled' = pooled \ gone
  /\ unserved' = {c \in unserved : TxOf[c] \notin Promotable \cup gone}
  /\ run' = [run EXCEPT !.at = "announce", !.events = Put(@, P)]
  /\ UNCHANGED <<callVars, headVars, stopVars, schedVars, closed>>

\* txFeed.Send, if there is anything to send, returns once every subscriber has
\* room for it, and done is closed.
RunAnnounce ==
  /\ run.at = "announce"
  /\ closed' = closed \cup {curDone}
  /\ run' = NoRun
  /\ UNCHANGED <<callVars, mu, queued, pooled, unserved, headVars, stopVars, schedVars>>

-----------------------------------------------------------------------------
Init ==
  /\ pc = [p \in Procs |-> "start"]
  /\ done = [p \in Procs |-> 0]
  /\ mu = FALSE /\ queued = {} /\ pooled = {} /\ unserved = {}
  /\ head = 0 /\ found = 0 /\ chainHead = 0 /\ chainHeadCh = <<>> /\ posted = 0
  /\ poolHead = 0 /\ gaveUp = 0
  /\ stopping = FALSE /\ shutdown = FALSE
  /\ sched = "select" /\ curDone = 0 /\ nextDone = 1
  /\ launchNextRun = FALSE /\ reset = NoReset /\ dirtyAccounts = {} /\ queuedEvents = {}
  /\ closed = {} /\ run = NoRun

CallerStep(c) ==
  \/ Filter(c)
  \/ /\ pc[c] = "lock"
     /\ \E gone \in SUBSET pooled : \E back \in SUBSET ((pooled \ queued) \ gone) :
          AddRejected(c, gone, back) \/ AddQueued(c, gone, back) \/ AddReplacing(c, gone, back)
  \/ AddEvent(c)
  \/ requestPromoteExecutables(c)
  \/ RequestRefused(c)
  \/ Return(c)

LoopStep == LoopStart \/ LoopHeadEvent \/ requestReset \/ LoopStop

SchedStep ==
  \/ \E p \in Procs : Reply(p)
  \/ LaunchRun
  \/ RunFinished
  \/ SchedShutdown
  \/ SchedExit

RunStep ==
  \/ /\ run.at = "lock"
     /\ \E stale \in SUBSET run.events, back \in SUBSET (Mined \ pooled) :
          \E again \in SUBSET ((Mined \ pooled) \ back) : RunReset(stale, back, again)
  \/ \E stale \in SUBSET run.events : RunResetAborted(stale)
  \/ \E t \in run.again : RunReinject(t)
  \/ RunLock
  \/ /\ run.at = "promote"
     /\ \E P \in SUBSET Promotable, gone \in SUBSET pooled :
          \E down \in SUBSET ((pooled \ queued) \cup P) : RunPromote(P, down, gone)

Next ==
  \/ \E c \in Callers : CallerStep(c)
  \/ LoopStep
  \/ SchedStep
  \/ RunStep
  \/ RunAnnounce
  \/ \E gone \in SUBSET pooled : \E back \in SUBSET ((pooled \ queued) \ gone) : Evict(gone, back)
  \/ HeadMined \/ HeadImported
  \/ Stop

\* A Send waits for subscribers, who need not read; Stop unsubscribes them.
Sending == run.at = "announce" /\ run.events # {}

\* Goroutines that can go on do; nobody has to call, mine, read events or stop.
Fairness ==
  /\ \A c \in Callers : WF_vars(pc[c] \notin {"start", "returned"} /\ CallerStep(c))
  /\ WF_vars(pc[Loop] # "returned" /\ LoopStep)
  /\ WF_vars(sched # "exited" /\ SchedStep)
  /\ WF_vars(run.at \in {"lock", "promote"} /\ RunStep)
  /\ WF_vars(run.at = "announce" /\ (~Sending \/ stopping) /\ RunAnnounce)

Spec == Init /\ [][Next]_vars /\ Fairness

-----------------------------------------------------------------------------

\* The channel a caller was given is closed by a run that has looked at its
\* account, unless the pool is shut down: when AddLocals returns, the caller's
\* transaction was promoted if it could be.
ServedWhenDone ==
  \A c \in Callers : done[c] \in closed /\ done[c] < nextDone => c \notin unserved

\* Merged or not, a reset starts from the head the pool is on, so that no
\* abandoned block is overlooked (the first one starts from the head the loop
\* found).  Only after a reset that gave up the next one starts from the head
\* that was not reached.
ResetContinues ==
  run.at = "lock" /\ run.reset # NoReset =>
    run.reset.old = IF gaveUp # 0 THEN gaveUp ELSE IF poolHead = 0 THEN found ELSE poolHead

\* Every Send comes to an end.
SendsEnd == []<>~Sending

\* Whoever calls addTxs gets an answer, whatever runs, resets or stops meanwhile;
\* AddLocals if no Send waits for ever for a subscriber, AddRemotes even then.
CallersReturn ==
  /\ \A c \in Callers \ Sync : <>[](pc[c] \in {"start", "returned"})
  /\ SendsEnd => \A c \in Sync : <>[](pc[c] \in {"start", "returned"})

\* Stop ends both goroutines it waits for.
StopCompletes == <>[](stopping => pc[Loop] = "returned" /\ sched = "exited")

\* Unless it is stopped or a Send waits for ever, the pool ends up on the last
\* head it was told of, or has given up on it.
HeadFollowed == SendsEnd => <>[](stopping \/ posted \in {poolHead, gaveUp})

\* An event that was queued, or is in the hands of a run, ends in txFeed.  A
\* reset may forget it, if its nonce is stale, and it gives way to the event of
\* the transaction that took its place in the pool.
EventsKept ==
  [][\A t \in queuedEvents \cup run.events :
       \/ t \in queuedEvents' \cup run'.events
       \/ t \in run.events /\ run.at = "announce"
       \/ t \in run.events /\ run.at = "lock" /\ run.reset # NoReset
       \/ t \notin pooled' /\ Replaced({t}, queuedEvents' \cup run'.events) # {}]_vars

=============================================================================
