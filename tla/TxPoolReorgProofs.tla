------------------------- MODULE TxPoolReorgProofs --------------------------
(***************************************************************************)
(* What holds of the pool's goroutines for any callers, transactions and    *)
(* number of heads: who is told that a run is done, where a reset starts,   *)
(* and that no event is dropped between two runs.                           *)
(***************************************************************************)
EXTENDS TxPoolReorg, TLAPS

USE ZenonT(10), SMTT(60)

Resets == [old : Nat, new : Nat]
Runs == [at : {"none", "lock", "promote", "announce"}, reset : Resets,
         dirty : SUBSET Accounts, events : SUBSET Txs, again : SUBSET Txs]

Points == {"start", "lock", "event", "request", "requestDirty", "reply", "wait", "returned", "select"}
Heads == Nat \ {0}

TypeOK ==
  /\ pc \in [Procs -> Points] /\ done \in [Procs -> Int]
  /\ queued \in SUBSET Txs /\ pooled \in SUBSET Txs
  /\ unserved \in SUBSET Callers
  /\ head \in Nat /\ found \in Nat /\ chainHead \in Nat
  /\ posted \in Nat /\ poolHead \in Nat /\ gaveUp \in Nat
  /\ chainHeadCh \in Seq(Heads)
  /\ curDone \in Nat /\ nextDone \in Nat \ {0}
  /\ reset \in Resets /\ dirtyAccounts \in SUBSET Accounts /\ queuedEvents \in SUBSET Txs
  /\ closed \in SUBSET (Nat \ {0})
  /\ run \in Runs

\* A done channel belongs to one run: that of the active run is open, those of
\* earlier runs are behind nextDone, and nextDone is closed on exit only.
Channels ==
  /\ curDone < nextDone
  /\ \A d \in closed : d < nextDone \/ (d = nextDone /\ sched = "exited")
  /\ run = NoRun \/ (run.at # "none" /\ curDone # 0 /\ curDone \notin closed)

\* Whoever waits for a reply is alone, and the scheduler is about to send it;
\* a caller has no channel before.
Replies ==
  /\ \A p \in Procs : pc[p] = "reply" => sched = "reply"
  /\ \A p, q \in Procs : pc[p] = "reply" /\ pc[q] = "reply" => p = q
  /\ \A c \in Callers :
       pc[c] \in {"start", "lock", "event", "request", "requestDirty", "reply"} => done[c] = 0

\* The pool's lock has one holder: a caller that queues an event, or the run.
Locked ==
  /\ run.at = "promote" => mu
  /\ \A c \in Callers : pc[c] = "event" => mu /\ run.at # "promote"
  /\ \A c, d \in Callers : pc[c] = "event" /\ pc[d] = "event" => c = d
  /\ run.at # "promote" => run.again = {}

\* The pool holds one transaction of an account and nonce, and that is the one
\* whose event is about to be queued.
OnePerNonce ==
  /\ queued \subseteq pooled
  /\ \A t, u \in pooled : SameNonce(t, u) => t = u
  /\ \A c \in Callers : pc[c] = "event" => TxOf[c] \in pooled
  /\ run.again \subseteq pooled

\* Where the account of a caller is on its way into a run, and which channel
\* the caller has meanwhile.
OnItsWay(c) ==
  \/ pc[c] = "requestDirty" /\ done[c] = 0
  \/ pc[c] = "reply" /\ done[c] = 0 /\ From[TxOf[c]] \in dirtyAccounts
  \/ pc[c] \in {"wait", "returned"} /\ done[c] = -1
  \/ pc[c] \in {"wait", "returned"} /\ done[c] = nextDone /\ From[TxOf[c]] \in dirtyAccounts
  \/ /\ pc[c] \in {"wait", "returned"} /\ done[c] = curDone
     /\ run.at \in {"lock", "promote"}
     /\ run.reset = NoReset => From[TxOf[c]] \in run.dirty

Served == \A c \in unserved : TxOf[c] \in queued /\ OnItsWay(c)

\* The head from which the next reset must start.
Base == IF gaveUp # 0 THEN gaveUp ELSE IF poolHead = 0 THEN found ELSE poolHead
Resetting == run.at = "lock" /\ run.reset # NoReset

\* The heads form a chain: where the pool is or gave up, where the active reset
\* takes it, where the pending one does, and the loop's head is the last.
HeadsLinked ==
  /\ pc[Loop] = "start" => poolHead = 0 /\ gaveUp = 0 /\ reset = NoReset /\ run.reset = NoReset
  /\ pc[Loop] = "request" => chainHeadCh # <<>>
  /\ reset # NoReset => reset.new = head /\ head # 0
  /\ Resetting => run.reset.new # 0
  /\ Resetting => run.reset.old = Base
  /\ Resetting => IF reset = NoReset THEN head = run.reset.new ELSE reset.old = run.reset.new
  /\ ~Resetting => IF reset = NoReset THEN head = Base ELSE reset.old = Base

-----------------------------------------------------------------------------
(* Types *)

\* Every step keeps the types.
LEMMA TypeStep ==
  ASSUME TypeOK, Channels, HeadsLinked, [Next]_vars
  PROVE  TypeOK'
<1>1. ASSUME NEW c \in Callers, Filter(c)
       PROVE  TypeOK'
  BY <1>1, CallAssumption DEF Filter, headVars, poolVars, runVars, schedVars, stopVars, TypeOK, Procs, Points, Runs, Resets, NoReset, NoRun
<1>2. ASSUME NEW c \in Callers, NEW gone \in SUBSET pooled,
             NEW back \in SUBSET ((pooled \ queued) \ gone), AddRejected(c, gone, back)
       PROVE  TypeOK'
  BY <1>2, CallAssumption DEF AddRejected, headVars, runVars, schedVars, stopVars, TypeOK, Procs, Points, Runs, Resets, NoReset, NoRun
<1>3. ASSUME NEW c \in Callers, NEW gone \in SUBSET pooled,
             NEW back \in SUBSET ((pooled \ queued) \ gone), AddQueued(c, gone, back)
       PROVE  TypeOK'
  BY <1>3, CallAssumption DEF AddQueued, headVars, runVars, schedVars, stopVars, Replaced, TypeOK, Procs, Points, Runs, Resets, NoReset, NoRun
<1>4. ASSUME NEW c \in Callers, NEW gone \in SUBSET pooled,
             NEW back \in SUBSET ((pooled \ queued) \ gone), AddReplacing(c, gone, back)
       PROVE  TypeOK'
  BY <1>4, CallAssumption DEF AddReplacing, headVars, runVars, schedVars, stopVars, Replaced, TypeOK, Procs, Points, Runs, Resets, NoReset, NoRun
<1>5. ASSUME NEW c \in Callers, AddEvent(c)
       PROVE  TypeOK'
  <2>1. TxOf[c] \in Txs /\ c \in Procs
    BY CallAssumption DEF Procs
  <2>2. queuedEvents' \in SUBSET Txs
    BY <1>5, <2>1 DEF AddEvent, queueTxEvent, Put, Replaced, TypeOK
  <2> QED
    BY <1>5, <2>1, <2>2 DEF AddEvent, headVars, runVars, stopVars, TypeOK, Points
<1>6. ASSUME NEW c \in Callers, requestPromoteExecutables(c)
       PROVE  TypeOK'
  <2>1. TxOf[c] \in Txs /\ From[TxOf[c]] \in Accounts /\ c \in Procs
    BY CallAssumption DEF Procs
  <2>2. dirtyAccounts' \in SUBSET Accounts
    BY <1>6, <2>1 DEF requestPromoteExecutables, RequestMerged, TypeOK
  <2> QED
    BY <1>6, <2>1, <2>2 DEF requestPromoteExecutables, headVars, poolVars, runVars, stopVars, TypeOK, Points
<1>7. ASSUME NEW c \in Callers, RequestRefused(c)
       PROVE  TypeOK'
  <2>1. After(c) \in Points /\ c \in Procs
    BY CallAssumption DEF After, Points, Procs
  <2> QED
    BY <1>7, <2>1 DEF RequestRefused, headVars, poolVars, runVars, schedVars, stopVars, TypeOK
<1>8. ASSUME NEW c \in Callers, Return(c)
       PROVE  TypeOK'
  BY <1>8, CallAssumption DEF Return, headVars, poolVars, runVars, schedVars, stopVars, TypeOK, Procs, Points, Runs, Resets, NoReset, NoRun
<1>9. CASE LoopStart
  BY <1>9, CallAssumption DEF LoopStart, poolVars, runVars, schedVars, stopVars, TypeOK, Procs, Points, Runs, Resets, NoReset, NoRun
<1>10. CASE LoopHeadEvent
  BY <1>10, CallAssumption DEF LoopHeadEvent, headVars, poolVars, runVars, schedVars, stopVars, TypeOK, Procs, Points, Runs, Resets, NoReset, NoRun
<1>11. CASE requestReset
  <2>1. chainHeadCh # <<>>
    BY <1>11 DEF requestReset, HeadsLinked
  <2>2. Head(chainHeadCh) \in Heads /\ Tail(chainHeadCh) \in Seq(Heads)
    BY <2>1 DEF TypeOK
  <2>3. Head(chainHeadCh) \in Nat
    BY <2>2 DEF Heads
  <2> QED
    BY <1>11, <2>2, <2>3 DEF requestReset, ResetMerged, poolVars, runVars, stopVars, TypeOK, Procs, Points, Runs, Resets, NoReset, NoRun
<1>12. CASE LoopStop
  BY <1>12, CallAssumption DEF LoopStop, headVars, poolVars, runVars, schedVars, TypeOK, Procs, Points, Runs, Resets, NoReset, NoRun
<1>13. ASSUME NEW p \in Procs, Reply(p)
       PROVE  TypeOK'
  BY <1>13, CallAssumption DEF Reply, After, DoneGiven, headVars, poolVars, runVars, stopVars, TypeOK, Procs, Points, Runs, Resets, NoReset, NoRun
<1>14. CASE LaunchRun
  BY <1>14, CallAssumption DEF LaunchRun, NextRun, callVars, headVars, poolVars, stopVars, TypeOK, Procs, Points, Runs, Resets, NoReset, NoRun
<1>15. CASE RunFinished
  BY <1>15, CallAssumption DEF RunFinished, Selecting, callVars, headVars, poolVars, runVars, stopVars, TypeOK, Procs, Points, Runs, Resets, NoReset,
    NoRun
<1>16. CASE SchedShutdown
  BY <1>16, CallAssumption DEF SchedShutdown, Selecting, callVars, headVars, poolVars, runVars, stopVars, TypeOK, Procs, Points, Runs, Resets,
    NoReset, NoRun
<1>17. CASE SchedExit
  BY <1>17, CallAssumption DEF SchedExit, ClosedOnExit, callVars, headVars, poolVars, stopVars, TypeOK, Procs, Points, Runs, Resets, NoReset, NoRun
<1>18. ASSUME NEW stale \in SUBSET run.events, NEW back \in SUBSET (Mined \ pooled),
             NEW again \in SUBSET ((Mined \ pooled) \ back), RunReset(stale, back, again)
       PROVE  TypeOK'
  <2>1. run' \in Runs
    BY <1>18, CallAssumption DEF RunReset, TypeOK, Runs
  <2>2. queued' \in SUBSET Txs /\ pooled' \in SUBSET Txs /\ unserved' \in SUBSET Callers
    BY <1>18, CallAssumption DEF RunReset, Replaced, TypeOK
  <2>3. run.reset.new \in Nat
    BY DEF TypeOK, Runs, Resets
  <2> QED
    BY <1>18, <2>1, <2>2, <2>3 DEF RunReset, callVars, schedVars, stopVars, TypeOK
<1>19. ASSUME NEW stale \in SUBSET run.events, RunResetAborted(stale)
       PROVE  TypeOK'
  <2>1. run' \in Runs
    BY <1>19 DEF RunResetAborted, TypeOK, Runs
  <2>2. run.reset.new \in Nat
    BY DEF TypeOK, Runs, Resets
  <2> QED
    BY <1>19, <2>1, <2>2 DEF RunResetAborted, callVars, schedVars, stopVars, TypeOK
<1>20. ASSUME NEW t \in run.again, RunReinject(t)
       PROVE  TypeOK'
  <2>1. t \in Txs
    BY <1>20 DEF TypeOK, Runs
  <2>2. queuedEvents' \in SUBSET Txs
    BY <1>20, <2>1 DEF RunReinject, queueTxEvent, Put, Replaced, TypeOK
  <2>3. run' \in Runs
    BY <1>20 DEF RunReinject, TypeOK, Runs
  <2> QED
    BY <1>20, <2>2, <2>3 DEF RunReinject, callVars, headVars, poolVars, stopVars, TypeOK
<1>21. CASE RunLock
  <2>1. run' \in Runs
    BY <1>21 DEF RunLock, TypeOK, Runs
  <2> QED
    BY <1>21, <2>1 DEF RunLock, callVars, headVars, schedVars, stopVars, TypeOK
<1>22. ASSUME NEW P \in SUBSET Promotable, NEW gone \in SUBSET pooled,
             NEW down \in SUBSET ((pooled \ queued) \cup P), RunPromote(P, down, gone)
       PROVE  TypeOK'
  <2>1. P \in SUBSET Txs
    BY DEF Promotable, TypeOK
  <2>2. Put(run.events, P) \in SUBSET Txs
    BY <2>1 DEF Put, Replaced, TypeOK, Runs
  <2>3. run' \in Runs
    BY <1>22, <2>2 DEF RunPromote, TypeOK, Runs
  <2>4. queued' \in SUBSET Txs /\ pooled' \in SUBSET Txs /\ unserved' \in SUBSET Callers
    BY <1>22, <2>1 DEF RunPromote, TypeOK
  <2> QED
    BY <1>22, <2>3, <2>4 DEF RunPromote, callVars, headVars, schedVars, stopVars, TypeOK
<1>23. CASE RunAnnounce
  <2>1. curDone \in Nat \ {0}
    BY <1>23 DEF RunAnnounce, Channels, NoRun, TypeOK
  <2>2. NoRun \in Runs
    BY DEF NoRun, Runs, NoReset, Resets
  <2> QED
    BY <1>23, <2>1, <2>2 DEF RunAnnounce, callVars, headVars, schedVars, stopVars, TypeOK
<1>24. ASSUME NEW gone \in SUBSET pooled, NEW back \in SUBSET ((pooled \ queued) \ gone),
             Evict(gone, back)
       PROVE  TypeOK'
  BY <1>24, CallAssumption DEF Evict, callVars, headVars, runVars, schedVars, stopVars, TypeOK, Procs, Points, Runs, Resets, NoReset, NoRun
<1>25. CASE HeadMined
  <2>1. chainHead' \in Nat /\ posted' \in Nat /\ chainHead + 1 \in Heads
    BY <1>25 DEF HeadMined, Heads, TypeOK
  <2>2. chainHeadCh' \in Seq(Heads)
    BY <1>25, <2>1 DEF HeadMined, TypeOK
  <2> QED
    BY <1>25, <2>1, <2>2 DEF HeadMined, callVars, poolVars, runVars, schedVars, stopVars, TypeOK
<1>26. CASE HeadImported
  BY <1>26, CallAssumption DEF HeadImported, callVars, poolVars, runVars, schedVars, stopVars, TypeOK, Procs, Points, Runs, Resets, NoReset, NoRun
<1>27. CASE Stop
  BY <1>27, CallAssumption DEF Stop, callVars, headVars, poolVars, runVars, schedVars, TypeOK, Procs, Points, Runs, Resets, NoReset, NoRun
<1>28. CASE UNCHANGED vars
  BY <1>28, CallAssumption DEF vars, callVars, headVars, poolVars, runVars, schedVars, stopVars, TypeOK, Procs, Points, Runs, Resets, NoReset, NoRun
<1>29. ASSUME NEW c \in Callers, CallerStep(c)
       PROVE  TypeOK'
  BY <1>1, <1>2, <1>3, <1>4, <1>5, <1>6, <1>7, <1>8, <1>29 DEF CallerStep
<1>30. CASE LoopStep
  BY <1>9, <1>10, <1>11, <1>12, <1>30 DEF LoopStep
<1>31. CASE SchedStep
  BY <1>13, <1>14, <1>15, <1>16, <1>17, <1>31 DEF SchedStep
<1>32. CASE RunStep
  BY <1>18, <1>19, <1>20, <1>21, <1>22, <1>32 DEF RunStep
<1> QED
  BY <1>23, <1>24, <1>25, <1>26, <1>27, <1>28, <1>29, <1>30, <1>31, <1>32 DEF Next

-----------------------------------------------------------------------------
(* Channels, replies and the lock *)

\* Every step keeps the channels of the runs apart.
LEMMA ChannelsStep ==
  ASSUME TypeOK, Channels, [Next]_vars
  PROVE  Channels'
<1>1. ASSUME NEW c \in Callers, Filter(c)
       PROVE  Channels'
  BY <1>1 DEF Filter, headVars, poolVars, runVars, schedVars, stopVars, Channels, NoRun, TypeOK, Runs
<1>2. ASSUME NEW c \in Callers, NEW gone \in SUBSET pooled,
             NEW back \in SUBSET ((pooled \ queued) \ gone), AddRejected(c, gone, back)
       PROVE  Channels'
  BY <1>2 DEF AddRejected, headVars, runVars, schedVars, stopVars, Channels, NoRun, TypeOK, Runs
<1>3. ASSUME NEW c \in Callers, NEW gone \in SUBSET pooled,
             NEW back \in SUBSET ((pooled \ queued) \ gone), AddQueued(c, gone, back)
       PROVE  Channels'
  BY <1>3 DEF AddQueued, headVars, runVars, schedVars, stopVars, Channels, NoRun, TypeOK, Runs
<1>4. ASSUME NEW c \in Callers, NEW gone \in SUBSET pooled,
             NEW back \in SUBSET ((pooled \ queued) \ gone), AddReplacing(c, gone, back)
       PROVE  Channels'
  BY <1>4 DEF AddReplacing, headVars, runVars, schedVars, stopVars, Channels, NoRun, TypeOK, Runs
<1>5. ASSUME NEW c \in Callers, AddEvent(c)
       PROVE  Channels'
  BY <1>5 DEF AddEvent, queueTxEvent, headVars, runVars, stopVars, Channels, NoRun, TypeOK, Runs
<1>6. ASSUME NEW c \in Callers, requestPromoteExecutables(c)
       PROVE  Channels'
  BY <1>6 DEF requestPromoteExecutables, RequestMerged, Selecting, headVars, poolVars, runVars, stopVars, Channels, NoRun, TypeOK, Runs
<1>7. ASSUME NEW c \in Callers, RequestRefused(c)
       PROVE  Channels'
  BY <1>7 DEF RequestRefused, After, headVars, poolVars, runVars, schedVars, stopVars, Channels, NoRun, TypeOK, Runs
<1>8. ASSUME NEW c \in Callers, Return(c)
       PROVE  Channels'
  BY <1>8 DEF Return, headVars, poolVars, runVars, schedVars, stopVars, Channels, NoRun, TypeOK, Runs
<1>9. CASE LoopStart
  BY <1>9 DEF LoopStart, poolVars, runVars, schedVars, stopVars, Channels, NoRun, TypeOK, Runs
<1>10. CASE LoopHeadEvent
  BY <1>10 DEF LoopHeadEvent, headVars, poolVars, runVars, schedVars, stopVars, Channels, NoRun, TypeOK, Runs
<1>11. CASE requestReset
  BY <1>11 DEF requestReset, ResetMerged, Selecting, poolVars, runVars, stopVars, Channels, NoRun, TypeOK, Runs
<1>12. CASE LoopStop
  BY <1>12 DEF LoopStop, headVars, poolVars, runVars, schedVars, Channels, NoRun, TypeOK, Runs
<1>13. ASSUME NEW p \in Procs, Reply(p)
       PROVE  Channels'
  BY <1>13 DEF Reply, After, DoneGiven, headVars, poolVars, runVars, stopVars, Channels, NoRun, TypeOK, Runs
<1>14. CASE LaunchRun
  BY <1>14 DEF LaunchRun, NextRun, callVars, headVars, poolVars, stopVars, Channels, NoRun, TypeOK, Runs
<1>15. CASE RunFinished
  BY <1>15 DEF RunFinished, Selecting, callVars, headVars, poolVars, runVars, stopVars, Channels, NoRun, TypeOK, Runs
<1>16. CASE SchedShutdown
  BY <1>16 DEF SchedShutdown, Selecting, callVars, headVars, poolVars, runVars, stopVars, Channels, NoRun, TypeOK, Runs
<1>17. CASE SchedExit
  BY <1>17 DEF SchedExit, ClosedOnExit, callVars, headVars, poolVars, stopVars, Channels, NoRun, TypeOK, Runs
<1>18. ASSUME NEW stale \in SUBSET run.events, NEW back \in SUBSET (Mined \ pooled),
             NEW again \in SUBSET ((Mined \ pooled) \ back), RunReset(stale, back, again)
       PROVE  Channels'
  BY <1>18 DEF RunReset, callVars, schedVars, stopVars, Channels, NoRun, TypeOK, Runs
<1>19. ASSUME NEW stale \in SUBSET run.events, RunResetAborted(stale)
       PROVE  Channels'
  BY <1>19 DEF RunResetAborted, callVars, schedVars, stopVars, Channels, NoRun, TypeOK, Runs
<1>20. ASSUME NEW t \in run.again, RunReinject(t)
       PROVE  Channels'
  BY <1>20 DEF RunReinject, queueTxEvent, callVars, headVars, poolVars, stopVars, Channels, NoRun, TypeOK, Runs
<1>21. CASE RunLock
  BY <1>21 DEF RunLock, callVars, headVars, schedVars, stopVars, Channels, NoRun, TypeOK, Runs
<1>22. ASSUME NEW P \in SUBSET Promotable, NEW gone \in SUBSET pooled,
             NEW down \in SUBSET ((pooled \ queued) \cup P), RunPromote(P, down, gone)
       PROVE  Channels'
  BY <1>22 DEF RunPromote, callVars, headVars, schedVars, stopVars, Channels, NoRun, TypeOK, Runs
<1>23. CASE RunAnnounce
  BY <1>23 DEF RunAnnounce, callVars, headVars, schedVars, stopVars, Channels, NoRun, TypeOK, Runs
<1>24. ASSUME NEW gone \in SUBSET pooled, NEW back \in SUBSET ((pooled \ queued) \ gone),
             Evict(gone, back)
       PROVE  Channels'
  BY <1>24 DEF Evict, callVars, headVars, runVars, schedVars, stopVars, Channels, NoRun, TypeOK, Runs
<1>25. CASE HeadMined
  BY <1>25 DEF HeadMined, callVars, poolVars, runVars, schedVars, stopVars, Channels, NoRun, TypeOK, Runs
<1>26. CASE HeadImported
  BY <1>26 DEF HeadImported, callVars, poolVars, runVars, schedVars, stopVars, Channels, NoRun, TypeOK, Runs
<1>27. CASE Stop
  BY <1>27 DEF Stop, callVars, headVars, poolVars, runVars, schedVars, Channels, NoRun, TypeOK, Runs
<1>28. CASE UNCHANGED vars
  BY <1>28 DEF vars, callVars, headVars, poolVars, runVars, schedVars, stopVars, Channels, NoRun, TypeOK, Runs
<1>29. ASSUME NEW c \in Callers, CallerStep(c)
       PROVE  Channels'
  BY <1>1, <1>2, <1>3, <1>4, <1>5, <1>6, <1>7, <1>8, <1>29 DEF CallerStep
<1>30. CASE LoopStep
  BY <1>9, <1>10, <1>11, <1>12, <1>30 DEF LoopStep
<1>31. CASE SchedStep
  BY <1>13, <1>14, <1>15, <1>16, <1>17, <1>31 DEF SchedStep
<1>32. CASE RunStep
  BY <1>18, <1>19, <1>20, <1>21, <1>22, <1>32 DEF RunStep
<1> QED
  BY <1>23, <1>24, <1>25, <1>26, <1>27, <1>28, <1>29, <1>30, <1>31, <1>32 DEF Next

\* Every step leaves at most one requester waiting for a reply.
LEMMA RepliesStep ==
  ASSUME TypeOK, Replies, [Next]_vars
  PROVE  Replies'
<1>1. ASSUME NEW c \in Callers, Filter(c)
       PROVE  Replies'
  BY <1>1, CallAssumption DEF Filter, headVars, poolVars, runVars, schedVars, stopVars, Replies, TypeOK, Procs, Loop
<1>2. ASSUME NEW c \in Callers, NEW gone \in SUBSET pooled,
             NEW back \in SUBSET ((pooled \ queued) \ gone), AddRejected(c, gone, back)
       PROVE  Replies'
  BY <1>2, CallAssumption DEF AddRejected, headVars, runVars, schedVars, stopVars, Replies, TypeOK, Procs, Loop
<1>3. ASSUME NEW c \in Callers, NEW gone \in SUBSET pooled,
             NEW back \in SUBSET ((pooled \ queued) \ gone), AddQueued(c, gone, back)
       PROVE  Replies'
  BY <1>3, CallAssumption DEF AddQueued, headVars, runVars, schedVars, stopVars, Replies, TypeOK, Procs, Loop
<1>4. ASSUME NEW c \in Callers, NEW gone \in SUBSET pooled,
             NEW back \in SUBSET ((pooled \ queued) \ gone), AddReplacing(c, gone, back)
       PROVE  Replies'
  BY <1>4, CallAssumption DEF AddReplacing, headVars, runVars, schedVars, stopVars, Replies, TypeOK, Procs, Loop
<1>5. ASSUME NEW c \in Callers, AddEvent(c)
       PROVE  Replies'
  BY <1>5, CallAssumption DEF AddEvent, queueTxEvent, headVars, runVars, stopVars, Replies, TypeOK, Procs, Loop
<1>6. ASSUME NEW c \in Callers, requestPromoteExecutables(c)
       PROVE  Replies'
  BY <1>6, CallAssumption DEF requestPromoteExecutables, RequestMerged, Selecting, headVars, poolVars, runVars, stopVars, Replies, TypeOK, Procs, Loop
<1>7. ASSUME NEW c \in Callers, RequestRefused(c)
       PROVE  Replies'
  BY <1>7, CallAssumption DEF RequestRefused, After, headVars, poolVars, runVars, schedVars, stopVars, Replies, TypeOK, Procs, Loop
<1>8. ASSUME NEW c \in Callers, Return(c)
       PROVE  Replies'
  BY <1>8, CallAssumption DEF Return, headVars, poolVars, runVars, schedVars, stopVars, Replies, TypeOK, Procs, Loop
<1>9. CASE LoopStart
  BY <1>9, CallAssumption DEF LoopStart, poolVars, runVars, schedVars, stopVars, Replies, TypeOK, Procs, Loop
<1>10. CASE LoopHeadEvent
  BY <1>10, CallAssumption DEF LoopHeadEvent, headVars, poolVars, runVars, schedVars, stopVars, Replies, TypeOK, Procs, Loop
<1>11. CASE requestReset
  BY <1>11, CallAssumption DEF requestReset, ResetMerged, Selecting, poolVars, runVars, stopVars, Replies, TypeOK, Procs, Loop
<1>12. CASE LoopStop
  BY <1>12, CallAssumption DEF LoopStop, headVars, poolVars, runVars, schedVars, Replies, TypeOK, Procs, Loop
<1>13. ASSUME NEW p \in Procs, Reply(p)
       PROVE  Replies'
  BY <1>13, CallAssumption DEF Reply, After, DoneGiven, headVars, poolVars, runVars, stopVars, Replies, TypeOK, Procs, Loop
<1>14. CASE LaunchRun
  BY <1>14, CallAssumption DEF LaunchRun, NextRun, callVars, headVars, poolVars, stopVars, Replies, TypeOK, Procs, Loop
<1>15. CASE RunFinished
  BY <1>15, CallAssumption DEF RunFinished, Selecting, callVars, headVars, poolVars, runVars, stopVars, Replies, TypeOK, Procs, Loop
<1>16. CASE SchedShutdown
  BY <1>16, CallAssumption DEF SchedShutdown, Selecting, callVars, headVars, poolVars, runVars, stopVars, Replies, TypeOK, Procs, Loop
<1>17. CASE SchedExit
  BY <1>17, CallAssumption DEF SchedExit, ClosedOnExit, callVars, headVars, poolVars, stopVars, Replies, TypeOK, Procs, Loop
<1>18. ASSUME NEW stale \in SUBSET run.events, NEW back \in SUBSET (Mined \ pooled),
             NEW again \in SUBSET ((Mined \ pooled) \ back), RunReset(stale, back, again)
       PROVE  Replies'
  BY <1>18, CallAssumption DEF RunReset, callVars, schedVars, stopVars, Replies, TypeOK, Procs, Loop
<1>19. ASSUME NEW stale \in SUBSET run.events, RunResetAborted(stale)
       PROVE  Replies'
  BY <1>19, CallAssumption DEF RunResetAborted, callVars, schedVars, stopVars, Replies, TypeOK, Procs, Loop
<1>20. ASSUME NEW t \in run.again, RunReinject(t)
       PROVE  Replies'
  BY <1>20, CallAssumption DEF RunReinject, queueTxEvent, callVars, headVars, poolVars, stopVars, Replies, TypeOK, Procs, Loop
<1>21. CASE RunLock
  BY <1>21, CallAssumption DEF RunLock, callVars, headVars, schedVars, stopVars, Replies, TypeOK, Procs, Loop
<1>22. ASSUME NEW P \in SUBSET Promotable, NEW gone \in SUBSET pooled,
             NEW down \in SUBSET ((pooled \ queued) \cup P), RunPromote(P, down, gone)
       PROVE  Replies'
  BY <1>22, CallAssumption DEF RunPromote, callVars, headVars, schedVars, stopVars, Replies, TypeOK, Procs, Loop
<1>23. CASE RunAnnounce
  BY <1>23, CallAssumption DEF RunAnnounce, callVars, headVars, schedVars, stopVars, Replies, TypeOK, Procs, Loop
<1>24. ASSUME NEW gone \in SUBSET pooled, NEW back \in SUBSET ((pooled \ queued) \ gone),
             Evict(gone, back)
       PROVE  Replies'
  BY <1>24, CallAssumption DEF Evict, callVars, headVars, runVars, schedVars, stopVars, Replies, TypeOK, Procs, Loop
<1>25. CASE HeadMined
  BY <1>25, CallAssumption DEF HeadMined, callVars, poolVars, runVars, schedVars, stopVars, Replies, TypeOK, Procs, Loop
<1>26. CASE HeadImported
  BY <1>26, CallAssumption DEF HeadImported, callVars, poolVars, runVars, schedVars, stopVars, Replies, TypeOK, Procs, Loop
<1>27. CASE Stop
  BY <1>27, CallAssumption DEF Stop, callVars, headVars, poolVars, runVars, schedVars, Replies, TypeOK, Procs, Loop
<1>28. CASE UNCHANGED vars
  BY <1>28, CallAssumption DEF vars, callVars, headVars, poolVars, runVars, schedVars, stopVars, Replies, TypeOK, Procs, Loop
<1>29. ASSUME NEW c \in Callers, CallerStep(c)
       PROVE  Replies'
  BY <1>1, <1>2, <1>3, <1>4, <1>5, <1>6, <1>7, <1>8, <1>29 DEF CallerStep
<1>30. CASE LoopStep
  BY <1>9, <1>10, <1>11, <1>12, <1>30 DEF LoopStep
<1>31. CASE SchedStep
  BY <1>13, <1>14, <1>15, <1>16, <1>17, <1>31 DEF SchedStep
<1>32. CASE RunStep
  BY <1>18, <1>19, <1>20, <1>21, <1>22, <1>32 DEF RunStep
<1> QED
  BY <1>23, <1>24, <1>25, <1>26, <1>27, <1>28, <1>29, <1>30, <1>31, <1>32 DEF Next

\* Every step leaves pool.mu with at most one holder.
LEMMA LockedStep ==
  ASSUME TypeOK, Channels, Locked, [Next]_vars
  PROVE  Locked'
<1>1. ASSUME NEW c \in Callers, Filter(c)
       PROVE  Locked'
  BY <1>1, CallAssumption DEF Filter, headVars, poolVars, runVars, schedVars, stopVars, Locked, TypeOK, Procs, Runs, Loop, NoRun
<1>2. ASSUME NEW c \in Callers, NEW gone \in SUBSET pooled,
             NEW back \in SUBSET ((pooled \ queued) \ gone), AddRejected(c, gone, back)
       PROVE  Locked'
  BY <1>2, CallAssumption DEF AddRejected, headVars, runVars, schedVars, stopVars, Locked, TypeOK, Procs, Runs, Loop, NoRun
<1>3. ASSUME NEW c \in Callers, NEW gone \in SUBSET pooled,
             NEW back \in SUBSET ((pooled \ queued) \ gone), AddQueued(c, gone, back)
       PROVE  Locked'
  BY <1>3, CallAssumption DEF AddQueued, headVars, runVars, schedVars, stopVars, Locked, TypeOK, Procs, Runs, Loop, NoRun
<1>4. ASSUME NEW c \in Callers, NEW gone \in SUBSET pooled,
             NEW back \in SUBSET ((pooled \ queued) \ gone), AddReplacing(c, gone, back)
       PROVE  Locked'
  BY <1>4, CallAssumption DEF AddReplacing, headVars, runVars, schedVars, stopVars, Locked, TypeOK, Procs, Runs, Loop, NoRun
<1>5. ASSUME NEW c \in Callers, AddEvent(c)
       PROVE  Locked'
  BY <1>5, CallAssumption DEF AddEvent, queueTxEvent, headVars, runVars, stopVars, Locked, TypeOK, Procs, Runs, Loop, NoRun
<1>6. ASSUME NEW c \in Callers, requestPromoteExecutables(c)
       PROVE  Locked'
  BY <1>6, CallAssumption DEF requestPromoteExecutables, RequestMerged, Selecting, headVars, poolVars, runVars, stopVars, Locked, TypeOK, Procs, Runs,
    Loop, NoRun
<1>7. ASSUME NEW c \in Callers, RequestRefused(c)
       PROVE  Locked'
  BY <1>7, CallAssumption DEF RequestRefused, After, headVars, poolVars, runVars, schedVars, stopVars, Locked, TypeOK, Procs, Runs, Loop, NoRun
<1>8. ASSUME NEW c \in Callers, Return(c)
       PROVE  Locked'
  BY <1>8, CallAssumption DEF Return, headVars, poolVars, runVars, schedVars, stopVars, Locked, TypeOK, Procs, Runs, Loop, NoRun
<1>9. CASE LoopStart
  BY <1>9, CallAssumption DEF LoopStart, poolVars, runVars, schedVars, stopVars, Locked, TypeOK, Procs, Runs, Loop, NoRun
<1>10. CASE LoopHeadEvent
  BY <1>10, CallAssumption DEF LoopHeadEvent, headVars, poolVars, runVars, schedVars, stopVars, Locked, TypeOK, Procs, Runs, Loop, NoRun
<1>11. CASE requestReset
  BY <1>11, CallAssumption DEF requestReset, ResetMerged, Selecting, poolVars, runVars, stopVars, Locked, TypeOK, Procs, Runs, Loop, NoRun
<1>12. CASE LoopStop
  BY <1>12, CallAssumption DEF LoopStop, headVars, poolVars, runVars, schedVars, Locked, TypeOK, Procs, Runs, Loop, NoRun
<1>13. ASSUME NEW p \in Procs, Reply(p)
       PROVE  Locked'
  BY <1>13, CallAssumption DEF Reply, After, DoneGiven, headVars, poolVars, runVars, stopVars, Locked, TypeOK, Procs, Runs, Loop, NoRun
<1>14. CASE LaunchRun
  <2>1. run = NoRun
    BY <1>14 DEF LaunchRun, Channels
  <2>2. run.at = "none"
    BY <2>1 DEF NoRun
  <2>3. run'.at = "lock" /\ run'.again = {} /\ UNCHANGED <<pc, mu>>
    BY <1>14 DEF LaunchRun, NextRun, callVars, poolVars
  <2> QED
    BY <2>2, <2>3 DEF Locked
<1>15. CASE RunFinished
  BY <1>15, CallAssumption DEF RunFinished, Selecting, callVars, headVars, poolVars, runVars, stopVars, Locked, TypeOK, Procs, Runs, Loop, NoRun
<1>16. CASE SchedShutdown
  BY <1>16, CallAssumption DEF SchedShutdown, Selecting, callVars, headVars, poolVars, runVars, stopVars, Locked, TypeOK, Procs, Runs, Loop, NoRun
<1>17. CASE SchedExit
  BY <1>17, CallAssumption DEF SchedExit, ClosedOnExit, callVars, headVars, poolVars, stopVars, Locked, TypeOK, Procs, Runs, Loop, NoRun
<1>18. ASSUME NEW stale \in SUBSET run.events, NEW back \in SUBSET (Mined \ pooled),
             NEW again \in SUBSET ((Mined \ pooled) \ back), RunReset(stale, back, again)
       PROVE  Locked'
  BY <1>18, CallAssumption DEF RunReset, callVars, schedVars, stopVars, Locked, TypeOK, Procs, Runs, Loop, NoRun
<1>19. ASSUME NEW stale \in SUBSET run.events, RunResetAborted(stale)
       PROVE  Locked'
  BY <1>19, CallAssumption DEF RunResetAborted, callVars, schedVars, stopVars, Locked, TypeOK, Procs, Runs, Loop, NoRun
<1>20. ASSUME NEW t \in run.again, RunReinject(t)
       PROVE  Locked'
  BY <1>20, CallAssumption DEF RunReinject, queueTxEvent, callVars, headVars, poolVars, stopVars, Locked, TypeOK, Procs, Runs, Loop, NoRun
<1>21. CASE RunLock
  BY <1>21, CallAssumption DEF RunLock, callVars, headVars, schedVars, stopVars, Locked, TypeOK, Procs, Runs, Loop, NoRun
<1>22. ASSUME NEW P \in SUBSET Promotable, NEW gone \in SUBSET pooled,
             NEW down \in SUBSET ((pooled \ queued) \cup P), RunPromote(P, down, gone)
       PROVE  Locked'
  BY <1>22, CallAssumption DEF RunPromote, callVars, headVars, schedVars, stopVars, Locked, TypeOK, Procs, Runs, Loop, NoRun
<1>23. CASE RunAnnounce
  BY <1>23, CallAssumption DEF RunAnnounce, callVars, headVars, schedVars, stopVars, Locked, TypeOK, Procs, Runs, Loop, NoRun
<1>24. ASSUME NEW gone \in SUBSET pooled, NEW back \in SUBSET ((pooled \ queued) \ gone),
             Evict(gone, back)
       PROVE  Locked'
  BY <1>24, CallAssumption DEF Evict, callVars, headVars, runVars, schedVars, stopVars, Locked, TypeOK, Procs, Runs, Loop, NoRun
<1>25. CASE HeadMined
  BY <1>25, CallAssumption DEF HeadMined, callVars, poolVars, runVars, schedVars, stopVars, Locked, TypeOK, Procs, Runs, Loop, NoRun
<1>26. CASE HeadImported
  BY <1>26, CallAssumption DEF HeadImported, callVars, poolVars, runVars, schedVars, stopVars, Locked, TypeOK, Procs, Runs, Loop, NoRun
<1>27. CASE Stop
  BY <1>27, CallAssumption DEF Stop, callVars, headVars, poolVars, runVars, schedVars, Locked, TypeOK, Procs, Runs, Loop, NoRun
<1>28. CASE UNCHANGED vars
  BY <1>28, CallAssumption DEF vars, callVars, headVars, poolVars, runVars, schedVars, stopVars, Locked, TypeOK, Procs, Runs, Loop, NoRun
<1>29. ASSUME NEW c \in Callers, CallerStep(c)
       PROVE  Locked'
  BY <1>1, <1>2, <1>3, <1>4, <1>5, <1>6, <1>7, <1>8, <1>29 DEF CallerStep
<1>30. CASE LoopStep
  BY <1>9, <1>10, <1>11, <1>12, <1>30 DEF LoopStep
<1>31. CASE SchedStep
  BY <1>13, <1>14, <1>15, <1>16, <1>17, <1>31 DEF SchedStep
<1>32. CASE RunStep
  BY <1>18, <1>19, <1>20, <1>21, <1>22, <1>32 DEF RunStep
<1> QED
  BY <1>23, <1>24, <1>25, <1>26, <1>27, <1>28, <1>29, <1>30, <1>31, <1>32 DEF Next

-----------------------------------------------------------------------------
(* The transactions of the pool *)

\* Taking T in and what it replaces out leaves one transaction of a nonce.
LEMMA ReplacedUnique ==
  ASSUME NEW S, NEW T,
         \A t, u \in S : SameNonce(t, u) => t = u,
         \A t, u \in T : SameNonce(t, u) => t = u
  PROVE  \A t, u \in (S \ Replaced(S, T)) \cup T : SameNonce(t, u) => t = u
BY DEF Replaced, SameNonce

\* Every step leaves the pool with one transaction of an account and nonce.
LEMMA OnePerNonceStep ==
  ASSUME TypeOK, Channels, Locked, OnePerNonce, [Next]_vars
  PROVE  OnePerNonce'
<1>1. ASSUME NEW c \in Callers, Filter(c)
       PROVE  OnePerNonce'
  BY <1>1, CallAssumption DEF Filter, headVars, poolVars, runVars, schedVars, stopVars, OnePerNonce, TypeOK, Procs, Runs, Loop, NoRun
<1>2. ASSUME NEW c \in Callers, NEW gone \in SUBSET pooled,
             NEW back \in SUBSET ((pooled \ queued) \ gone), AddRejected(c, gone, back)
       PROVE  OnePerNonce'
  BY <1>2, CallAssumption DEF AddRejected, headVars, runVars, schedVars, stopVars, Locked, OnePerNonce, TypeOK, Procs, Runs, Loop, NoRun
<1>3. ASSUME NEW c \in Callers, NEW gone \in SUBSET pooled,
             NEW back \in SUBSET ((pooled \ queued) \ gone), AddQueued(c, gone, back)
       PROVE  OnePerNonce'
  <2> DEFINE t == TxOf[c]
             left == pooled \ gone
  <2>1. ~mu /\ queued \subseteq pooled /\ \A u, v \in left : SameNonce(u, v) => u = v
    BY <1>3 DEF AddQueued, OnePerNonce
  <2>2. \A d \in Callers : pc'[d] # "event"
    BY <1>3, <2>1 DEF AddQueued, Locked, TypeOK, Procs
  <2>3. run.again = {} /\ run' = run
    BY <1>3, <2>1 DEF AddQueued, Locked, runVars
  <2>4. pooled' = (left \ Replaced(left, {t})) \cup {t}
    BY <1>3 DEF AddQueued
  <2>5. \A u, v \in pooled' : SameNonce(u, v) => u = v
    BY <2>1, <2>4, ReplacedUnique
  <2>6. queued' \subseteq pooled'
    BY <1>3, <2>1 DEF AddQueued
  <2> QED
    BY <2>2, <2>3, <2>5, <2>6 DEF OnePerNonce
<1>4. ASSUME NEW c \in Callers, NEW gone \in SUBSET pooled,
             NEW back \in SUBSET ((pooled \ queued) \ gone), AddReplacing(c, gone, back)
       PROVE  OnePerNonce'
  <2> DEFINE t == TxOf[c]
             left == pooled \ gone
             old == Replaced(left \ (queued \cup back), {t})
  <2>1. ~mu /\ queued \subseteq pooled /\ \A u, v \in left : SameNonce(u, v) => u = v
    BY <1>4 DEF AddReplacing, OnePerNonce
  <2>2. \A d \in Callers : pc'[d] = "event" => d = c
    BY <1>4, <2>1 DEF AddReplacing, Locked, TypeOK, Procs
  <2>3. run.again = {} /\ run' = run
    BY <1>4, <2>1 DEF AddReplacing, Locked, runVars
  <2>4. old # {} /\ pooled' = (left \ old) \cup {t}
    BY <1>4 DEF AddReplacing
  <2>5. old = Replaced(left, {t})
    BY <2>1, <2>4 DEF Replaced, SameNonce
  <2>6. pooled' = (left \ Replaced(left, {t})) \cup {t}
    BY <2>4, <2>5
  <2>7. \A u, v \in pooled' : SameNonce(u, v) => u = v
    BY <2>1, <2>6, ReplacedUnique
  <2>8. queued' \subseteq pooled'
    <3>1. queued' = (queued \ gone) \cup back
      BY <1>4 DEF AddReplacing
    <3>2. old \cap (queued \cup back) = {}
      BY DEF Replaced
    <3> QED
      BY <2>1, <2>4, <3>1, <3>2
  <2>9. TxOf[c] \in pooled'
    BY <2>4
  <2> QED
    BY <2>2, <2>3, <2>7, <2>8, <2>9 DEF OnePerNonce
<1>5. ASSUME NEW c \in Callers, AddEvent(c)
       PROVE  OnePerNonce'
  BY <1>5, CallAssumption DEF AddEvent, queueTxEvent, headVars, runVars, stopVars, OnePerNonce, TypeOK, Procs, Runs, Loop, NoRun
<1>6. ASSUME NEW c \in Callers, requestPromoteExecutables(c)
       PROVE  OnePerNonce'
  BY <1>6, CallAssumption DEF requestPromoteExecutables, RequestMerged, Selecting, headVars, poolVars, runVars, stopVars, OnePerNonce, TypeOK, Procs,
    Runs, Loop, NoRun
<1>7. ASSUME NEW c \in Callers, RequestRefused(c)
       PROVE  OnePerNonce'
  BY <1>7, CallAssumption DEF RequestRefused, After, headVars, poolVars, runVars, schedVars, stopVars, OnePerNonce, TypeOK, Procs, Runs, Loop, NoRun
<1>8. ASSUME NEW c \in Callers, Return(c)
       PROVE  OnePerNonce'
  BY <1>8, CallAssumption DEF Return, headVars, poolVars, runVars, schedVars, stopVars, OnePerNonce, TypeOK, Procs, Runs, Loop, NoRun
<1>9. CASE LoopStart
  BY <1>9, CallAssumption DEF LoopStart, poolVars, runVars, schedVars, stopVars, OnePerNonce, TypeOK, Procs, Runs, Loop, NoRun
<1>10. CASE LoopHeadEvent
  BY <1>10, CallAssumption DEF LoopHeadEvent, headVars, poolVars, runVars, schedVars, stopVars, OnePerNonce, TypeOK, Procs, Runs, Loop, NoRun
<1>11. CASE requestReset
  BY <1>11, CallAssumption DEF requestReset, ResetMerged, Selecting, poolVars, runVars, stopVars, OnePerNonce, TypeOK, Procs, Runs, Loop, NoRun
<1>12. CASE LoopStop
  BY <1>12, CallAssumption DEF LoopStop, headVars, poolVars, runVars, schedVars, OnePerNonce, TypeOK, Procs, Runs, Loop, NoRun
<1>13. ASSUME NEW p \in Procs, Reply(p)
       PROVE  OnePerNonce'
  BY <1>13, CallAssumption DEF Reply, After, DoneGiven, headVars, poolVars, runVars, stopVars, OnePerNonce, TypeOK, Procs, Runs, Loop, NoRun
<1>14. CASE LaunchRun
  <2>1. run'.again = {} /\ UNCHANGED <<pc, queued, pooled>>
    BY <1>14 DEF LaunchRun, NextRun, callVars, poolVars
  <2> QED
    BY <2>1 DEF OnePerNonce
<1>15. CASE RunFinished
  BY <1>15, CallAssumption DEF RunFinished, Selecting, callVars, headVars, poolVars, runVars, stopVars, OnePerNonce, TypeOK, Procs, Runs, Loop, NoRun
<1>16. CASE SchedShutdown
  BY <1>16, CallAssumption DEF SchedShutdown, Selecting, callVars, headVars, poolVars, runVars, stopVars, OnePerNonce, TypeOK, Procs, Runs, Loop,
    NoRun
<1>17. CASE SchedExit
  BY <1>17, CallAssumption DEF SchedExit, ClosedOnExit, callVars, headVars, poolVars, stopVars, OnePerNonce, TypeOK, Procs, Runs, Loop, NoRun
<1>18. ASSUME NEW stale \in SUBSET run.events, NEW back \in SUBSET (Mined \ pooled),
             NEW again \in SUBSET ((Mined \ pooled) \ back), RunReset(stale, back, again)
       PROVE  OnePerNonce'
  <2>1. ~mu /\ \A d \in Callers : pc'[d] # "event"
    BY <1>18 DEF RunReset, Locked, callVars
  <2>2. pooled' = (pooled \ Replaced(pooled, back \cup again)) \cup (back \cup again)
    BY <1>18 DEF RunReset
  <2>3. \A t, u \in pooled' : SameNonce(t, u) => t = u
    <3>1. \A t, u \in back \cup again : SameNonce(t, u) => t = u
      BY <1>18 DEF RunReset
    <3> QED
      BY <2>2, <3>1, ReplacedUnique DEF OnePerNonce
  <2>4. ASSUME NEW q \in queued, q \notin Replaced(queued, back)
        PROVE  q \notin Replaced(pooled, back \cup again)
    <3>1. q \in pooled /\ \A t \in back : ~SameNonce(t, q)
      BY <2>4 DEF OnePerNonce, Replaced
    <3>2. ASSUME NEW t \in again, SameNonce(t, q)
          PROVE  FALSE
      <4>1. PICK u \in pooled \ queued : SameNonce(t, u)
        BY <1>18 DEF RunReset, Replaced
      <4>2. SameNonce(u, q)
        BY <3>2, <4>1 DEF SameNonce
      <4> QED
        BY <3>1, <4>1, <4>2 DEF OnePerNonce
    <3> QED
      BY <3>1, <3>2 DEF Replaced
  <2>5. queued' = (queued \ Replaced(queued, back)) \cup back
    BY <1>18 DEF RunReset
  <2>6. queued' \subseteq pooled'
    BY <2>2, <2>4, <2>5 DEF OnePerNonce
  <2>7. run'.again = again
    BY <1>18 DEF RunReset, TypeOK, Runs
  <2> QED
    BY <2>1, <2>2, <2>3, <2>6, <2>7 DEF OnePerNonce
<1>19. ASSUME NEW stale \in SUBSET run.events, RunResetAborted(stale)
       PROVE  OnePerNonce'
  BY <1>19, CallAssumption DEF RunResetAborted, callVars, schedVars, stopVars, OnePerNonce, TypeOK, Procs, Runs, Loop, NoRun
<1>20. ASSUME NEW t \in run.again, RunReinject(t)
       PROVE  OnePerNonce'
  BY <1>20, CallAssumption DEF RunReinject, queueTxEvent, callVars, headVars, poolVars, stopVars, OnePerNonce, TypeOK, Procs, Runs, Loop, NoRun
<1>21. CASE RunLock
  BY <1>21, CallAssumption DEF RunLock, callVars, headVars, schedVars, stopVars, OnePerNonce, TypeOK, Procs, Runs, Loop, NoRun
<1>22. ASSUME NEW P \in SUBSET Promotable, NEW gone \in SUBSET pooled,
             NEW down \in SUBSET ((pooled \ queued) \cup P), RunPromote(P, down, gone)
       PROVE  OnePerNonce'
  <2>1. \A d \in Callers : pc'[d] # "event"
    BY <1>22 DEF RunPromote, Locked, callVars
  <2>2. run'.again = {}
    BY <1>22 DEF RunPromote, TypeOK, Runs
  <2>3. P \subseteq queued /\ queued \subseteq pooled
    BY DEF Promotable, OnePerNonce
  <2>4. queued' \subseteq pooled' /\ pooled' \subseteq pooled
    BY <1>22, <2>3 DEF RunPromote
  <2> QED
    BY <2>1, <2>2, <2>4 DEF OnePerNonce
<1>23. CASE RunAnnounce
  BY <1>23, CallAssumption DEF RunAnnounce, callVars, headVars, schedVars, stopVars, OnePerNonce, TypeOK, Procs, Runs, Loop, NoRun
<1>24. ASSUME NEW gone \in SUBSET pooled, NEW back \in SUBSET ((pooled \ queued) \ gone),
             Evict(gone, back)
       PROVE  OnePerNonce'
  BY <1>24, CallAssumption DEF Evict, callVars, headVars, runVars, schedVars, stopVars, Locked, OnePerNonce, TypeOK, Procs, Runs, Loop, NoRun
<1>25. CASE HeadMined
  BY <1>25, CallAssumption DEF HeadMined, callVars, poolVars, runVars, schedVars, stopVars, OnePerNonce, TypeOK, Procs, Runs, Loop, NoRun
<1>26. CASE HeadImported
  BY <1>26, CallAssumption DEF HeadImported, callVars, poolVars, runVars, schedVars, stopVars, OnePerNonce, TypeOK, Procs, Runs, Loop, NoRun
<1>27. CASE Stop
  BY <1>27, CallAssumption DEF Stop, callVars, headVars, poolVars, runVars, schedVars, OnePerNonce, TypeOK, Procs, Runs, Loop, NoRun
<1>28. CASE UNCHANGED vars
  BY <1>28, CallAssumption DEF vars, callVars, headVars, poolVars, runVars, schedVars, stopVars, OnePerNonce, TypeOK, Procs, Runs, Loop, NoRun
<1>29. ASSUME NEW c \in Callers, CallerStep(c)
       PROVE  OnePerNonce'
  BY <1>1, <1>2, <1>3, <1>4, <1>5, <1>6, <1>7, <1>8, <1>29 DEF CallerStep
<1>30. CASE LoopStep
  BY <1>9, <1>10, <1>11, <1>12, <1>30 DEF LoopStep
<1>31. CASE SchedStep
  BY <1>13, <1>14, <1>15, <1>16, <1>17, <1>31 DEF SchedStep
<1>32. CASE RunStep
  BY <1>18, <1>19, <1>20, <1>21, <1>22, <1>32 DEF RunStep
<1> QED
  BY <1>23, <1>24, <1>25, <1>26, <1>27, <1>28, <1>29, <1>30, <1>31, <1>32 DEF Next

-----------------------------------------------------------------------------
(* Callers and heads *)

\* Every step keeps track of the accounts no run has looked at.
LEMMA ServedStep ==
  ASSUME TypeOK, Channels, Replies, Served, [Next]_vars
  PROVE  Served'
<1>1. ASSUME NEW c \in Callers, Filter(c)
       PROVE  Served'
  BY <1>1, CallAssumption DEF Filter, headVars, poolVars, runVars, schedVars, stopVars, Served, OnItsWay, Replies, TypeOK, Procs, Runs, Loop
<1>2. ASSUME NEW c \in Callers, NEW gone \in SUBSET pooled,
             NEW back \in SUBSET ((pooled \ queued) \ gone), AddRejected(c, gone, back)
       PROVE  Served'
  <2>1. pc[c] = "lock" /\ done[c] = 0 /\ c \notin unserved
    BY <1>2 DEF AddRejected, Served, OnItsWay, Replies
  <2>2. ASSUME NEW d \in unserved'
        PROVE  TxOf[d] \in queued' /\ OnItsWay(d)'
    <3>1. d \in unserved /\ TxOf[d] \in queued' /\ d # c /\ d \in Procs
      BY <1>2, <2>1 DEF AddRejected, Served, TypeOK, Procs
    <3>2. OnItsWay(d) /\ pc'[d] = pc[d]
      BY <1>2, <3>1 DEF AddRejected, Served, TypeOK
    <3> QED
      BY <1>2, <3>1, <3>2 DEF AddRejected, runVars, schedVars, OnItsWay
  <2> QED
    BY <2>2 DEF Served
<1>3. ASSUME NEW c \in Callers, NEW gone \in SUBSET pooled,
             NEW back \in SUBSET ((pooled \ queued) \ gone), AddQueued(c, gone, back)
       PROVE  Served'
  <2>1. pc[c] = "lock" /\ done[c] = 0 /\ c \notin unserved /\ c \in Procs
    BY <1>3 DEF AddQueued, Served, OnItsWay, Replies, Procs
  <2>2. ASSUME NEW d \in unserved', d # c
        PROVE  TxOf[d] \in queued' /\ OnItsWay(d)'
    <3>1. d \in unserved /\ TxOf[d] \in queued' /\ d \in Procs
      BY <1>3, <2>2 DEF AddQueued, Served, TypeOK, Procs
    <3>2. OnItsWay(d) /\ pc'[d] = pc[d]
      BY <1>3, <2>2, <3>1 DEF AddQueued, Served, TypeOK
    <3> QED
      BY <1>3, <3>1, <3>2 DEF AddQueued, runVars, schedVars, OnItsWay
  <2>3. ASSUME c \in unserved'
        PROVE  TxOf[c] \in queued' /\ OnItsWay(c)'
    <3>1. pc'[c] = "requestDirty" /\ done'[c] = 0
      BY <1>3, <2>1, <2>3 DEF AddQueued, TypeOK
    <3> QED
      BY <1>3, <3>1 DEF AddQueued, OnItsWay
  <2> QED
    BY <2>2, <2>3 DEF Served
<1>4. ASSUME NEW c \in Callers, NEW gone \in SUBSET pooled,
             NEW back \in SUBSET ((pooled \ queued) \ gone), AddReplacing(c, gone, back)
       PROVE  Served'
  <2>1. pc[c] = "lock" /\ done[c] = 0 /\ c \notin unserved
    BY <1>4 DEF AddReplacing, Served, OnItsWay, Replies
  <2>2. ASSUME NEW d \in unserved'
        PROVE  TxOf[d] \in queued' /\ OnItsWay(d)'
    <3>1. d \in unserved /\ TxOf[d] \in queued' /\ d # c /\ d \in Procs
      BY <1>4, <2>1 DEF AddReplacing, Served, TypeOK, Procs
    <3>2. OnItsWay(d) /\ pc'[d] = pc[d]
      BY <1>4, <3>1 DEF AddReplacing, Served, TypeOK
    <3> QED
      BY <1>4, <3>1, <3>2 DEF AddReplacing, runVars, schedVars, OnItsWay
  <2> QED
    BY <2>2 DEF Served
<1>5. ASSUME NEW c \in Callers, AddEvent(c)
       PROVE  Served'
  BY <1>5, CallAssumption DEF AddEvent, queueTxEvent, headVars, runVars, stopVars, Served, OnItsWay, Replies, TypeOK, Procs, Runs, Loop
<1>6. ASSUME NEW c \in Callers, requestPromoteExecutables(c)
       PROVE  Served'
  BY <1>6, CallAssumption DEF requestPromoteExecutables, RequestMerged, Selecting, headVars, poolVars, runVars, stopVars, Served, OnItsWay, Replies,
    TypeOK, Procs, Runs, Loop
<1>7. ASSUME NEW c \in Callers, RequestRefused(c)
       PROVE  Served'
  BY <1>7, CallAssumption DEF RequestRefused, After, headVars, poolVars, runVars, schedVars, stopVars, Served, OnItsWay, Replies, TypeOK, Procs, Runs,
    Loop
<1>8. ASSUME NEW c \in Callers, Return(c)
       PROVE  Served'
  BY <1>8, CallAssumption DEF Return, headVars, poolVars, runVars, schedVars, stopVars, Served, OnItsWay, Replies, TypeOK, Procs, Runs, Loop
<1>9. CASE LoopStart
  BY <1>9, CallAssumption DEF LoopStart, poolVars, runVars, schedVars, stopVars, Served, OnItsWay, Replies, TypeOK, Procs, Runs, Loop
<1>10. CASE LoopHeadEvent
  BY <1>10, CallAssumption DEF LoopHeadEvent, headVars, poolVars, runVars, schedVars, stopVars, Served, OnItsWay, Replies, TypeOK, Procs, Runs, Loop
<1>11. CASE requestReset
  BY <1>11, CallAssumption DEF requestReset, ResetMerged, Selecting, poolVars, runVars, stopVars, Served, OnItsWay, Replies, TypeOK, Procs, Runs, Loop
<1>12. CASE LoopStop
  BY <1>12, CallAssumption DEF LoopStop, headVars, poolVars, runVars, schedVars, Served, OnItsWay, Replies, TypeOK, Procs, Runs, Loop
<1>13. ASSUME NEW p \in Procs, Reply(p)
       PROVE  Served'
  BY <1>13, CallAssumption DEF Reply, After, DoneGiven, headVars, poolVars, runVars, stopVars, Served, OnItsWay, Replies, TypeOK, Procs, Runs, Loop
<1>14. CASE LaunchRun
  <2>1. run = NoRun
    BY <1>14 DEF LaunchRun, Channels
  <2>2. curDone' = nextDone /\ run' = NextRun
    BY <1>14 DEF LaunchRun
  <2>3. UNCHANGED <<pc, done, queued, unserved>>
    BY <1>14 DEF LaunchRun, callVars, poolVars
  <2>4. ASSUME NEW c \in unserved
        PROVE  TxOf[c] \in queued' /\ OnItsWay(c)'
    <3>1. TxOf[c] \in queued /\ OnItsWay(c) /\ c \in Procs
      BY DEF Served, TypeOK, Procs
    <3>2. pc[c] # "reply"
      BY <1>14, <3>1 DEF LaunchRun, Replies
    <3>3. run.at = "none"
      BY <2>1 DEF NoRun
    <3>4. run'.at = "lock" /\ run'.dirty = dirtyAccounts
      BY <2>2 DEF NextRun
    <3>5. \/ pc[c] = "requestDirty" /\ done[c] = 0
          \/ pc[c] \in {"wait", "returned"} /\ done[c] = -1
          \/ /\ pc[c] \in {"wait", "returned"} /\ done[c] = nextDone
             /\ From[TxOf[c]] \in dirtyAccounts
      BY <3>1, <3>2, <3>3 DEF OnItsWay
    <3> QED
      BY <2>2, <2>3, <3>1, <3>4, <3>5 DEF OnItsWay
  <2> QED
    BY <2>3, <2>4 DEF Served
<1>15. CASE RunFinished
  <2>1. run = NoRun
    BY <1>15 DEF RunFinished, Channels
  <2>2. run.at = "none"
    BY <2>1 DEF NoRun
  <2> QED
    BY <1>15, <2>2 DEF RunFinished, callVars, poolVars, runVars, Served, OnItsWay
<1>16. CASE SchedShutdown
  BY <1>16, CallAssumption DEF SchedShutdown, Selecting, callVars, headVars, poolVars, runVars, stopVars, Served, OnItsWay, Replies, TypeOK, Procs,
    Runs, Loop
<1>17. CASE SchedExit
  BY <1>17, CallAssumption DEF SchedExit, ClosedOnExit, callVars, headVars, poolVars, stopVars, Served, OnItsWay, Replies, TypeOK, Procs, Runs, Loop
<1>18. ASSUME NEW stale \in SUBSET run.events, NEW back \in SUBSET (Mined \ pooled),
             NEW again \in SUBSET ((Mined \ pooled) \ back), RunReset(stale, back, again)
       PROVE  Served'
  <2>1. ASSUME NEW c \in unserved'
        PROVE  c \in unserved /\ TxOf[c] \in queued'
    BY <1>18 DEF RunReset, Served
  <2>2. run'.at = "promote" /\ run'.reset = run.reset /\ run'.dirty = run.dirty /\ run.at = "lock"
    BY <1>18 DEF RunReset, TypeOK, Runs
  <2>3. ASSUME NEW c \in unserved
        PROVE  OnItsWay(c)'
    BY <1>18, <2>2 DEF RunReset, callVars, schedVars, Served, OnItsWay
  <2> QED
    BY <2>1, <2>3 DEF Served
<1>19. ASSUME NEW stale \in SUBSET run.events, RunResetAborted(stale)
       PROVE  Served'
  <2>1. run'.at = "promote" /\ run'.reset = run.reset /\ run'.dirty = run.dirty /\ run.at = "lock"
    BY <1>19 DEF RunResetAborted, TypeOK, Runs
  <2> QED
    BY <1>19, <2>1 DEF RunResetAborted, callVars, schedVars, Served, OnItsWay
<1>20. ASSUME NEW t \in run.again, RunReinject(t)
       PROVE  Served'
  BY <1>20, CallAssumption DEF RunReinject, queueTxEvent, callVars, headVars, poolVars, stopVars, Served, OnItsWay, Replies, TypeOK, Procs, Runs, Loop
<1>21. CASE RunLock
  BY <1>21, CallAssumption DEF RunLock, callVars, headVars, schedVars, stopVars, Served, OnItsWay, Replies, TypeOK, Procs, Runs, Loop
<1>22. ASSUME NEW P \in SUBSET Promotable, NEW gone \in SUBSET pooled,
             NEW down \in SUBSET ((pooled \ queued) \cup P), RunPromote(P, down, gone)
       PROVE  Served'
  <2>1. run.at = "promote" /\ P \subseteq Promotable
    BY <1>22 DEF RunPromote
  <2>2. ASSUME NEW c \in unserved'
        PROVE  TxOf[c] \in queued' /\ OnItsWay(c)'
    <3>1. c \in unserved /\ TxOf[c] \notin Promotable /\ TxOf[c] \notin gone
      BY <1>22 DEF RunPromote
    <3>2. TxOf[c] \in queued /\ OnItsWay(c)
      BY <3>1 DEF Served
    <3>3. From[TxOf[c]] \notin PromoteAddrs
      BY <3>1, <3>2 DEF Promotable
    <3>4. run.reset = NoReset /\ From[TxOf[c]] \notin run.dirty
      BY <3>2, <3>3 DEF PromoteAddrs
    <3>5. \/ pc[c] = "requestDirty" /\ done[c] = 0
          \/ pc[c] = "reply" /\ done[c] = 0 /\ From[TxOf[c]] \in dirtyAccounts
          \/ pc[c] \in {"wait", "returned"} /\ done[c] = -1
          \/ /\ pc[c] \in {"wait", "returned"} /\ done[c] = nextDone
             /\ From[TxOf[c]] \in dirtyAccounts
      BY <3>2, <3>4 DEF OnItsWay
    <3>6. OnItsWay(c)'
      BY <1>22, <3>5 DEF RunPromote, callVars, schedVars, OnItsWay
    <3>7. TxOf[c] \in queued'
      BY <1>22, <2>1, <3>1, <3>2 DEF RunPromote
    <3> QED
      BY <3>6, <3>7
  <2> QED
    BY <2>2 DEF Served
<1>23. CASE RunAnnounce
  BY <1>23, CallAssumption DEF RunAnnounce, callVars, headVars, schedVars, stopVars, Served, OnItsWay, Replies, TypeOK, Procs, Runs, Loop
<1>24. ASSUME NEW gone \in SUBSET pooled, NEW back \in SUBSET ((pooled \ queued) \ gone),
             Evict(gone, back)
       PROVE  Served'
  BY <1>24, CallAssumption DEF Evict, callVars, headVars, runVars, schedVars, stopVars, Served, OnItsWay, Replies, TypeOK, Procs, Runs, Loop
<1>25. CASE HeadMined
  BY <1>25, CallAssumption DEF HeadMined, callVars, poolVars, runVars, schedVars, stopVars, Served, OnItsWay, Replies, TypeOK, Procs, Runs, Loop
<1>26. CASE HeadImported
  BY <1>26, CallAssumption DEF HeadImported, callVars, poolVars, runVars, schedVars, stopVars, Served, OnItsWay, Replies, TypeOK, Procs, Runs, Loop
<1>27. CASE Stop
  BY <1>27, CallAssumption DEF Stop, callVars, headVars, poolVars, runVars, schedVars, Served, OnItsWay, Replies, TypeOK, Procs, Runs, Loop
<1>28. CASE UNCHANGED vars
  BY <1>28, CallAssumption DEF vars, callVars, headVars, poolVars, runVars, schedVars, stopVars, Served, OnItsWay, Replies, TypeOK, Procs, Runs, Loop
<1>29. ASSUME NEW c \in Callers, CallerStep(c)
       PROVE  Served'
  BY <1>1, <1>2, <1>3, <1>4, <1>5, <1>6, <1>7, <1>8, <1>29 DEF CallerStep
<1>30. CASE LoopStep
  BY <1>9, <1>10, <1>11, <1>12, <1>30 DEF LoopStep
<1>31. CASE SchedStep
  BY <1>13, <1>14, <1>15, <1>16, <1>17, <1>31 DEF SchedStep
<1>32. CASE RunStep
  BY <1>18, <1>19, <1>20, <1>21, <1>22, <1>32 DEF RunStep
<1> QED
  BY <1>23, <1>24, <1>25, <1>26, <1>27, <1>28, <1>29, <1>30, <1>31, <1>32 DEF Next

\* Every step keeps the heads linked.
LEMMA HeadsStep ==
  ASSUME TypeOK, Channels, HeadsLinked, [Next]_vars
  PROVE  HeadsLinked'
<1>1. ASSUME NEW c \in Callers, Filter(c)
       PROVE  HeadsLinked'
  BY <1>1, CallAssumption DEF Filter, headVars, poolVars, runVars, schedVars, stopVars, HeadsLinked, Resetting, Base, NoReset, NoRun, TypeOK, Runs,
    Resets, Procs, Loop
<1>2. ASSUME NEW c \in Callers, NEW gone \in SUBSET pooled,
             NEW back \in SUBSET ((pooled \ queued) \ gone), AddRejected(c, gone, back)
       PROVE  HeadsLinked'
  BY <1>2, CallAssumption DEF AddRejected, headVars, runVars, schedVars, stopVars, HeadsLinked, Resetting, Base, NoReset, NoRun, TypeOK, Runs, Resets,
    Procs, Loop
<1>3. ASSUME NEW c \in Callers, NEW gone \in SUBSET pooled,
             NEW back \in SUBSET ((pooled \ queued) \ gone), AddQueued(c, gone, back)
       PROVE  HeadsLinked'
  BY <1>3, CallAssumption DEF AddQueued, headVars, runVars, schedVars, stopVars, HeadsLinked, Resetting, Base, NoReset, NoRun, TypeOK, Runs, Resets,
    Procs, Loop
<1>4. ASSUME NEW c \in Callers, NEW gone \in SUBSET pooled,
             NEW back \in SUBSET ((pooled \ queued) \ gone), AddReplacing(c, gone, back)
       PROVE  HeadsLinked'
  BY <1>4, CallAssumption DEF AddReplacing, headVars, runVars, schedVars, stopVars, HeadsLinked, Resetting, Base, NoReset, NoRun, TypeOK, Runs,
    Resets, Procs, Loop
<1>5. ASSUME NEW c \in Callers, AddEvent(c)
       PROVE  HeadsLinked'
  BY <1>5, CallAssumption DEF AddEvent, queueTxEvent, headVars, runVars, stopVars, HeadsLinked, Resetting, Base, NoReset, NoRun, TypeOK, Runs, Resets,
    Procs, Loop
<1>6. ASSUME NEW c \in Callers, requestPromoteExecutables(c)
       PROVE  HeadsLinked'
  BY <1>6, CallAssumption DEF requestPromoteExecutables, RequestMerged, Selecting, headVars, poolVars, runVars, stopVars, HeadsLinked, Resetting,
    Base, NoReset, NoRun, TypeOK, Runs, Resets, Procs, Loop
<1>7. ASSUME NEW c \in Callers, RequestRefused(c)
       PROVE  HeadsLinked'
  BY <1>7, CallAssumption DEF RequestRefused, After, headVars, poolVars, runVars, schedVars, stopVars, HeadsLinked, Resetting, Base, NoReset, NoRun,
    TypeOK, Runs, Resets, Procs, Loop
<1>8. ASSUME NEW c \in Callers, Return(c)
       PROVE  HeadsLinked'
  BY <1>8, CallAssumption DEF Return, headVars, poolVars, runVars, schedVars, stopVars, HeadsLinked, Resetting, Base, NoReset, NoRun, TypeOK, Runs,
    Resets, Procs, Loop
<1>9. CASE LoopStart
  BY <1>9, CallAssumption DEF LoopStart, poolVars, runVars, schedVars, stopVars, HeadsLinked, Resetting, Base, NoReset, NoRun, TypeOK, Runs, Resets,
    Procs, Loop
<1>10. CASE LoopHeadEvent
  BY <1>10, CallAssumption DEF LoopHeadEvent, headVars, poolVars, runVars, schedVars, stopVars, HeadsLinked, Resetting, Base, NoReset, NoRun, TypeOK,
    Runs, Resets, Procs, Loop
<1>11. CASE requestReset
  <2>1. chainHeadCh # <<>>
    BY <1>11 DEF requestReset, HeadsLinked
  <2> DEFINE new == Head(chainHeadCh)
  <2>2. new \in Nat /\ new # 0
    <3>1. Head(chainHeadCh) \in Heads
      BY <2>1 DEF TypeOK
    <3> QED
      BY <3>1 DEF Heads
  <2>3. reset'.new = new /\ head' = new
    BY <1>11 DEF requestReset, ResetMerged, TypeOK, Resets
  <2>4. reset'.old = IF reset = NoReset THEN head ELSE reset.old
    BY <1>11 DEF requestReset, ResetMerged, TypeOK, Resets
  <2>5. reset' # NoReset
    BY <2>2, <2>3 DEF NoReset
  <2>6. pc[Loop]' = "reply" /\ UNCHANGED <<run, found, poolHead, gaveUp>>
    BY <1>11 DEF requestReset, runVars, TypeOK, Procs
  <2> HIDE DEF new
  <2> QED
    BY <2>2, <2>3, <2>4, <2>5, <2>6 DEF HeadsLinked, Resetting, Base
<1>12. CASE LoopStop
  BY <1>12, CallAssumption DEF LoopStop, headVars, poolVars, runVars, schedVars, HeadsLinked, Resetting, Base, NoReset, NoRun, TypeOK, Runs, Resets,
    Procs, Loop
<1>13. ASSUME NEW p \in Procs, Reply(p)
       PROVE  HeadsLinked'
  BY <1>13, CallAssumption DEF Reply, After, DoneGiven, headVars, poolVars, runVars, stopVars, HeadsLinked, Resetting, Base, NoReset, NoRun, TypeOK,
    Runs, Resets, Procs, Loop
<1>14. CASE LaunchRun
  <2>1. run = NoRun
    BY <1>14 DEF LaunchRun, Channels
  <2>2. run.at = "none" /\ run.reset = NoReset
    BY <2>1 DEF NoRun
  <2>3. run'.at = "lock" /\ run'.reset = reset /\ reset' = NoReset
    BY <1>14 DEF LaunchRun, NextRun
  <2>4. UNCHANGED <<pc, head, found, chainHeadCh, poolHead, gaveUp>>
    BY <1>14 DEF LaunchRun, callVars, headVars
  <2> QED
    BY <2>2, <2>3, <2>4 DEF HeadsLinked, Resetting, Base
<1>15. CASE RunFinished
  BY <1>15, CallAssumption DEF RunFinished, Selecting, callVars, headVars, poolVars, runVars, stopVars, HeadsLinked, Resetting, Base, NoReset, NoRun,
    TypeOK, Runs, Resets, Procs, Loop
<1>16. CASE SchedShutdown
  BY <1>16, CallAssumption DEF SchedShutdown, Selecting, callVars, headVars, poolVars, runVars, stopVars, HeadsLinked, Resetting, Base, NoReset,
    NoRun, TypeOK, Runs, Resets, Procs, Loop
<1>17. CASE SchedExit
  BY <1>17, CallAssumption DEF SchedExit, ClosedOnExit, callVars, headVars, poolVars, stopVars, HeadsLinked, Resetting, Base, NoReset, NoRun, TypeOK,
    Runs, Resets, Procs, Loop
<1>18. ASSUME NEW stale \in SUBSET run.events, NEW back \in SUBSET (Mined \ pooled),
             NEW again \in SUBSET ((Mined \ pooled) \ back), RunReset(stale, back, again)
       PROVE  HeadsLinked'
  <2>1. Resetting /\ run'.at = "promote" /\ run'.reset = run.reset
    BY <1>18 DEF RunReset, Resetting, TypeOK, Runs
  <2>2. poolHead' = run.reset.new /\ gaveUp' = 0
    BY <1>18 DEF RunReset
  <2>3. UNCHANGED <<pc, head, chainHeadCh, reset>>
    BY <1>18 DEF RunReset, callVars, schedVars
  <2>4. run.reset # NoReset
    BY <2>1 DEF Resetting
  <2> QED
    BY <2>1, <2>2, <2>3, <2>4 DEF HeadsLinked, Resetting, Base
<1>19. ASSUME NEW stale \in SUBSET run.events, RunResetAborted(stale)
       PROVE  HeadsLinked'
  <2>1. Resetting /\ run'.at = "promote" /\ run'.reset = run.reset
    BY <1>19 DEF RunResetAborted, Resetting, TypeOK, Runs
  <2>2. gaveUp' = run.reset.new
    BY <1>19 DEF RunResetAborted
  <2>3. UNCHANGED <<pc, head, chainHeadCh, reset>>
    BY <1>19 DEF RunResetAborted, callVars, schedVars
  <2>4. run.reset # NoReset
    BY <2>1 DEF Resetting
  <2> QED
    BY <2>1, <2>2, <2>3, <2>4 DEF HeadsLinked, Resetting, Base
<1>20. ASSUME NEW t \in run.again, RunReinject(t)
       PROVE  HeadsLinked'
  BY <1>20, CallAssumption DEF RunReinject, queueTxEvent, callVars, headVars, poolVars, stopVars, HeadsLinked, Resetting, Base, NoReset, NoRun,
    TypeOK, Runs, Resets, Procs, Loop
<1>21. CASE RunLock
  BY <1>21, CallAssumption DEF RunLock, callVars, headVars, schedVars, stopVars, HeadsLinked, Resetting, Base, NoReset, NoRun, TypeOK, Runs, Resets,
    Procs, Loop
<1>22. ASSUME NEW P \in SUBSET Promotable, NEW gone \in SUBSET pooled,
             NEW down \in SUBSET ((pooled \ queued) \cup P), RunPromote(P, down, gone)
       PROVE  HeadsLinked'
  BY <1>22, CallAssumption DEF RunPromote, callVars, headVars, schedVars, stopVars, HeadsLinked, Resetting, Base, NoReset, NoRun, TypeOK, Runs,
    Resets, Procs, Loop
<1>23. CASE RunAnnounce
  BY <1>23, CallAssumption DEF RunAnnounce, callVars, headVars, schedVars, stopVars, HeadsLinked, Resetting, Base, NoReset, NoRun, TypeOK, Runs,
    Resets, Procs, Loop
<1>24. ASSUME NEW gone \in SUBSET pooled, NEW back \in SUBSET ((pooled \ queued) \ gone),
             Evict(gone, back)
       PROVE  HeadsLinked'
  BY <1>24, CallAssumption DEF Evict, callVars, headVars, runVars, schedVars, stopVars, HeadsLinked, Resetting, Base, NoReset, NoRun, TypeOK, Runs,
    Resets, Procs, Loop
<1>25. CASE HeadMined
  BY <1>25, CallAssumption DEF HeadMined, callVars, poolVars, runVars, schedVars, stopVars, HeadsLinked, Resetting, Base, NoReset, NoRun, TypeOK,
    Runs, Resets, Procs, Loop
<1>26. CASE HeadImported
  BY <1>26, CallAssumption DEF HeadImported, callVars, poolVars, runVars, schedVars, stopVars, HeadsLinked, Resetting, Base, NoReset, NoRun, TypeOK,
    Runs, Resets, Procs, Loop
<1>27. CASE Stop
  BY <1>27, CallAssumption DEF Stop, callVars, headVars, poolVars, runVars, schedVars, HeadsLinked, Resetting, Base, NoReset, NoRun, TypeOK, Runs,
    Resets, Procs, Loop
<1>28. CASE UNCHANGED vars
  BY <1>28, CallAssumption DEF vars, callVars, headVars, poolVars, runVars, schedVars, stopVars, HeadsLinked, Resetting, Base, NoReset, NoRun, TypeOK,
    Runs, Resets, Procs, Loop
<1>29. ASSUME NEW c \in Callers, CallerStep(c)
       PROVE  HeadsLinked'
  BY <1>1, <1>2, <1>3, <1>4, <1>5, <1>6, <1>7, <1>8, <1>29 DEF CallerStep
<1>30. CASE LoopStep
  BY <1>9, <1>10, <1>11, <1>12, <1>30 DEF LoopStep
<1>31. CASE SchedStep
  BY <1>13, <1>14, <1>15, <1>16, <1>17, <1>31 DEF SchedStep
<1>32. CASE RunStep
  BY <1>18, <1>19, <1>20, <1>21, <1>22, <1>32 DEF RunStep
<1> QED
  BY <1>23, <1>24, <1>25, <1>26, <1>27, <1>28, <1>29, <1>30, <1>31, <1>32 DEF Next

-----------------------------------------------------------------------------
(* The theorems *)

\* What every reachable state of the pool's goroutines satisfies.
Inv == TypeOK /\ Channels /\ Replies /\ Locked /\ OnePerNonce /\ Served /\ HeadsLinked

\* The invariant holds from the start of loop and scheduleReorgLoop on.
THEOREM Invariance == Spec => []Inv
<1>1. Init => Inv
  <2> SUFFICES ASSUME Init PROVE Inv
    OBVIOUS
  <2>1. TypeOK
    BY DEF Init, TypeOK, NoReset, NoRun, Runs, Resets, Points, Heads, Procs
  <2>2. Channels /\ Replies /\ Served
    BY CallAssumption DEF Init, Channels, Replies, Served, Procs
  <2>3. Locked /\ OnePerNonce
    BY CallAssumption DEF Init, Locked, OnePerNonce, NoRun, Procs
  <2>4. HeadsLinked
    BY CallAssumption DEF Init, HeadsLinked, Resetting, Base, NoReset, NoRun, Procs, Loop
  <2> QED
    BY <2>1, <2>2, <2>3, <2>4 DEF Inv
<1>2. Inv /\ [Next]_vars => Inv'
  BY TypeStep, ChannelsStep, RepliesStep, LockedStep, OnePerNonceStep, ServedStep, HeadsStep DEF Inv
<1> QED
  BY <1>1, <1>2, PTL DEF Spec

\* A caller whose done channel was closed by a run has had its account looked
\* at by that run or an earlier one (addTxs waiting on requestPromoteExecutables).
THEOREM CallersServed == Spec => []ServedWhenDone
<1>1. Inv => ServedWhenDone
  <2> SUFFICES ASSUME Inv, NEW c \in Callers, done[c] \in closed, done[c] < nextDone, c \in unserved
               PROVE  FALSE
    BY DEF ServedWhenDone
  <2>1. OnItsWay(c) /\ done[c] # 0 /\ done[c] # -1
    BY DEF Inv, Served, TypeOK
  <2>2. done[c] # nextDone
    BY DEF Inv, TypeOK
  <2>3. done[c] = curDone /\ run.at \in {"lock", "promote"}
    BY <2>1, <2>2 DEF OnItsWay
  <2>4. curDone \notin closed
    BY <2>3 DEF Inv, Channels, NoRun
  <2> QED
    BY <2>3, <2>4
<1> QED
  BY <1>1, Invariance, PTL

\* Every reset that runReorg starts begins at the head the pool is on, however
\* many requests scheduleReorgLoop merged into it, or, if the reset before it
\* gave up, at the head that one was to reach.
THEOREM ResetsContinue == Spec => []ResetContinues
<1>1. Inv => ResetContinues
  BY DEF Inv, HeadsLinked, Resetting, Base, ResetContinues
<1> QED
  BY <1>1, Invariance, PTL

\* What a step may do to the events.
Kept ==
  \A t \in queuedEvents \cup run.events :
    \/ t \in queuedEvents' \cup run'.events
    \/ t \in run.events /\ run.at = "announce"
    \/ t \in run.events /\ run.at = "lock" /\ run.reset # NoReset
    \/ t \notin pooled' /\ Replaced({t}, queuedEvents' \cup run'.events) # {}

\* An event that makes room in Put is of a transaction the pool no longer has, if
\* it has the ones that are put.
LEMMA PutKeeps ==
  ASSUME OnePerNonce, NEW E, NEW T, T \subseteq pooled, NEW t \in E, t \notin Put(E, T)
  PROVE  t \notin pooled /\ \E u \in T : SameNonce(u, t)
BY DEF OnePerNonce, Put, Replaced

\* Every step keeps the events, or drops one as Kept allows: LaunchRun finds no
\* run that still holds some, and whoever puts one holds the lock.
LEMMA KeptStep ==
  ASSUME TypeOK, Channels, Locked, OnePerNonce, [Next]_vars
  PROVE  Kept
<1>1. ASSUME NEW c \in Callers, Filter(c)
       PROVE  Kept
  BY <1>1 DEF Filter, headVars, poolVars, runVars, schedVars, stopVars, Kept, TypeOK, Runs
<1>2. ASSUME NEW c \in Callers, NEW gone \in SUBSET pooled,
             NEW back \in SUBSET ((pooled \ queued) \ gone), AddRejected(c, gone, back)
       PROVE  Kept
  BY <1>2 DEF AddRejected, headVars, runVars, schedVars, stopVars, Kept, TypeOK, Runs
<1>3. ASSUME NEW c \in Callers, NEW gone \in SUBSET pooled,
             NEW back \in SUBSET ((pooled \ queued) \ gone), AddQueued(c, gone, back)
       PROVE  Kept
  BY <1>3 DEF AddQueued, headVars, runVars, schedVars, stopVars, Kept, TypeOK, Runs
<1>4. ASSUME NEW c \in Callers, NEW gone \in SUBSET pooled,
             NEW back \in SUBSET ((pooled \ queued) \ gone), AddReplacing(c, gone, back)
       PROVE  Kept
  BY <1>4 DEF AddReplacing, headVars, runVars, schedVars, stopVars, Kept, TypeOK, Runs
<1>5. ASSUME NEW c \in Callers, AddEvent(c)
       PROVE  Kept
  <2>1. TxOf[c] \in pooled /\ pooled' = pooled /\ run' = run
    BY <1>5 DEF AddEvent, OnePerNonce, runVars
  <2>2. CASE queuedEvents' = Put(queuedEvents, {TxOf[c]})
    <3> SUFFICES ASSUME NEW t \in queuedEvents, t \notin queuedEvents'
                 PROVE  t \notin pooled' /\ Replaced({t}, queuedEvents' \cup run'.events) # {}
      BY <2>1 DEF Kept
    <3>1. t \notin pooled /\ SameNonce(TxOf[c], t)
      BY <2>1, <2>2, PutKeeps
    <3>2. TxOf[c] \in queuedEvents'
      BY <2>2 DEF Put
    <3> QED
      BY <2>1, <3>1, <3>2 DEF Replaced
  <2>3. CASE UNCHANGED queuedEvents
    BY <2>1, <2>3 DEF Kept
  <2> QED
    BY <1>5, <2>2, <2>3 DEF AddEvent, queueTxEvent
<1>6. ASSUME NEW c \in Callers, requestPromoteExecutables(c)
       PROVE  Kept
  BY <1>6 DEF requestPromoteExecutables, RequestMerged, Selecting, headVars, poolVars, runVars, stopVars, Kept, TypeOK, Runs
<1>7. ASSUME NEW c \in Callers, RequestRefused(c)
       PROVE  Kept
  BY <1>7 DEF RequestRefused, After, headVars, poolVars, runVars, schedVars, stopVars, Kept, TypeOK, Runs
<1>8. ASSUME NEW c \in Callers, Return(c)
       PROVE  Kept
  BY <1>8 DEF Return, headVars, poolVars, runVars, schedVars, stopVars, Kept, TypeOK, Runs
<1>9. CASE LoopStart
  BY <1>9 DEF LoopStart, poolVars, runVars, schedVars, stopVars, Kept, TypeOK, Runs
<1>10. CASE LoopHeadEvent
  BY <1>10 DEF LoopHeadEvent, headVars, poolVars, runVars, schedVars, stopVars, Kept, TypeOK, Runs
<1>11. CASE requestReset
  BY <1>11 DEF requestReset, ResetMerged, Selecting, poolVars, runVars, stopVars, Kept, TypeOK, Runs
<1>12. CASE LoopStop
  BY <1>12 DEF LoopStop, headVars, poolVars, runVars, schedVars, Kept, TypeOK, Runs
<1>13. ASSUME NEW p \in Procs, Reply(p)
       PROVE  Kept
  BY <1>13 DEF Reply, After, DoneGiven, headVars, poolVars, runVars, stopVars, Kept, TypeOK, Runs
<1>14. CASE LaunchRun
  <2>1. run = NoRun
    BY <1>14 DEF LaunchRun, Channels
  <2>2. run.events = {}
    BY <2>1 DEF NoRun
  <2>3. run'.events = queuedEvents
    BY <1>14 DEF LaunchRun, NextRun
  <2> QED
    BY <2>2, <2>3 DEF Kept
<1>15. CASE RunFinished
  BY <1>15 DEF RunFinished, Selecting, callVars, headVars, poolVars, runVars, stopVars, Kept, TypeOK, Runs
<1>16. CASE SchedShutdown
  BY <1>16 DEF SchedShutdown, Selecting, callVars, headVars, poolVars, runVars, stopVars, Kept, TypeOK, Runs
<1>17. CASE SchedExit
  BY <1>17 DEF SchedExit, ClosedOnExit, callVars, headVars, poolVars, stopVars, Kept, TypeOK, Runs
<1>18. ASSUME NEW stale \in SUBSET run.events, NEW back \in SUBSET (Mined \ pooled),
             NEW again \in SUBSET ((Mined \ pooled) \ back), RunReset(stale, back, again)
       PROVE  Kept
  BY <1>18 DEF RunReset, callVars, schedVars, stopVars, Kept, TypeOK, Runs
<1>19. ASSUME NEW stale \in SUBSET run.events, RunResetAborted(stale)
       PROVE  Kept
  BY <1>19 DEF RunResetAborted, callVars, schedVars, stopVars, Kept, TypeOK, Runs
<1>20. ASSUME NEW t \in run.again, RunReinject(t)
       PROVE  Kept
  <2>1. t \in pooled /\ pooled' = pooled /\ run'.events = run.events
    BY <1>20 DEF RunReinject, OnePerNonce, poolVars, TypeOK, Runs
  <2>2. CASE queuedEvents' = Put(queuedEvents, {t})
    <3> SUFFICES ASSUME NEW u \in queuedEvents, u \notin queuedEvents'
                 PROVE  u \notin pooled' /\ Replaced({u}, queuedEvents' \cup run'.events) # {}
      BY <2>1 DEF Kept
    <3>1. u \notin pooled /\ SameNonce(t, u)
      BY <2>1, <2>2, PutKeeps
    <3>2. t \in queuedEvents'
      BY <2>2 DEF Put
    <3> QED
      BY <2>1, <3>1, <3>2 DEF Replaced
  <2>3. CASE UNCHANGED queuedEvents
    BY <2>1, <2>3 DEF Kept
  <2> QED
    BY <1>20, <2>2, <2>3 DEF RunReinject, queueTxEvent
<1>21. CASE RunLock
  BY <1>21 DEF RunLock, callVars, headVars, schedVars, stopVars, Kept, TypeOK, Runs
<1>22. ASSUME NEW P \in SUBSET Promotable, NEW gone \in SUBSET pooled,
             NEW down \in SUBSET ((pooled \ queued) \cup P), RunPromote(P, down, gone)
       PROVE  Kept
  <2>1. P \subseteq pooled /\ pooled' \subseteq pooled /\ queuedEvents' = queuedEvents
    BY <1>22 DEF RunPromote, OnePerNonce, Promotable, schedVars
  <2>2. run'.events = Put(run.events, P)
    BY <1>22 DEF RunPromote, TypeOK, Runs
  <2> SUFFICES ASSUME NEW t \in run.events, t \notin run'.events
               PROVE  t \notin pooled' /\ Replaced({t}, queuedEvents' \cup run'.events) # {}
    BY <2>1 DEF Kept
  <2>3. t \notin pooled /\ \E u \in P : SameNonce(u, t)
    BY <2>1, <2>2, PutKeeps
  <2>4. P \subseteq run'.events
    BY <2>2 DEF Put
  <2> QED
    BY <2>1, <2>3, <2>4 DEF Replaced
<1>23. CASE RunAnnounce
  BY <1>23 DEF RunAnnounce, callVars, headVars, schedVars, stopVars, Kept, TypeOK, Runs
<1>24. ASSUME NEW gone \in SUBSET pooled, NEW back \in SUBSET ((pooled \ queued) \ gone),
             Evict(gone, back)
       PROVE  Kept
  BY <1>24 DEF Evict, callVars, headVars, runVars, schedVars, stopVars, Kept, TypeOK, Runs
<1>25. CASE HeadMined
  BY <1>25 DEF HeadMined, callVars, poolVars, runVars, schedVars, stopVars, Kept, TypeOK, Runs
<1>26. CASE HeadImported
  BY <1>26 DEF HeadImported, callVars, poolVars, runVars, schedVars, stopVars, Kept, TypeOK, Runs
<1>27. CASE Stop
  BY <1>27 DEF Stop, callVars, headVars, poolVars, runVars, schedVars, Kept, TypeOK, Runs
<1>28. CASE UNCHANGED vars
  BY <1>28 DEF vars, callVars, headVars, poolVars, runVars, schedVars, stopVars, Kept, TypeOK, Runs
<1>29. ASSUME NEW c \in Callers, CallerStep(c)
       PROVE  Kept
  BY <1>1, <1>2, <1>3, <1>4, <1>5, <1>6, <1>7, <1>8, <1>29 DEF CallerStep
<1>30. CASE LoopStep
  BY <1>9, <1>10, <1>11, <1>12, <1>30 DEF LoopStep
<1>31. CASE SchedStep
  BY <1>13, <1>14, <1>15, <1>16, <1>17, <1>31 DEF SchedStep
<1>32. CASE RunStep
  BY <1>18, <1>19, <1>20, <1>21, <1>22, <1>32 DEF RunStep
<1> QED
  BY <1>23, <1>24, <1>25, <1>26, <1>27, <1>28, <1>29, <1>30, <1>31, <1>32 DEF Next

\* No step of loop, scheduleReorgLoop or runReorg drops an event on its way to
\* txFeed: a reset forgets the stale ones of its run, and txSortedMap.Put
\* overwrites only that of a transaction whose place in the pool is taken.
THEOREM NoEventDropped == Spec => EventsKept
<1>1. Inv /\ [Next]_vars => [Kept]_vars
  BY KeptStep DEF Inv
<1>2. EventsKept <=> [][Kept]_vars
  BY DEF EventsKept, Kept
<1> QED
  BY <1>1, <1>2, Invariance, PTL DEF Spec

=============================================================================
