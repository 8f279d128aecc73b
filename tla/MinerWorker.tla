----------------------------- MODULE MinerWorker -----------------------------
(***************************************************************************)
(* The goroutines of the miner: Miner.update and the worker's newWorkLoop,  *)
(* mainLoop, taskLoop and resultLoop, the channels between them, the        *)
(* sealing goroutines of the engine and the chain they extend               *)
(* (miner/octopus_miner.go, miner/octopus_worker.go).  A chain head is its  *)
(* number and an identity; a task is the header of a block to seal.         *)
(***************************************************************************)
EXTENDS Integers, Sequences, FiniteSets

CONSTANTS
  HeadCap,        \* capacity of chainHeadCh
  ResultCap,      \* capacity of resultCh
  AdjustCap,      \* capacity of resubmitAdjustCh
  StaleThreshold, \* depth at which a pending task is dropped
  Stamps,         \* timestamps a header may get
  EngineUnset,    \* the chain configuration names no engine
  TTD,            \* number whose block reaches the terminal difficulty
  Closes,         \* bound: Miner.Close may be called
  MaxHeads,       \* bound: identities of chain heads
  MaxStarts,      \* bound: calls of Miner.Start
  MaxTxEvents     \* bound: transaction events

ASSUME SizeAssumption ==
  /\ {HeadCap, ResultCap, AdjustCap, MaxHeads} \subseteq Nat \ {0}
  /\ {StaleThreshold, TTD, MaxStarts, MaxTxEvents} \subseteq Nat
  /\ {EngineUnset, Closes} \subseteq BOOLEAN

VARIABLES
  update,       \* where Miner.update is
  closing,      \* Miner.exitCh is closed
  running,
  startCh,      \* tokens in the worker's startCh
  exitCh,       \* the worker's exitCh is closed
  newWork,      \* where newWorkLoop is
  interrupt,    \* the interrupt flag of the last request is set
  main,         \* mainLoop: where it is and the work at hand
  current,      \* w.current is not nil
  adjustCh,     \* messages in resubmitAdjustCh
  task,         \* taskLoop: where it is, its task and prev
  seals,        \* the engine's sealing goroutines
  seeded,       \* the engine has its random source
  pendingTasks,
  resultCh,
  result,       \* resultLoop: where it is and its block
  chainHeadCh,  \* numbers of the heads announced to the worker
  head,         \* the chain's current head
  written,      \* sealed blocks in the database
  wanted,       \* history: the last head a start or an event told the worker of
  served,       \* history: the last head that work was offered or refused for
  starts,       \* bound counters
  txEvents

minerVars == <<update, closing, running, startCh, exitCh, starts>>
mainVars == <<main, current, adjustCh, served, txEvents>>
sealVars == <<task, seals, seeded, pendingTasks>>
resultVars == <<resultCh, result>>
chainVars == <<chainHeadCh, head, written, wanted>>
vars == <<minerVars, newWork, interrupt, mainVars, sealVars, resultVars, chainVars>>

Heads == [num : 0..TTD + 1, id : 1..MaxHeads + TTD]
Tasks == [num : 1..TTD + 1, parent : 1..MaxHeads + TTD, stamp : Stamps, txs : BOOLEAN]
None == [num |-> 0]
NoWork == [at |-> "select", interruptible |-> FALSE, noempty |-> FALSE, left |-> 0, work |-> None]

-----------------------------------------------------------------------------
(* Miner.update, and its callers *)

\* start: the flag is set, then the token is sent.
Start ==
  /\ update = "select" /\ starts < MaxStarts
  /\ running' = TRUE
  /\ update' = "start"
  /\ starts' = starts + 1
  /\ wanted' = head.id
  /\ UNCHANGED <<closing, startCh, exitCh, newWork, interrupt, mainVars, sealVars, resultVars,
                 chainHeadCh, head, written>>

StartSends ==
  /\ update = "start" /\ startCh = 0
  /\ startCh' = 1
  /\ update' = "select"
  /\ UNCHANGED <<closing, running, exitCh, starts, newWork, interrupt, mainVars, sealVars,
                 resultVars, chainVars>>

Stop ==
  /\ update = "select" /\ running
  /\ running' = FALSE
  /\ UNCHANGED <<update, closing, startCh, exitCh, starts, newWork, interrupt, mainVars, sealVars,
                 resultVars, chainVars>>

Close ==
  /\ Closes /\ ~closing
  /\ closing' = TRUE
  /\ UNCHANGED <<update, running, startCh, exitCh, starts, newWork, interrupt, mainVars, sealVars,
                 resultVars, chainVars>>

\* worker.close, up to its wait.
CloseWorker ==
  /\ update = "select" /\ closing
  /\ update' = "wait"
  /\ running' = FALSE
  /\ exitCh' = TRUE
  /\ UNCHANGED <<closing, startCh, starts, newWork, interrupt, mainVars, sealVars, resultVars,
                 chainVars>>

LoopsGone == newWork = "gone" /\ main.at = "gone" /\ task.at = "gone" /\ result.at = "gone"

Closed ==
  /\ update = "wait" /\ LoopsGone
  /\ update' = "gone"
  /\ UNCHANGED <<closing, running, startCh, exitCh, starts, newWork, interrupt, mainVars, sealVars,
                 resultVars, chainVars>>

-----------------------------------------------------------------------------
(* newWorkLoop *)

\* clearPending keeps the tasks that are not yet stale.
\* Mutant: a task is stale as soon as its number is taken.
KeepsAhead(t, number) == t.num > number
Keeps(t, number) == t.num + StaleThreshold > number

clearPending(number) == pendingTasks' = {t \in pendingTasks : Keeps(t, number)}

\* A start or a head event: drop stale tasks, interrupt the work in progress.
NewWorkStart ==
  /\ newWork = "select" /\ startCh = 1
  /\ startCh' = 0
  /\ clearPending(head.num)
  /\ interrupt' = TRUE
  /\ newWork' = "commit"
  /\ UNCHANGED <<update, closing, running, exitCh, starts, mainVars, task, seals, seeded, resultVars,
                 chainVars>>

NewWorkHead ==
  /\ newWork = "select" /\ chainHeadCh # <<>>
  /\ chainHeadCh' = Tail(chainHeadCh)
  /\ clearPending(Head(chainHeadCh))
  /\ interrupt' = TRUE
  /\ newWork' = "commit"
  /\ UNCHANGED <<minerVars, mainVars, task, seals, seeded, resultVars, head, written, wanted>>

NewWorkAdjust ==
  /\ newWork = "select" /\ adjustCh > 0
  /\ adjustCh' = adjustCh - 1
  /\ UNCHANGED <<minerVars, newWork, interrupt, main, current, served, txEvents, sealVars,
                 resultVars, chainVars>>

NewWorkExit ==
  /\ exitCh
  /\ \/ newWork = "commit" /\ newWork' = "select"
     \/ newWork = "select" /\ newWork' = "gone"
  /\ UNCHANGED <<minerVars, interrupt, mainVars, sealVars, resultVars, chainVars>>

-----------------------------------------------------------------------------
(* mainLoop *)

\* A request brings an interrupt flag of its own.
\* Mutant: the flag of the request before it.
OldFlag == interrupt
NewFlag == FALSE

\* newWorkCh is unbuffered: the request is sent and taken in one step.
TakeWork ==
  /\ main.at = "select" /\ newWork = "commit"
  /\ newWork' = "select"
  /\ interrupt' = NewFlag
  /\ main' = [NoWork EXCEPT !.at = "prepare", !.interruptible = TRUE]
  /\ UNCHANGED <<minerVars, current, adjustCh, served, txEvents, sealVars, resultVars, chainVars>>

\* Transactions arrive: they are added to the current work when not sealing,
\* which leaves nothing to tell apart here, or new work is made of them.
TakeTxs ==
  /\ main.at = "select" /\ txEvents < MaxTxEvents
  /\ txEvents' = txEvents + 1
  /\ main' = IF (~running /\ current) \/ ~EngineUnset
             THEN main
             ELSE [NoWork EXCEPT !.at = "prepare", !.noempty = TRUE]
  /\ UNCHANGED <<minerVars, newWork, interrupt, current, adjustCh, served, sealVars, resultVars,
                 chainVars>>

\* prepareWork on the chain's head of this moment.
Prepare(stamp) ==
  /\ main.at = "prepare"
  /\ main' = [main EXCEPT
       !.at = IF main.noempty THEN "fill" ELSE "empty",
       !.work = [num |-> head.num + 1, parent |-> head.id, stamp |-> stamp, txs |-> FALSE]]
  /\ UNCHANGED <<minerVars, newWork, interrupt, current, adjustCh, served, txEvents, sealVars,
                 resultVars, chainVars>>

\* It fails: the engine's Prepare or the parent's state.
PrepareFails ==
  /\ main.at = "prepare"
  /\ main' = NoWork
  /\ served' = head.id
  /\ UNCHANGED <<minerVars, newWork, interrupt, current, adjustCh, txEvents, sealVars, resultVars,
                 chainVars>>

isTTDReached == main.work.num - 1 >= TTD

\* After the empty block the work is filled; after the full one it is w.current.
AfterCommit ==
  LET filled == main.at \in {"full", "submitFull"}
  IN /\ main' = IF filled THEN NoWork ELSE [main EXCEPT !.at = "fill"]
     /\ current' = (current \/ filled)

\* commit hands the block to taskLoop if the worker runs.
Commit ==
  /\ main.at \in {"empty", "full"}
  /\ IF running /\ ~isTTDReached
     THEN /\ main' = [main EXCEPT !.at = IF @ = "empty" THEN "submitEmpty" ELSE "submitFull"]
          /\ UNCHANGED current
     ELSE AfterCommit
  /\ served' = IF running /\ main.at = "full" THEN main.work.parent ELSE served
  /\ UNCHANGED <<minerVars, newWork, interrupt, adjustCh, txEvents, sealVars, resultVars, chainVars>>

\* Instead of waiting for taskLoop, commit leaves when the worker closes.
\* Mutant: it only waits for taskLoop.
NeverLeaves == FALSE
LeavesCommit == exitCh

SubmitExit ==
  /\ main.at \in {"submitEmpty", "submitFull"} /\ LeavesCommit
  /\ AfterCommit
  /\ UNCHANGED <<minerVars, newWork, interrupt, adjustCh, served, txEvents, sealVars, resultVars,
                 chainVars>>

\* fillTransactions: which of the local and the remote lists have transactions.
Fill(lists) ==
  /\ main.at = "fill"
  /\ main' = [main EXCEPT !.at = IF lists = 0 THEN "full" ELSE "txs", !.left = lists]
  /\ UNCHANGED <<minerVars, newWork, interrupt, current, adjustCh, served, txEvents, sealVars,
                 resultVars, chainVars>>

AfterList == [main EXCEPT !.at = IF main.left = 1 THEN "full" ELSE "txs", !.left = @ - 1]

\* commitTransactions on one list, some of it applied.
ApplyTxs(some) ==
  /\ main.at = "txs" /\ ~(main.interruptible /\ interrupt)
  /\ LET m == IF main.interruptible THEN [main EXCEPT !.at = "adjust"] ELSE AfterList
     IN main' = [m EXCEPT !.work.txs = @ \/ some]
  /\ UNCHANGED <<minerVars, newWork, interrupt, current, adjustCh, served, txEvents, sealVars,
                 resultVars, chainVars>>

\* A new head interrupts it: the work is discarded.
Interrupted ==
  /\ main.at = "txs" /\ main.interruptible /\ interrupt
  /\ main' = NoWork
  /\ UNCHANGED <<minerVars, newWork, interrupt, current, adjustCh, served, txEvents, sealVars,
                 resultVars, chainVars>>

\* The send to resubmitAdjustCh at the end of commitTransactions waits for room.
Adjust ==
  /\ main.at = "adjust" /\ adjustCh < AdjustCap
  /\ adjustCh' = adjustCh + 1
  /\ main' = AfterList
  /\ UNCHANGED <<minerVars, newWork, interrupt, current, served, txEvents, sealVars, resultVars,
                 chainVars>>

\* The loop ends when the worker closes, or when one of its subscriptions does.
MainExit(unsubscribed) ==
  /\ main.at = "select" /\ (exitCh \/ unsubscribed)
  /\ main' = [main EXCEPT !.at = "gone"]
  /\ UNCHANGED <<minerVars, newWork, interrupt, current, adjustCh, served, txEvents, sealVars,
                 resultVars, chainVars>>

-----------------------------------------------------------------------------
(* taskLoop and the engine's sealing goroutines *)

\* interrupt: the channel of the sealing in progress is closed.
\* Mutant: it is left running.
KeepSealing == seals
StopSealing == {[s EXCEPT !.stopped = TRUE] : s \in seals}

\* taskCh is unbuffered: mainLoop hands over its block, a repeated one is dropped.
TakeTask ==
  /\ main.at \in {"submitEmpty", "submitFull"} /\ task.at = "select"
  /\ AfterCommit
  /\ IF main.work = task.prev
     THEN UNCHANGED <<task, seals, pendingTasks>>
     ELSE /\ task' = [at |-> "seal", prev |-> main.work]
          /\ seals' = StopSealing
          /\ pendingTasks' = pendingTasks \cup {main.work}
  /\ UNCHANGED <<minerVars, newWork, interrupt, adjustCh, served, txEvents, seeded, resultVars,
                 chainVars>>

Seal ==
  /\ task.at = "seal"
  /\ seeded' = TRUE
  /\ seals' = seals \cup {[block |-> task.prev, stopped |-> FALSE]}
  /\ task' = [task EXCEPT !.at = "select"]
  /\ UNCHANGED <<minerVars, newWork, interrupt, mainVars, pendingTasks, resultVars, chainVars>>

\* Seal fails only if it cannot seed its random source, which it does once.
SealFails ==
  /\ task.at = "seal" /\ ~seeded
  /\ pendingTasks' = pendingTasks \ {task.prev}
  /\ task' = [task EXCEPT !.at = "select"]
  /\ UNCHANGED <<minerVars, newWork, interrupt, mainVars, seals, seeded, resultVars, chainVars>>

TaskExit ==
  /\ task.at = "select" /\ exitCh
  /\ seals' = StopSealing
  /\ task' = [task EXCEPT !.at = "gone"]
  /\ UNCHANGED <<minerVars, newWork, interrupt, mainVars, seeded, pendingTasks, resultVars, chainVars>>

\* A result that finds resultCh full is dropped.
Offered(b) == IF Len(resultCh) < ResultCap THEN Append(resultCh, b) ELSE resultCh

\* A nonce is found, perhaps just as the sealing is stopped.
Sealed(s) ==
  /\ seals' = seals \ {s}
  /\ resultCh' = Offered(s.block)
  /\ UNCHANGED <<minerVars, newWork, interrupt, mainVars, task, seeded, pendingTasks, result, chainVars>>

SealAborted(s) ==
  /\ s.stopped
  /\ seals' = seals \ {s}
  /\ UNCHANGED <<minerVars, newWork, interrupt, mainVars, task, seeded, pendingTasks, resultVars, chainVars>>

-----------------------------------------------------------------------------
(* resultLoop and the chain *)

Idle == [at |-> "select", block |-> None]

\* A block that is known, or that has no task left, is skipped.
TakeResult ==
  /\ result.at = "select" /\ resultCh # <<>>
  /\ resultCh' = Tail(resultCh)
  /\ LET b == Head(resultCh)
     IN result' = IF b \notin written /\ b \in pendingTasks
                  THEN [at |-> "write", block |-> b] ELSE Idle
  /\ UNCHANGED <<minerVars, newWork, interrupt, mainVars, sealVars, chainVars>>

\* WriteBlockAndSetHead: a higher block is the new head, one as high may be.
WriteBlock(canonical) ==
  /\ result.at = "write"
  /\ result.block.num > head.num => canonical
  /\ canonical => /\ result.block.num >= head.num
                  /\ result.block.num = head.num => head.id < MaxHeads
  /\ written' = written \cup {result.block}
  /\ head' = IF canonical THEN [num |-> result.block.num, id |-> head.id + 1] ELSE head
  /\ wanted' = IF canonical THEN head.id + 1 ELSE wanted
  /\ result' = IF canonical THEN [result EXCEPT !.at = "send"] ELSE Idle
  /\ UNCHANGED <<minerVars, newWork, interrupt, mainVars, sealVars, resultCh, chainHeadCh>>

WriteFails ==
  /\ result.at = "write"
  /\ result' = Idle
  /\ UNCHANGED <<minerVars, newWork, interrupt, mainVars, sealVars, resultCh, chainVars>>

\* chainHeadFeed.Send waits for room, unless the subscription has ended.
SendHead(number) ==
  \/ main.at = "gone" /\ UNCHANGED chainHeadCh
  \/ main.at # "gone" /\ Len(chainHeadCh) < HeadCap /\ chainHeadCh' = Append(chainHeadCh, number)

AnnounceResult ==
  /\ result.at = "send"
  /\ SendHead(result.block.num)
  /\ result' = Idle
  /\ UNCHANGED <<minerVars, newWork, interrupt, mainVars, sealVars, resultCh, head, written, wanted>>

ResultExit ==
  /\ result.at = "select" /\ exitCh
  /\ result' = [result EXCEPT !.at = "gone"]
  /\ UNCHANGED <<minerVars, newWork, interrupt, mainVars, sealVars, resultCh, chainVars>>

\* insertChain extends the chain; no event tells the worker.
Import ==
  /\ head.num < TTD /\ head.id < MaxHeads
  /\ head' = [num |-> head.num + 1, id |-> head.id + 1]
  /\ UNCHANGED <<minerVars, newWork, interrupt, mainVars, sealVars, resultVars, chainHeadCh, written,
                 wanted>>

-----------------------------------------------------------------------------
Init ==
  /\ update = "select" /\ closing = FALSE /\ running = FALSE
  /\ startCh = 1 /\ exitCh = FALSE /\ starts = 0
  /\ newWork = "select" /\ interrupt = FALSE
  /\ main = NoWork /\ current = FALSE /\ adjustCh = 0 /\ served = 0 /\ txEvents = 0
  /\ task = [at |-> "select", prev |-> None] /\ seals = {} /\ seeded = FALSE /\ pendingTasks = {}
  /\ resultCh = <<>> /\ result = Idle
  /\ chainHeadCh = <<>> /\ head = [num |-> 0, id |-> 1] /\ written = {} /\ wanted = 0

Update == StartSends \/ CloseWorker \/ Closed
newWorkLoop == NewWorkStart \/ NewWorkHead \/ NewWorkAdjust \/ NewWorkExit
mainLoop ==
  \/ TakeWork \/ PrepareFails \/ Commit \/ SubmitExit \/ TakeTask \/ Interrupted \/ Adjust
  \/ MainExit(FALSE)
  \/ \E stamp \in Stamps : Prepare(stamp)
  \/ \E lists \in 0..2 : Fill(lists)
  \/ \E some \in BOOLEAN : ApplyTxs(some)
taskLoop == Seal \/ SealFails \/ TaskExit
resultLoop ==
  \/ TakeResult \/ WriteFails \/ AnnounceResult \/ ResultExit
  \/ \E canonical \in BOOLEAN : WriteBlock(canonical)
Engine == \E s \in seals : Sealed(s) \/ SealAborted(s)
Environment == Start \/ Stop \/ Close \/ TakeTxs \/ Import \/ MainExit(TRUE)

Next ==
  \/ Update \/ newWorkLoop \/ mainLoop \/ taskLoop \/ resultLoop \/ Engine \/ Environment

\* Every goroutine that can move does.  Nothing makes a nonce be found, a
\* caller call or a block arrive.
Spec ==
  /\ Init /\ [][Next]_vars
  /\ WF_vars(Update) /\ WF_vars(newWorkLoop) /\ WF_vars(mainLoop) /\ WF_vars(taskLoop)
  /\ WF_vars(resultLoop)

-----------------------------------------------------------------------------
(* Properties *)

\* Values stay in range and no channel exceeds its capacity, results that
\* nobody reads included (Seal's default case).
TypeOK ==
  /\ update \in {"select", "start", "wait", "gone"}
  /\ {closing, running, exitCh, interrupt, current, seeded} \subseteq BOOLEAN
  /\ startCh \in 0..1
  /\ newWork \in {"select", "commit", "gone"}
  /\ main \in [at : {"select", "prepare", "empty", "submitEmpty", "fill", "txs", "adjust", "full",
                     "submitFull", "gone"},
               interruptible : BOOLEAN, noempty : BOOLEAN, left : 0..2, work : Tasks \cup {None}]
  /\ adjustCh \in 0..AdjustCap
  /\ task \in [at : {"select", "seal", "gone"}, prev : Tasks \cup {None}]
  /\ seals \subseteq [block : Tasks, stopped : BOOLEAN]
  /\ pendingTasks \subseteq Tasks /\ written \subseteq Tasks
  /\ resultCh \in Seq(Tasks) /\ Len(resultCh) <= ResultCap
  /\ result \in [at : {"select", "write", "send", "gone"}, block : Tasks \cup {None}]
  /\ chainHeadCh \in Seq(1..TTD) /\ Len(chainHeadCh) <= HeadCap
  /\ head \in Heads /\ {wanted, served} \subseteq 0..MaxHeads + TTD
  /\ starts \in 0..MaxStarts /\ txEvents \in 0..MaxTxEvents

\* At most one sealing goes on that was not told to stop, the one of the last
\* task, and none does once taskLoop has ended.
OneSealing ==
  \A s \in seals : ~s.stopped => /\ s.block = task.prev
                                 /\ task.at = "select"

\* A result that is not stale still has its task, so that resultLoop can
\* write it: clearPending and a failing Seal only drop tasks nobody waits for.
ResultHasTask ==
  \A i \in 1..Len(resultCh) :
    resultCh[i].num + StaleThreshold > head.num => resultCh[i] \in pendingTasks

\* mainLoop waits for room in resubmitAdjustCh, which newWorkLoop cannot make
\* because it waits for mainLoop or has ended.
AdjustStuck == main.at = "adjust" /\ adjustCh = AdjustCap /\ newWork \in {"commit", "gone"}

\* update waits for room in startCh, which newWorkLoop cannot make because
\* mainLoop has lost its subscriptions.
StartStuck == update = "start" /\ startCh = 1 /\ newWork = "commit" /\ main.at = "gone"

\* Close returns unless the goroutines wait for each other in one of the two
\* ways above, whatever they were doing when it was called.
CloseUnlessStuck == <>[](closing => update = "gone" \/ AdjustStuck \/ StartStuck)

\* A running miner ends up with a full block offered to taskLoop, or a failed
\* attempt, for the head it was started on, or set itself, last or for a later
\* one, unless the goroutines are stuck.  A head that was imported since has no
\* such claim.
HeadWorked == <>[](running => served >= wanted \/ AdjustStuck \/ main.at = "gone")
=============================================================================
