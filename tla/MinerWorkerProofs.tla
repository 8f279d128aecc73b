-------------------------- MODULE MinerWorkerProofs --------------------------
(* The miner's worker for any capacities, any threshold and any set of time-  *)
(* stamps: types, at most one sealing that goes on, and a task for every      *)
(* result that is not stale.                                                  *)
(*                                                                            *)
(* The last is not inductive.  A result comes from a sealing goroutine, and   *)
(* that from the task at hand, so these must keep their tasks as well; and    *)
(* clearPending gets its number from an event that may be old, so that every  *)
(* number on its way to newWorkLoop must be known not to exceed the head.     *)
EXTENDS MinerWorker, TLAPS

USE ZenonT(10), SMTT(60)

(* Blocks that reach taskLoop are not beyond the terminal difficulty.         *)
Sealable == {t \in Tasks : t.num <= TTD}

MainAt == {"select", "prepare", "empty", "submitEmpty", "fill", "txs", "adjust", "full",
           "submitFull", "gone"}

FlagInv ==
  /\ update \in {"select", "start", "wait", "gone"}
  /\ newWork \in {"select", "commit", "gone"}
  /\ closing \in BOOLEAN /\ running \in BOOLEAN /\ exitCh \in BOOLEAN /\ interrupt \in BOOLEAN
  /\ current \in BOOLEAN

CountInv ==
  /\ startCh \in 0..1 /\ adjustCh \in 0..AdjustCap
  /\ starts \in 0..MaxStarts /\ txEvents \in 0..MaxTxEvents
  /\ served \in 0..MaxHeads + TTD

MinerInv == FlagInv /\ CountInv

(* The work at hand of mainLoop, where it has some.                           *)
MainType == [at : MainAt, interruptible : BOOLEAN, noempty : BOOLEAN, left : 0..2,
             work : Tasks \cup {None}]

MainOK(m) ==
  /\ m \in MainType
  /\ m.at \notin {"select", "prepare", "gone"} => m.work \in Tasks
  /\ m.at \in {"submitEmpty", "submitFull"} => m.work.num <= TTD
  /\ m.at \in {"txs", "adjust"} => m.left > 0

MainInv == MainOK(main)

SealInv ==
  /\ task \in [at : {"select", "seal", "gone"}, prev : Sealable \cup {None}]
  /\ task.at = "seal" => task.prev \in Sealable
  /\ seals \subseteq [block : Sealable, stopped : BOOLEAN]
  /\ seeded \in BOOLEAN
  /\ pendingTasks \subseteq Sealable

ResultInv ==
  /\ resultCh \in Seq(Sealable) /\ Len(resultCh) <= ResultCap
  /\ result \in [at : {"select", "write", "send", "gone"}, block : Sealable \cup {None}]
  /\ result.at \in {"write", "send"} => result.block \in Sealable
  /\ written \subseteq Sealable

(* Every head announced, or about to be, is no higher than the chain's.       *)
ChainInv ==
  /\ head \in [num : 0..TTD, id : 1..MaxHeads + TTD]
  /\ head.id <= MaxHeads + head.num
  /\ wanted \in 0..MaxHeads + TTD
  /\ result.at = "send" => result.block.num <= head.num
  /\ chainHeadCh \in Seq(1..TTD) /\ Len(chainHeadCh) <= HeadCap
  /\ \A i \in 1..Len(chainHeadCh) : chainHeadCh[i] <= head.num

Types == MinerInv /\ MainInv /\ SealInv /\ ResultInv /\ ChainInv

(* The blocks whose task is still waited for: in the hands of taskLoop, of a  *)
(* sealing goroutine, or of one that has delivered.                           *)
Awaited ==
  {t \in Sealable : \/ task.at = "seal" /\ t = task.prev
                    \/ \E s \in seals : s.block = t
                    \/ \E i \in 1..Len(resultCh) : resultCh[i] = t}

Fresh(t) == t.num + StaleThreshold > head.num

HasTask == \A t \in Awaited : Fresh(t) => t \in pendingTasks

(* Nothing is sealed before the engine is seeded, the only time Seal fails.   *)
SeedInv == ~seeded => seals = {} /\ resultCh = <<>>

----------------------------------------------------------------------------
(* A task has a number, which tells it from the absence of one.               *)
LEMMA TaskNumber == ASSUME NEW t \in Tasks PROVE t.num \in 1..TTD + 1 /\ t # None
  BY DEF Tasks, None

(* Only mainLoop, transactions and the end of a subscription touch the work.  *)
LEMMA MainFrame ==
  ASSUME Next
  PROVE  \/ mainLoop \/ TakeTxs \/ MainExit(TRUE)
         \/ UNCHANGED <<main, current, served, txEvents>>
  BY ZenonT(60) DEF Next, Update, newWorkLoop, taskLoop, resultLoop, Engine, Environment, StartSends,
     CloseWorker, Closed, NewWorkStart, NewWorkHead, NewWorkAdjust, NewWorkExit, Seal, SealFails,
     TaskExit, TakeResult, WriteFails, AnnounceResult, ResultExit, WriteBlock, Sealed, SealAborted,
     Start, Stop, Close, Import, mainVars

(* Only taskLoop, the engine, a handed over task and clearPending touch what is *)
(* sealed.                                                                    *)
LEMMA SealFrame ==
  ASSUME Next
  PROVE  \/ taskLoop \/ Engine \/ TakeTask \/ NewWorkStart \/ NewWorkHead
         \/ UNCHANGED sealVars
  BY ZenonT(60) DEF Next, Update, newWorkLoop, mainLoop, resultLoop, Environment, StartSends,
     CloseWorker, Closed, NewWorkAdjust, NewWorkExit, TakeWork, PrepareFails, Commit, SubmitExit,
     Interrupted, Adjust, MainExit, Prepare, Fill, ApplyTxs,
     TakeResult, WriteFails, AnnounceResult, ResultExit, WriteBlock,
     Start, Stop, Close, TakeTxs, Import, sealVars

(* Only resultLoop and the engine touch the results and the written blocks.   *)
LEMMA ResultFrame ==
  ASSUME Next
  PROVE  \/ resultLoop \/ Engine
         \/ UNCHANGED <<resultVars, written>>
  BY ZenonT(60) DEF Next, Update, newWorkLoop, mainLoop, taskLoop, Environment, StartSends,
     CloseWorker, Closed, NewWorkStart, NewWorkHead, NewWorkAdjust, NewWorkExit, TakeWork,
     PrepareFails, Commit, SubmitExit, TakeTask, Interrupted, Adjust, MainExit, Prepare, Fill,
     ApplyTxs, Seal, SealFails, TaskExit, Start, Stop, Close, TakeTxs, Import,
     resultVars, chainVars

(* Only resultLoop, insertChain, a start and newWorkLoop touch the chain and   *)
(* its events.                                                                *)
LEMMA ChainFrame ==
  ASSUME Next
  PROVE  \/ resultLoop \/ Import \/ Start \/ NewWorkHead
         \/ UNCHANGED <<chainHeadCh, head, wanted, result>>
  BY ZenonT(60) DEF Next, Update, newWorkLoop, mainLoop, taskLoop, Engine, Environment, StartSends,
     CloseWorker, Closed, NewWorkStart, NewWorkAdjust, NewWorkExit, TakeWork,
     PrepareFails, Commit, SubmitExit, TakeTask, Interrupted, Adjust, MainExit, Prepare, Fill,
     ApplyTxs, Seal, SealFails, TaskExit, Sealed, SealAborted, Stop, Close, TakeTxs,
     resultVars, chainVars

----------------------------------------------------------------------------
(* Types *)

(* The assumption, one constant at a time.                                    *)
LEMMA Sizes ==
  /\ HeadCap \in Nat \ {0} /\ ResultCap \in Nat \ {0} /\ AdjustCap \in Nat \ {0}
  /\ MaxHeads \in Nat \ {0} /\ StaleThreshold \in Nat /\ TTD \in Nat
  /\ MaxStarts \in Nat /\ MaxTxEvents \in Nat /\ EngineUnset \in BOOLEAN /\ Closes \in BOOLEAN
  BY SizeAssumption

(* mainLoop without work.                                                     *)
LEMMA NoWorkFacts == NoWork \in MainType /\ NoWork.at = "select"
  BY DEF NoWork, MainType, MainAt

(* The worker as newWorker leaves it.                                         *)
LEMMA InitTypes == ASSUME Init PROVE Types
<1> USE Sizes DEF Init
<1>1. MinerInv
  <2>1. CountInv
    BY DEF CountInv
  <2> QED BY <2>1, ZenonT(60) DEF MinerInv, FlagInv
<1>2. MainInv
  BY NoWorkFacts DEF MainInv, MainOK
<1>3. SealInv
  BY ZenonT(60) DEF SealInv
<1>4. ResultInv
  BY DEF ResultInv, Idle, None
<1>5. ChainInv
  BY DEF ChainInv, Idle
<1> QED BY <1>1, <1>2, <1>3, <1>4, <1>5 DEF Types

(* After a commit the work is filled or done.                                 *)
LEMMA AfterCommitMain ==
  ASSUME MainInv, main.at \in {"empty", "full", "submitEmpty", "submitFull"}, AfterCommit
  PROVE  MainInv'
  BY NoWorkFacts DEF MainInv, MainOK, MainType, AfterCommit, MainAt

(* After a list of transactions the next one follows, or the full block.      *)
LEMMA AfterListMain ==
  ASSUME MainInv, main.at \in {"txs", "adjust"}
  PROVE  AfterList.at \in {"full", "txs"} /\ MainOK(AfterList)
<1>1. main.left \in 1..2 /\ main.work \in Tasks /\ main \in MainType
  BY DEF MainInv, MainOK, MainType
<1>2. /\ AfterList \in MainType /\ AfterList.work = main.work
      /\ AfterList.at = IF main.left = 1 THEN "full" ELSE "txs"
      /\ AfterList.left = main.left - 1
  <2>1. {"full", "txs"} \subseteq MainAt /\ main.left - 1 \in 0..2
    BY <1>1 DEF MainAt
  <2>2. PICK a \in MainAt : a = IF main.left = 1 THEN "full" ELSE "txs"
    BY <2>1
  <2>3. PICK n \in 0..2 : n = main.left - 1
    BY <2>1
  <2>4. AfterList = [main EXCEPT !.at = a, !.left = n]
    BY <2>2, <2>3 DEF AfterList
  <2> QED BY <1>1, <2>2, <2>3, <2>4, ZenonT(60) DEF MainType
<1> QED BY <1>1, <1>2 DEF MainOK

(* mainLoop keeps its work well formed: only work below the terminal difficulty *)
(* is handed to taskLoop.                                                     *)
LEMMA MainStep == ASSUME Types, Next PROVE MainInv'
<1> USE Sizes
<1>a. /\ MainInv /\ main \in MainType
      /\ head \in [num : 0..TTD, id : 1..MaxHeads + TTD]
  BY DEF Types, ChainInv, MainInv, MainOK
<1>1. ASSUME NEW i \in BOOLEAN, NEW e \in BOOLEAN,
             main' = [NoWork EXCEPT !.at = "prepare", !.interruptible = i]
             \/ main' = [NoWork EXCEPT !.at = "prepare", !.noempty = e]
      PROVE  MainInv'
  BY <1>1, NoWorkFacts, ZenonT(60) DEF MainInv, MainOK, MainType, MainAt
<1>2. CASE TakeWork
  BY <1>1, <1>2, ZenonT(60) DEF TakeWork
<1>3. CASE TakeTxs
  BY <1>a, <1>1, <1>3, ZenonT(60) DEF TakeTxs, MainInv
<1>4. ASSUME NEW stamp \in Stamps, Prepare(stamp) PROVE MainInv'
  <2> DEFINE w == [num |-> head.num + 1, parent |-> head.id, stamp |-> stamp, txs |-> FALSE]
  <2>1. w \in Tasks
    BY <1>a DEF Tasks
  <2>2. PICK a \in {"fill", "empty"} : main' = [main EXCEPT !.at = a, !.work = w]
    BY <1>4, ZenonT(60) DEF Prepare
  <2> HIDE DEF w
  <2> QED BY <1>a, <2>1, <2>2, ZenonT(60) DEF MainInv, MainOK, MainType, MainAt
<1>5. CASE PrepareFails \/ Interrupted
  BY <1>5, NoWorkFacts DEF PrepareFails, Interrupted, MainInv, MainOK
<1>6. CASE Commit
  <2>1. CASE running /\ ~isTTDReached
    <3>1. main.work \in Tasks /\ main.work.num <= TTD
      BY <1>a, <1>6, <2>1, TaskNumber DEF Commit, MainInv, MainOK, isTTDReached
    <3>2. PICK a \in {"submitEmpty", "submitFull"} : main' = [main EXCEPT !.at = a]
      BY <1>6, <2>1 DEF Commit
    <3>3. main' \in MainType /\ main'.work = main.work /\ main'.at = a
      BY <1>a, <3>2 DEF MainType, MainAt
    <3> QED BY <3>1, <3>3 DEF MainInv, MainOK
  <2>2. CASE ~(running /\ ~isTTDReached)
    BY <1>a, <1>6, <2>2, AfterCommitMain DEF Commit
  <2> QED BY <2>1, <2>2
<1>7. CASE SubmitExit \/ TakeTask
  BY <1>a, <1>7, AfterCommitMain DEF SubmitExit, TakeTask
<1>8. ASSUME NEW lists \in 0..2, Fill(lists) PROVE MainInv'
  <2>1. main.work \in Tasks /\ {"full", "txs"} \subseteq MainAt
    BY <1>a, <1>8 DEF Fill, MainInv, MainOK, MainAt
  <2>2. PICK a \in MainAt : a = IF lists = 0 THEN "full" ELSE "txs"
    BY <2>1
  <2>3. main' = [main EXCEPT !.at = a, !.left = lists]
    BY <1>8, <2>2 DEF Fill
  <2>4. main' \in MainType /\ main'.work = main.work /\ main'.at = a /\ main'.left = lists
    BY <1>a, <2>3, ZenonT(60) DEF MainType
  <2> QED BY <2>1, <2>2, <2>4 DEF MainInv, MainOK
<1>9. ASSUME NEW some \in BOOLEAN, ApplyTxs(some) PROVE MainInv'
  <2> DEFINE m == IF main.interruptible THEN [main EXCEPT !.at = "adjust"] ELSE AfterList
  <2>1. main.at = "txs"
    BY <1>9 DEF ApplyTxs
  <2>2. MainOK(m) /\ m.at \in {"adjust", "txs", "full"}
    BY <1>a, <2>1, AfterListMain DEF MainInv, MainOK, MainType, MainAt
  <2>3. main' = [m EXCEPT !.work = [m.work EXCEPT !.txs = m.work.txs \/ some]]
    BY <1>9, ZenonT(60) DEF ApplyTxs
  <2> HIDE DEF m
  <2>4. [m.work EXCEPT !.txs = m.work.txs \/ some] \in Tasks
    BY <2>2 DEF MainOK, Tasks
  <2> QED BY <2>2, <2>3, <2>4 DEF MainInv, MainOK, MainType
<1>10. CASE Adjust
  BY <1>a, <1>10, AfterListMain DEF Adjust, MainInv
<1>11. ASSUME NEW u \in BOOLEAN, MainExit(u) PROVE MainInv'
  BY <1>a, <1>11 DEF MainExit, MainInv, MainOK, MainType, MainAt
<1>12. CASE UNCHANGED <<main, current, served, txEvents>>
  BY <1>a, <1>12 DEF MainInv
<1> QED
  BY <1>2, <1>3, <1>4, <1>5, <1>6, <1>7, <1>8, <1>9, <1>10, <1>11, <1>12, MainFrame, ZenonT(60) DEF mainLoop

(* The flags and the places of update and newWorkLoop.                        *)
LEMMA FlagStep == ASSUME Types, Next PROVE FlagInv'
<1> USE ZenonT(60)
<1>a. FlagInv
  BY DEF Types, MinerInv
<1>1. CASE Start \/ StartSends \/ Stop \/ Close \/ CloseWorker \/ Closed
  BY <1>a, <1>1 DEF Start, StartSends, Stop, Close, CloseWorker, Closed, FlagInv, mainVars
<1>2. CASE newWorkLoop
  BY <1>a, <1>2 DEF newWorkLoop, NewWorkStart, NewWorkHead, NewWorkAdjust, NewWorkExit, FlagInv,
     mainVars, minerVars
<1>3. CASE TakeWork
  BY <1>a, <1>3 DEF TakeWork, NewFlag, FlagInv, minerVars
<1>4. CASE Commit \/ SubmitExit \/ TakeTask
  <2>1. current' \in BOOLEAN
    BY <1>a, <1>4 DEF Commit, SubmitExit, TakeTask, AfterCommit, FlagInv
  <2> QED BY <1>a, <1>4, <2>1 DEF Commit, SubmitExit, TakeTask, FlagInv, minerVars
<1>5. CASE UNCHANGED <<minerVars, newWork, interrupt, current>>
  BY <1>a, <1>5 DEF FlagInv, minerVars
<1>6. \/ Start \/ StartSends \/ Stop \/ Close \/ CloseWorker \/ Closed \/ newWorkLoop
      \/ TakeWork \/ Commit \/ SubmitExit \/ TakeTask
      \/ UNCHANGED <<minerVars, newWork, interrupt, current>>
  BY DEF Next, Update, mainLoop, taskLoop, resultLoop, Engine, Environment, TakeTxs, PrepareFails,
     Adjust, Interrupted, MainExit, Prepare, Fill, ApplyTxs, Seal, SealFails, TaskExit, TakeResult,
     WriteFails, AnnounceResult, ResultExit, WriteBlock, Sealed, SealAborted,
     Import, mainVars
<1> QED BY <1>1, <1>2, <1>3, <1>4, <1>5, <1>6

(* The counters, and the tokens in startCh and resubmitAdjustCh.              *)
LEMMA CountStep == ASSUME Types, Next PROVE CountInv'
<1> USE Sizes
<1>a. CountInv /\ MainInv /\ head.id \in 1..MaxHeads + TTD
  BY DEF Types, MinerInv, ChainInv
<1>1. CASE Start \/ StartSends \/ NewWorkStart
  <2>1. /\ \/ starts < MaxStarts /\ starts' = starts + 1 /\ startCh' = startCh
           \/ starts' = starts /\ startCh' \in {0, 1}
        /\ UNCHANGED <<adjustCh, txEvents, served>>
    BY <1>1, ZenonT(60) DEF Start, StartSends, NewWorkStart, mainVars
  <2> QED BY <1>a, <2>1 DEF CountInv
<1>2. CASE NewWorkAdjust \/ Adjust
  <2>1. /\ \/ adjustCh > 0 /\ adjustCh' = adjustCh - 1
           \/ adjustCh < AdjustCap /\ adjustCh' = adjustCh + 1
        /\ UNCHANGED <<startCh, starts, txEvents, served>>
    BY <1>2, ZenonT(60) DEF NewWorkAdjust, Adjust, minerVars
  <2> QED BY <1>a, <2>1 DEF CountInv
<1>3. CASE TakeTxs
  BY <1>a, <1>3 DEF TakeTxs, CountInv, minerVars
<1>4. CASE PrepareFails
  <2>1. served' = head.id /\ UNCHANGED <<startCh, adjustCh, starts, txEvents>>
    BY <1>4 DEF PrepareFails, minerVars
  <2> QED BY <1>a, <2>1 DEF CountInv
<1>5. CASE Commit
  <2>1. main.work.parent \in 1..MaxHeads + TTD
    BY <1>a, <1>5 DEF Commit, MainInv, MainOK, Tasks
  <2>2. served' \in 0..MaxHeads + TTD
    BY <1>a, <1>5, <2>1 DEF Commit, CountInv
  <2> QED BY <1>a, <1>5, <2>2 DEF Commit, CountInv, minerVars
<1>6. CASE UNCHANGED <<startCh, adjustCh, starts, txEvents, served>>
  BY <1>a, <1>6 DEF CountInv
<1>7. \/ Start \/ StartSends \/ NewWorkStart \/ NewWorkAdjust \/ Adjust \/ TakeTxs
      \/ PrepareFails \/ Commit \/ UNCHANGED <<startCh, adjustCh, starts, txEvents, served>>
  BY ZenonT(60) DEF Next, Update, newWorkLoop, mainLoop, taskLoop, resultLoop, Engine, Environment,
     Stop, Close, CloseWorker, Closed, NewWorkHead, NewWorkExit, TakeWork, SubmitExit, TakeTask,
     Interrupted, MainExit, Prepare, Fill, ApplyTxs, Seal, SealFails, TaskExit, TakeResult,
     WriteFails, AnnounceResult, ResultExit, WriteBlock, Sealed, SealAborted,
     Import, mainVars, minerVars
<1> QED BY <1>1, <1>2, <1>3, <1>4, <1>5, <1>6, <1>7

(* What is left in a channel when its first message is taken.                 *)
LEMMA TailFacts ==
  ASSUME NEW S, NEW q \in Seq(S), q # <<>>
  PROVE  /\ Head(q) = q[1] /\ Len(q) \in Nat \ {0} /\ Tail(q) \in Seq(S)
         /\ Len(Tail(q)) = Len(q) - 1 /\ \A i \in 1..Len(Tail(q)) : Tail(q)[i] = q[i + 1]
  OBVIOUS

(* taskLoop and the engine: tasks, sealings and pending tasks.                *)
LEMMA SealStep == ASSUME Types, Next PROVE SealInv'
<1>a. SealInv /\ MainInv
  BY DEF Types
<1>1. CASE NewWorkStart \/ NewWorkHead
  <2>1. pendingTasks' \subseteq pendingTasks /\ UNCHANGED <<task, seals, seeded>>
    BY <1>1 DEF NewWorkStart, NewWorkHead, clearPending
  <2> QED BY <1>a, <2>1 DEF SealInv
<1>2. CASE TakeTask
  <2>1. main.work \in Sealable
    BY <1>a, <1>2 DEF TakeTask, MainInv, MainOK, Sealable
  <2>2. seeded' = seeded /\ ( \/ UNCHANGED <<task, seals, pendingTasks>>
                             \/ /\ task' = [at |-> "seal", prev |-> main.work]
                                /\ seals' = StopSealing
                                /\ pendingTasks' = pendingTasks \cup {main.work} )
    BY <1>2, ZenonT(60) DEF TakeTask
  <2>3. StopSealing \subseteq [block : Sealable, stopped : BOOLEAN]
    BY <1>a, ZenonT(60) DEF SealInv, StopSealing
  <2>4. task' \in [at : {"select", "seal", "gone"}, prev : Sealable \cup {None}]
        /\ (task'.at = "seal" => task'.prev \in Sealable)
    BY <1>a, <2>1, <2>2 DEF SealInv
  <2> QED BY <1>a, <2>1, <2>2, <2>3, <2>4 DEF SealInv
<1>3. CASE Seal
  <2>1. task.prev \in Sealable
    BY <1>a, <1>3 DEF Seal, SealInv
  <2>2. seals' \subseteq [block : Sealable, stopped : BOOLEAN]
    <3>1. [block |-> task.prev, stopped |-> FALSE] \in [block : Sealable, stopped : BOOLEAN]
      BY <2>1
    <3>2. seals' = seals \cup {[block |-> task.prev, stopped |-> FALSE]}
      BY <1>3 DEF Seal
    <3> QED BY <1>a, <3>1, <3>2, ZenonT(60) DEF SealInv
  <2>3. task' = [task EXCEPT !.at = "select"] /\ seeded' = TRUE /\ pendingTasks' = pendingTasks
    BY <1>3 DEF Seal
  <2> QED BY <1>a, <2>2, <2>3 DEF SealInv
<1>4. CASE SealFails
  BY <1>a, <1>4 DEF SealFails, SealInv
<1>5. CASE TaskExit
  BY <1>a, <1>5, ZenonT(60) DEF TaskExit, StopSealing, SealInv
<1>6. CASE Engine
  BY <1>a, <1>6 DEF Engine, Sealed, SealAborted, SealInv, sealVars
<1>7. CASE UNCHANGED sealVars
  BY <1>a, <1>7 DEF sealVars, SealInv
<1> QED BY <1>1, <1>2, <1>3, <1>4, <1>5, <1>6, <1>7, SealFrame DEF taskLoop

(* resultLoop: the results fit in resultCh and the blocks are sealable.       *)
LEMMA ResultStep == ASSUME Types, Next PROVE ResultInv'
<1> USE Sizes
<1>a. ResultInv /\ SealInv
  BY DEF Types
<1>1. CASE TakeResult
  <2>1. Head(resultCh) \in Sealable /\ Tail(resultCh) \in Seq(Sealable)
        /\ Len(Tail(resultCh)) <= ResultCap
    BY <1>a, <1>1 DEF TakeResult, ResultInv
  <2> QED BY <1>a, <1>1, <2>1 DEF TakeResult, ResultInv, Idle, chainVars
<1>2. ASSUME NEW canonical \in BOOLEAN, WriteBlock(canonical) PROVE ResultInv'
  BY <1>a, <1>2 DEF WriteBlock, ResultInv, Idle
<1>3. CASE WriteFails \/ AnnounceResult
  BY <1>a, <1>3 DEF WriteFails, AnnounceResult, ResultInv, Idle, chainVars
<1>4. CASE ResultExit
  BY <1>a, <1>4 DEF ResultExit, ResultInv, chainVars
<1>5. ASSUME NEW s \in seals, Sealed(s) PROVE ResultInv'
  <2>1. s.block \in Sealable
    BY <1>a DEF SealInv
  <2> QED BY <1>a, <1>5, <2>1 DEF Sealed, Offered, ResultInv, chainVars
<1>6. ASSUME NEW s \in seals, SealAborted(s) PROVE ResultInv'
  BY <1>a, <1>6 DEF SealAborted, ResultInv, resultVars, chainVars
<1>7. CASE UNCHANGED <<resultVars, written>>
  BY <1>a, <1>7 DEF ResultInv, resultVars
<1> QED BY <1>1, <1>2, <1>3, <1>4, <1>5, <1>6, <1>7, ResultFrame DEF resultLoop, Engine

(* Sending a head number that the chain has reached.                          *)
LEMMA SendKeeps ==
  ASSUME ChainInv, NEW n \in 1..TTD, n <= head.num, SendHead(n)
  PROVE  /\ chainHeadCh' \in Seq(1..TTD) /\ Len(chainHeadCh') <= HeadCap
         /\ \A i \in 1..Len(chainHeadCh') : chainHeadCh'[i] <= head.num
<1> USE Sizes
<1>1. CASE chainHeadCh' = chainHeadCh
  BY <1>1 DEF ChainInv
<1>2. CASE Len(chainHeadCh) < HeadCap /\ chainHeadCh' = Append(chainHeadCh, n)
  BY <1>2 DEF ChainInv
<1> QED BY <1>1, <1>2 DEF SendHead

(* The chain: its head stays in range and no announced number is above it.    *)
LEMMA ChainStep == ASSUME Types, Next PROVE ChainInv'
<1> USE Sizes
<1>a. ChainInv /\ ResultInv
  BY DEF Types
<1>b. ASSUME NEW t \in Sealable PROVE t.num \in 1..TTD
  BY TaskNumber DEF Sealable
<1>1. CASE TakeResult \/ WriteFails \/ ResultExit
  <2>1. result'.at # "send" /\ UNCHANGED <<chainHeadCh, head, wanted>>
    BY <1>a, <1>1 DEF TakeResult, WriteFails, ResultExit, Idle, chainVars, ResultInv
  <2> QED BY <1>a, <2>1 DEF ChainInv
<1>2. ASSUME NEW canonical \in BOOLEAN, WriteBlock(canonical) PROVE ChainInv'
  <2>1. result.block.num \in 1..TTD
    BY <1>a, <1>b, <1>2 DEF WriteBlock, ResultInv
  <2>2. chainHeadCh' = chainHeadCh /\ wanted' = IF canonical THEN head.id + 1 ELSE wanted
    BY <1>2 DEF WriteBlock
  <2>3. CASE canonical
    <3>1. /\ head' = [num |-> result.block.num, id |-> head.id + 1]
          /\ result' = [result EXCEPT !.at = "send"]
          /\ result.block.num >= head.num
          /\ result.block.num = head.num => head.id < MaxHeads
      BY <1>2, <2>3 DEF WriteBlock
    <3>2. result'.block = result.block
      BY <1>a, <3>1 DEF ResultInv
    <3>3. head'.num = result.block.num /\ head'.id = head.id + 1
      BY <3>1
    <3>4. head.num \in 0..TTD /\ head.id \in 1..MaxHeads + TTD /\ head.id <= MaxHeads + head.num
      BY <1>a DEF ChainInv
    <3>5. head'.id <= MaxHeads + head'.num /\ head'.id \in 1..MaxHeads + TTD
      BY <2>1, <3>1, <3>3, <3>4
    <3>6. \A n \in Int : n <= head.num => n <= head'.num
      BY <2>1, <3>1, <3>3, <3>4
    <3>7. wanted' \in 0..MaxHeads + TTD /\ \A i \in 1..Len(chainHeadCh') : chainHeadCh'[i] <= head'.num
      BY <1>a, <2>2, <2>3, <3>3, <3>5, <3>6 DEF ChainInv
    <3>8. head' \in [num : 0..TTD, id : 1..MaxHeads + TTD] /\ result'.block.num <= head'.num
      BY <2>1, <3>1, <3>2, <3>3, <3>5
    <3> QED BY <1>a, <2>2, <3>5, <3>7, <3>8, ZenonT(60) DEF ChainInv
  <2>4. CASE ~canonical
    <3>1. head' = head /\ result'.at # "send"
      BY <1>2, <2>4 DEF WriteBlock, Idle
    <3> QED BY <1>a, <2>2, <2>4, <3>1 DEF ChainInv
  <2> QED BY <2>3, <2>4
<1>3. CASE AnnounceResult
  <2>1. result.block.num \in 1..TTD /\ result.block.num <= head.num
    BY <1>a, <1>b, <1>3 DEF AnnounceResult, ResultInv, ChainInv
  <2>2. result'.at # "send" /\ UNCHANGED <<head, wanted>> /\ SendHead(result.block.num)
    BY <1>3 DEF AnnounceResult, Idle
  <2> QED BY <1>a, <2>1, <2>2, SendKeeps DEF ChainInv
<1>4. CASE Import
  <2>1. /\ head' = [num |-> head.num + 1, id |-> head.id + 1]
        /\ head.num < TTD /\ head.id < MaxHeads /\ UNCHANGED <<result, chainHeadCh, wanted>>
    BY <1>4 DEF Import, resultVars
  <2>2. head.num \in 0..TTD /\ head.id \in 1..MaxHeads + TTD
    BY <1>a DEF ChainInv
  <2>3. /\ head' \in [num : 0..TTD, id : 1..MaxHeads + TTD]
        /\ head'.id <= MaxHeads + head'.num
        /\ head'.num = head.num + 1
    BY <2>1, <2>2
  <2>4. result.at = "send" => result.block.num \in Int
    BY <1>a, <1>b DEF ResultInv
  <2> QED BY <1>a, <2>1, <2>2, <2>3, <2>4 DEF ChainInv
<1>5. CASE Start
  <2>1. wanted' = head.id /\ UNCHANGED <<chainHeadCh, head, result>>
    BY <1>5 DEF Start, resultVars
  <2>2. head.id \in 0..MaxHeads + TTD
    BY <1>a DEF ChainInv
  <2> QED BY <1>a, <2>1, <2>2, ZenonT(60) DEF ChainInv
<1>6. CASE NewWorkHead
  <2>1. chainHeadCh # <<>> /\ chainHeadCh' = Tail(chainHeadCh) /\ UNCHANGED <<head, wanted, result>>
    BY <1>6 DEF NewWorkHead, resultVars
  <2>2. /\ Tail(chainHeadCh) \in Seq(1..TTD) /\ Len(Tail(chainHeadCh)) = Len(chainHeadCh) - 1
        /\ \A i \in 1..Len(Tail(chainHeadCh)) : Tail(chainHeadCh)[i] = chainHeadCh[i + 1]
    <3>1. chainHeadCh \in Seq(1..TTD)
      BY <1>a DEF ChainInv
    <3> QED BY <2>1, <3>1, TailFacts, ZenonT(60)
  <2>3. Len(chainHeadCh) \in Nat /\ Len(chainHeadCh) <= HeadCap
        /\ \A i \in 1..Len(chainHeadCh) : chainHeadCh[i] <= head.num
    BY <1>a DEF ChainInv
  <2>4. Len(chainHeadCh') <= HeadCap /\ \A i \in 1..Len(chainHeadCh') : chainHeadCh'[i] <= head'.num
    BY <2>1, <2>2, <2>3
  <2> QED BY <1>a, <2>1, <2>2, <2>4, ZenonT(60) DEF ChainInv
<1>7. CASE UNCHANGED <<chainHeadCh, head, wanted, result>>
  BY <1>a, <1>7, ZenonT(60) DEF ChainInv
<1> QED BY <1>1, <1>2, <1>3, <1>4, <1>5, <1>6, <1>7, ChainFrame DEF resultLoop


(* Every step keeps the types.                                                *)
LEMMA TypesStep == ASSUME Types, [Next]_vars PROVE Types'
<1>1. CASE Next
  BY <1>1, FlagStep, CountStep, MainStep, SealStep, ResultStep, ChainStep DEF Types, MinerInv
<1>2. CASE UNCHANGED vars
  <2> USE <1>2 DEF vars, minerVars, mainVars, sealVars, resultVars, chainVars, Types
  <2>1. MinerInv'
    BY ZenonT(60) DEF MinerInv, FlagInv, CountInv
  <2>2. MainInv' /\ SealInv'
    BY ZenonT(60) DEF MainInv, SealInv
  <2>3. ResultInv' /\ ChainInv'
    BY ZenonT(60) DEF ResultInv, ChainInv
  <2> QED BY <2>1, <2>2, <2>3
<1> QED BY <1>1, <1>2

(* The types hold throughout.                                                 *)
LEMMA TypesInvariant == Spec => []Types
  BY InitTypes, TypesStep, PTL DEF Spec

(* Every variable has its type and no channel exceeds its capacity: neither   *)
(* the results that nobody reads, nor the numbers of heads, which stay below  *)
(* the terminal difficulty.                                                   *)
THEOREM TypeCorrect == Spec => []TypeOK
<1>1. ASSUME Types PROVE TypeOK
  <2>1. Sealable \subseteq Tasks
    BY DEF Sealable
  <2>2. /\ {closing, running, exitCh, interrupt, current, seeded} \subseteq BOOLEAN
        /\ update \in {"select", "start", "wait", "gone"} /\ newWork \in {"select", "commit", "gone"}
    BY <1>1, ZenonT(60) DEF Types, MinerInv, FlagInv, SealInv
  <2>3. /\ startCh \in 0..1 /\ adjustCh \in 0..AdjustCap /\ served \in 0..MaxHeads + TTD
        /\ starts \in 0..MaxStarts /\ txEvents \in 0..MaxTxEvents
    BY <1>1, ZenonT(60) DEF Types, MinerInv, CountInv
  <2>4. main \in [at : {"select", "prepare", "empty", "submitEmpty", "fill", "txs", "adjust", "full",
                       "submitFull", "gone"},
                 interruptible : BOOLEAN, noempty : BOOLEAN, left : 0..2, work : Tasks \cup {None}]
    BY <1>1, ZenonT(60) DEF Types, MainInv, MainOK, MainType, MainAt
  <2>5. /\ task \in [at : {"select", "seal", "gone"}, prev : Tasks \cup {None}]
        /\ seals \subseteq [block : Tasks, stopped : BOOLEAN] /\ pendingTasks \subseteq Tasks
    BY <1>1, <2>1 DEF Types, SealInv
  <2>6. /\ resultCh \in Seq(Tasks) /\ Len(resultCh) <= ResultCap /\ written \subseteq Tasks
        /\ result \in [at : {"select", "write", "send", "gone"}, block : Tasks \cup {None}]
    BY <1>1, <2>1 DEF Types, ResultInv
  <2>7. /\ chainHeadCh \in Seq(1..TTD) /\ Len(chainHeadCh) <= HeadCap
        /\ head \in Heads /\ wanted \in 0..MaxHeads + TTD
    BY <1>1, Sizes DEF Types, ChainInv, Heads
  <2> QED BY <2>2, <2>3, <2>4, <2>5, <2>6, <2>7, ZenonT(60) DEF TypeOK
<1> QED BY <1>1, TypesInvariant, PTL

----------------------------------------------------------------------------
(* Sealing *)

(* Every step keeps at most one sealing that goes on.                         *)
LEMMA OneSealingStep == ASSUME Types, OneSealing, [Next]_vars PROVE OneSealing'
<1>a. SealInv
  BY DEF Types
<1>b. \A s \in StopSealing : s.stopped
  BY <1>a DEF StopSealing, SealInv
<1>1. CASE TakeTask
  <2>1. UNCHANGED <<task, seals>> \/ seals' = StopSealing
    BY <1>1 DEF TakeTask
  <2> QED BY <1>b, <2>1 DEF OneSealing
<1>2. CASE Seal
  <2>1. seals' = seals \cup {[block |-> task.prev, stopped |-> FALSE]}
        /\ task.at = "seal" /\ task' = [task EXCEPT !.at = "select"]
    BY <1>2 DEF Seal
  <2>2. task'.at = "select" /\ task'.prev = task.prev
    BY <1>a, <2>1 DEF SealInv
  <2> QED BY <2>1, <2>2 DEF OneSealing
<1>3. CASE SealFails
  <2>1. \A s \in seals' : s.stopped
    BY <1>a, <1>3 DEF SealFails, OneSealing, SealInv
  <2> QED BY <2>1 DEF OneSealing
<1>4. CASE TaskExit
  BY <1>b, <1>4 DEF TaskExit, OneSealing
<1>5. CASE Engine
  BY <1>5 DEF Engine, Sealed, SealAborted, OneSealing
<1>6. CASE UNCHANGED <<task, seals>>
  BY <1>6 DEF OneSealing
<1> QED
  BY <1>1, <1>2, <1>3, <1>4, <1>5, <1>6, SealFrame, ZenonT(60) DEF taskLoop, sealVars, NewWorkStart, NewWorkHead,
     vars

(* At most one sealing goes on: interrupt stops the one before it, whatever   *)
(* the order in which tasks arrive, sealings end and the worker closes.       *)
THEOREM SealsOne == Spec => []OneSealing
<1>1. Init => OneSealing
  BY DEF Init, OneSealing
<1> QED BY <1>1, TypesInvariant, OneSealingStep, PTL DEF Spec


----------------------------------------------------------------------------
(* Results and their tasks *)

(* Every step keeps that nothing is sealed before the engine is seeded.       *)
LEMMA SeedStep == ASSUME Types, SeedInv, [Next]_vars PROVE SeedInv'
<1>1. CASE TakeTask
  <2>1. seals = {} => StopSealing = {}
    BY DEF StopSealing
  <2>2. (seals' = seals \/ seals' = StopSealing) /\ UNCHANGED <<seeded, resultCh>>
    BY <1>1 DEF TakeTask, resultVars
  <2> QED BY <2>1, <2>2 DEF SeedInv
<1>2. CASE Seal
  BY <1>2 DEF Seal, SeedInv
<1>3. CASE SealFails
  BY <1>3 DEF SealFails, SeedInv, resultVars
<1>4. CASE TaskExit
  <2>1. seals = {} => StopSealing = {}
    BY DEF StopSealing
  <2> QED BY <1>4, <2>1 DEF TaskExit, SeedInv, resultVars
<1>5. CASE Engine
  <2>1. seeded
    BY <1>5 DEF Engine, SeedInv
  <2>2. seeded' = seeded
    BY <1>5 DEF Engine, Sealed, SealAborted
  <2> QED BY <2>1, <2>2 DEF SeedInv
<1>6. CASE resultLoop
  <2>1. resultCh' = resultCh \/ resultCh # <<>>
    BY <1>6 DEF resultLoop, TakeResult, WriteFails, AnnounceResult, ResultExit, WriteBlock
  <2>2. UNCHANGED <<seals, seeded>>
    BY <1>6 DEF resultLoop, TakeResult, WriteFails, AnnounceResult, ResultExit, WriteBlock, sealVars
  <2> QED BY <2>1, <2>2 DEF SeedInv
<1>7. CASE UNCHANGED <<seals, seeded, resultCh>>
  BY <1>7 DEF SeedInv
<1>8. CASE NewWorkStart \/ NewWorkHead
  BY <1>8 DEF NewWorkStart, NewWorkHead, SeedInv, resultVars
<1> QED
  BY <1>1, <1>2, <1>3, <1>4, <1>5, <1>6, <1>7, <1>8, SealFrame, ResultFrame
     DEF taskLoop, sealVars, resultVars, vars

(* The chain's head never loses height.                                       *)
LEMMA HeadGrows == ASSUME Types, [Next]_vars PROVE head'.num >= head.num
<1>a. head.num \in Nat
  BY Sizes DEF Types, ChainInv
<1>1. CASE resultLoop
  <2>1. head' = head \/ (head'.num = result.block.num /\ result.block.num >= head.num)
    BY <1>1 DEF resultLoop, TakeResult, WriteFails, AnnounceResult, ResultExit, WriteBlock, chainVars
  <2> QED BY <1>a, <2>1
<1>2. CASE Import
  BY <1>a, <1>2 DEF Import
<1>3. CASE head' = head
  BY <1>a, <1>3
<1> QED BY <1>1, <1>2, <1>3, ChainFrame, ZenonT(60) DEF Start, NewWorkHead, vars, chainVars

(* What is awaited is a block with a number.                                  *)
LEMMA AwaitedTasks == ASSUME Types PROVE Awaited \subseteq Sealable /\ \A t \in Sealable : t.num \in Nat
  BY TaskNumber, Sizes DEF Awaited, Sealable

(* Tasks only added, nothing more awaited, a higher head.                     *)
LEMMA HasTaskKeeps ==
  ASSUME Types, Types', HasTask, Awaited' \subseteq Awaited, pendingTasks \subseteq pendingTasks',
         head'.num >= head.num
  PROVE  HasTask'
<1>1. head.num \in Nat /\ head'.num \in Nat
  BY Sizes DEF Types, ChainInv
<1>2. ASSUME NEW t \in Awaited', Fresh(t)' PROVE t \in pendingTasks'
  <2>1. t \in Awaited /\ t.num \in Nat
    BY AwaitedTasks
  <2>2. Fresh(t)
    BY <1>1, <1>2, <2>1, Sizes DEF Fresh
  <2> QED BY <2>1, <2>2 DEF HasTask
<1> QED BY <1>2 DEF HasTask


(* clearPending with the number of a head that the chain has reached.         *)
LEMMA ClearKeeps ==
  ASSUME Types, HasTask, NEW n \in Nat, n <= head.num, clearPending(n), Awaited' = Awaited,
         head' = head
  PROVE  HasTask'
<1>1. head.num \in Nat
  BY Sizes DEF Types, ChainInv
<1>2. ASSUME NEW t \in Awaited, Fresh(t) PROVE t \in pendingTasks'
  <2>1. t.num \in Nat /\ t \in pendingTasks
    BY <1>2, AwaitedTasks DEF HasTask
  <2>2. Keeps(t, n)
    BY <1>1, <1>2, <2>1, Sizes DEF Keeps, Fresh
  <2> QED BY <2>1, <2>2 DEF clearPending
<1> QED BY <1>2 DEF HasTask, Fresh

(* Every step keeps a task for each awaited block that is not stale.          *)
LEMMA HasTaskStep == ASSUME Types, Types', SeedInv, HasTask, [Next]_vars PROVE HasTask'
<1>a. SealInv /\ ResultInv /\ MainInv /\ ChainInv
  BY DEF Types
<1>b. \A s \in StopSealing : \E o \in seals : s.block = o.block
  BY <1>a DEF StopSealing, SealInv
<1>c. head'.num >= head.num
  BY HeadGrows
<1>1. CASE NewWorkStart
  <2>1. Awaited' = Awaited /\ head' = head /\ clearPending(head.num)
    BY <1>1 DEF NewWorkStart, Awaited, resultVars, chainVars
  <2>2. head.num \in Nat /\ head.num <= head.num
    BY <1>a, Sizes DEF ChainInv
  <2> QED BY <2>1, <2>2, ClearKeeps
<1>2. CASE NewWorkHead
  <2>1. Awaited' = Awaited /\ head' = head /\ clearPending(Head(chainHeadCh)) /\ chainHeadCh # <<>>
    BY <1>2 DEF NewWorkHead, Awaited, resultVars
  <2>2. Head(chainHeadCh) \in Nat /\ Head(chainHeadCh) <= head.num
    BY <1>a, <2>1, Sizes DEF ChainInv
  <2> QED BY <2>1, <2>2, ClearKeeps
<1>3. CASE TakeTask
  <2>1. /\ resultCh' = resultCh /\ head' = head
        /\ \/ UNCHANGED <<task, seals, pendingTasks>>
           \/ /\ task' = [at |-> "seal", prev |-> main.work]
              /\ seals' = StopSealing
              /\ pendingTasks' = pendingTasks \cup {main.work}
    BY <1>3 DEF TakeTask, resultVars, chainVars
  <2>2. CASE UNCHANGED <<task, seals, pendingTasks>>
    BY <1>c, <2>1, <2>2, HasTaskKeeps DEF Awaited
  <2>3. CASE /\ task' = [at |-> "seal", prev |-> main.work]
             /\ seals' = StopSealing
             /\ pendingTasks' = pendingTasks \cup {main.work}
    <3>1. Awaited' \subseteq Awaited \cup {main.work}
      BY <1>b, <2>1, <2>3 DEF Awaited
    <3> QED BY <2>1, <2>3, <3>1 DEF HasTask, Fresh
  <2> QED BY <2>1, <2>2, <2>3
<1>4. CASE Seal
  <2>1. task.at = "seal" /\ UNCHANGED <<pendingTasks, resultCh>>
        /\ task' = [task EXCEPT !.at = "select"]
        /\ seals' = seals \cup {[block |-> task.prev, stopped |-> FALSE]}
    BY <1>4 DEF Seal, resultVars
  <2>2. task'.at = "select"
    BY <1>a, <2>1 DEF SealInv
  <2>3. Awaited' \subseteq Awaited
    BY <2>1, <2>2 DEF Awaited
  <2> QED BY <1>c, <2>1, <2>3, HasTaskKeeps
<1>5. CASE SealFails
  <2>1. seals' = {} /\ resultCh' = <<>> /\ task' = [task EXCEPT !.at = "select"]
    BY <1>5 DEF SealFails, SeedInv, resultVars
  <2>2. task'.at = "select"
    BY <1>a, <2>1 DEF SealInv
  <2>3. Awaited' = {}
    BY <2>1, <2>2 DEF Awaited
  <2> QED BY <2>3 DEF HasTask
<1>6. CASE TaskExit
  <2>1. task' = [task EXCEPT !.at = "gone"] /\ seals' = StopSealing
        /\ UNCHANGED <<pendingTasks, resultCh>>
    BY <1>6 DEF TaskExit, resultVars
  <2>2. task'.at = "gone"
    BY <1>a, <2>1 DEF SealInv
  <2>3. Awaited' \subseteq Awaited
    BY <1>b, <2>1, <2>2 DEF Awaited
  <2> QED BY <1>c, <2>1, <2>3, HasTaskKeeps
<1>7. ASSUME NEW s \in seals, Sealed(s) PROVE HasTask'
  <2>1. seals' \subseteq seals /\ resultCh' = Offered(s.block) /\ UNCHANGED <<task, pendingTasks>>
    BY <1>7 DEF Sealed
  <2>2. \A i \in 1..Len(resultCh') :
          resultCh'[i] = s.block \/ \E j \in 1..Len(resultCh) : resultCh[j] = resultCh'[i]
    BY <1>a, <2>1 DEF Offered, ResultInv, SealInv
  <2>3. Awaited' \subseteq Awaited
    BY <2>1, <2>2 DEF Awaited
  <2> QED BY <1>c, <2>1, <2>3, HasTaskKeeps
<1>8. ASSUME NEW s \in seals, SealAborted(s) PROVE HasTask'
  <2>1. seals' \subseteq seals /\ UNCHANGED <<task, pendingTasks, resultCh>>
    BY <1>8 DEF SealAborted, resultVars
  <2>2. Awaited' \subseteq Awaited
    BY <2>1 DEF Awaited
  <2> QED BY <1>c, <2>1, <2>2, HasTaskKeeps
<1>9. CASE TakeResult
  <2>1. resultCh # <<>> /\ resultCh' = Tail(resultCh) /\ UNCHANGED <<task, seals, pendingTasks>>
    BY <1>9 DEF TakeResult, sealVars
  <2>2. \A i \in 1..Len(resultCh') : \E j \in 1..Len(resultCh) : resultCh[j] = resultCh'[i]
    BY <1>a, <2>1, TailFacts DEF ResultInv
  <2>3. Awaited' \subseteq Awaited
    BY <2>1, <2>2 DEF Awaited
  <2> QED BY <1>c, <2>1, <2>3, HasTaskKeeps
<1>10. CASE UNCHANGED <<task, seals, pendingTasks, resultCh>>
  <2>1. Awaited' = Awaited
    BY <1>10 DEF Awaited
  <2> QED BY <1>c, <1>10, <2>1, HasTaskKeeps
<1>11. resultLoop => TakeResult \/ UNCHANGED <<task, seals, pendingTasks, resultCh>>
  BY DEF resultLoop, TakeResult, WriteFails, AnnounceResult, ResultExit, WriteBlock, sealVars
<1>12. \/ NewWorkStart \/ NewWorkHead \/ TakeTask \/ Seal \/ SealFails \/ TaskExit \/ Engine
       \/ TakeResult \/ UNCHANGED <<task, seals, pendingTasks, resultCh>>
  BY <1>11, SealFrame, ResultFrame DEF taskLoop, sealVars, resultVars, vars
<1> QED
  BY <1>1, <1>2, <1>3, <1>4, <1>5, <1>6, <1>7, <1>8, <1>9, <1>10, <1>12 DEF Engine

(* A result that is not stale finds its task when resultLoop takes it:        *)
(* clearPending, called with heads that may be old, and a failing Seal drop   *)
(* only tasks that nobody waits for.                                          *)
THEOREM ResultsHaveTasks == Spec => []ResultHasTask
<1>1. Init => SeedInv /\ HasTask
  BY DEF Init, SeedInv, HasTask, Awaited
<1>2. ASSUME Types, HasTask PROVE ResultHasTask
  <2>1. \A i \in 1..Len(resultCh) : resultCh[i] \in Awaited
    BY <1>2 DEF Types, ResultInv, Awaited
  <2> QED BY <1>2, <2>1 DEF ResultHasTask, HasTask, Fresh
<1>3. Spec => [](SeedInv /\ HasTask)
  BY <1>1, TypesInvariant, SeedStep, HasTaskStep, PTL DEF Spec
<1> QED BY <1>2, <1>3, TypesInvariant, PTL

============================================================================
