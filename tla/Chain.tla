-------------------------------- MODULE Chain --------------------------------
(***************************************************************************)
(* The block chain: writing blocks and their state, fork choice, reorg, the *)
(* head markers in memory and on disk, stop, crash and restart              *)
(* (blockchain/octopus_blockchain.go, octopus_forkchoice.go and             *)
(* octopus_headerchain.go).  Several goroutines write: the worker's         *)
(* resultLoop calls WriteBlockAndSetHead, the downloader and the block      *)
(* fetcher call InsertChain.  A block is a model value: its hash.           *)
(***************************************************************************)
EXTENDS Integers, FiniteSets, Sequences

CONSTANTS
  Blocks,       \* every block that may be offered
  Genesis,
  Parent,       \* ParentHash
  Number,       \* NumberU64
  Difficulty,
  Invalid,      \* blocks whose root insertChain does not arrive at: Process fails, or
                \* the root has the reward that only FinalizeAndAssemble adds
  TTD,          \* TerminalTotalDifficulty, 0 for nil
  Miners,       \* goroutines that call WriteBlockAndSetHead
  Importers,    \* goroutines that call InsertChain
  Batches,      \* the sequences of blocks they offer
  FullFake,     \* the engine is octell in ModeFullFake, else beacon around octell
  MaxRestarts,  \* bound: how often the process comes back
  MaxFaults     \* bound: how often the write of a block or of a state fails

None == "none"
Absent == -1
Writers == Miners \cup Importers

ASSUME TreeAssumption ==
  /\ Genesis \in Blocks /\ None \notin Blocks /\ Invalid \subseteq Blocks \ {Genesis}
  /\ Parent \in [Blocks \ {Genesis} -> Blocks]
  /\ Number \in [Blocks -> Nat] /\ Number[Genesis] = 0
  /\ \A b \in Blocks \ {Genesis} : Number[b] = Number[Parent[b]] + 1
  /\ Difficulty \in [Blocks -> Nat]
  /\ TTD \in Nat /\ MaxRestarts \in Nat /\ MaxFaults \in Nat
  /\ Batches \subseteq Seq(Blocks \ {Genesis}) \ {<<>>}

VARIABLES
  db,             \* db[b]: total difficulty stored with block b, Absent if b is not stored
  stateDb,        \* blocks whose state root is in the trie database
  lost,           \* history: blocks that were not stored, and not since with their state
  markers,        \* head and canonical hashes on disk
  currentBlock,   \* bc.currentBlock
  currentHeader,  \* bc.hc.currentHeader
  writer,         \* what each goroutine is doing
  announced,      \* block of the last ChainHeadEvent
  raced,          \* history: the head was compared while another writer was setting it
  up,             \* the process runs
  stopped,        \* Stop is past chainmu.Close and wg.Wait
  restarts, faults

diskVars == <<db, stateDb, lost, markers>>
headVars == <<currentBlock, currentHeader>>
procVars == <<up, stopped, restarts, raced>>
vars == <<diskVars, headVars, writer, announced, procVars, faults>>

Idle == [pc |-> "idle", batch |-> <<>>, old |-> None, todo |-> {}]
BlockOf(w) == writer[w].batch[1]
Numbers == {Number[b] : b \in Blocks}
Stored == {b \in Blocks : db[b] # Absent}

(* A block is found under its hash and its own number only.                 *)
GetBlock(hash, number) == IF hash \in Stored /\ Number[hash] = number THEN hash ELSE None

(* The number is left at its zero value.                                    *)
GetBlockByHash(hash) == GetBlock(hash, 0)

(* The blocks from b down to the genesis block: the least set that holds b and *)
(* the parent of each of its blocks.                                           *)
ParentsIn(S) == \A x \in S \ {Genesis} : Parent[x] \in S
Ancestry ==
  [b \in Blocks |-> {x \in Blocks : \A S \in SUBSET Blocks : b \in S /\ ParentsIn(S) => x \in S}]

(***************************************************************************)
(* Fork choice.  preserve is nil, so two heads of equal total difficulty    *)
(* and number are left to chance: the answers are a set.  A total           *)
(* difficulty that is missing is an error, on which the caller returns.     *)
(***************************************************************************)
ReorgToLonger(current, header) == {Number[header] > Number[current]}
ReorgNeeded(current, header) ==
  IF ~({current, header} \subseteq Stored) THEN {FALSE}
  ELSE IF TTD # 0 /\ db[header] >= TTD THEN {TRUE}
  ELSE IF db[header] # db[current] THEN {db[header] > db[current]}
  ELSE IF Number[header] # Number[current] THEN {Number[header] < Number[current]}
  ELSE BOOLEAN

(* The two chains above their common ancestor. *)
newChain(old, new) == Ancestry[new] \ Ancestry[old]
oldChain(old, new) == Ancestry[old] \ Ancestry[new]

(* The blocks writeHeadBlock is called for, the oldest first: a block on top  *)
(* of the head alone, else the new chain that reorg found and the block       *)
(* itself.                                                                    *)
HeadAlone(old, new) == {new}
Heads(old, new) == IF Parent[new] = old THEN {new} ELSE newChain(old, new) \cup {new}
Oldest(S) == CHOOSE b \in S : \A c \in S : Number[b] <= Number[c]

(* What the batch of writeHeadBlock leaves on disk: the call that would write *)
(* it is commented out.                                                       *)
FlushHeadBatch(b) == markers

(* reorg deletes the canonical hashes above the last block it made canonical, *)
(* up to the first number that has none.                                      *)
PrunedMarkers(old, new) ==
  LET number == IF newChain(old, new) = {} THEN Number[new] ELSE Number[new] - 1
      useless == {n \in Numbers : n > number /\ \A m \in Numbers :
                                    number < m /\ m <= n => markers.canonical[m] # None}
  IN  [markers EXCEPT !.canonical = [n \in Numbers |-> IF n \in useless THEN None ELSE @[n]]]

Init ==
  /\ db = [b \in Blocks |-> IF b = Genesis THEN Difficulty[b] ELSE Absent]
  /\ stateDb = {Genesis} /\ lost = {}
  /\ markers = [head |-> Genesis, header |-> Genesis,
                canonical |-> [n \in Numbers |-> IF n = 0 THEN Genesis ELSE None]]
  /\ currentBlock = Genesis /\ currentHeader = Genesis
  /\ writer = [w \in Writers |-> Idle]
  /\ announced = Genesis
  /\ up = TRUE /\ stopped = FALSE /\ raced = FALSE
  /\ restarts = 0 /\ faults = 0

(* The goroutines and everything in memory go with the process. *)
Down ==
  /\ up' = FALSE
  /\ writer' = [w \in Writers |-> Idle]
  /\ UNCHANGED <<diskVars, headVars, announced, stopped, restarts, raced, faults>>

Goto(w, pc) == writer' = [writer EXCEPT ![w].pc = pc]
Return(w) == writer' = [writer EXCEPT ![w] = Idle]

(* resultLoop: a sealed block of one of the worker's tasks, unless it is       *)
(* already stored.  Its task holds the state the worker made on the parent's:  *)
(* the parent was the head.                                                    *)
Mined(w, b) ==
  /\ up /\ writer[w].pc = "idle"
  /\ b # Genesis /\ b \notin Stored /\ Parent[b] \in Stored \cap stateDb
  /\ writer' = [writer EXCEPT ![w] = [Idle EXCEPT !.pc = "write", !.batch = <<b>>]]
  /\ UNCHANGED <<diskVars, headVars, announced, procVars, faults>>

(* insertChain takes the first block of the batch only.  It hands VerifyHeaders *)
(* headers that were never filled in, which panics unless the engine accepts    *)
(* everything; it also panics when the parent's header is not found, and        *)
(* returns when the parent's state is not.  The answers of the engine and of    *)
(* Process are dropped.                                                         *)
Unreadable(b) == ~FullFake \/ Parent[b] \notin Stored
StateAssumed(b) == FALSE
StateMissing(b) == Parent[b] \notin stateDb
InsertChain(w, batch) ==
  /\ up /\ writer[w].pc = "idle"
  /\ IF Unreadable(batch[1]) THEN Down
     ELSE /\ ~StateMissing(batch[1])
          /\ writer' = [writer EXCEPT ![w] = [Idle EXCEPT !.pc = "write", !.batch = batch]]
          /\ UNCHANGED <<diskVars, headVars, announced, procVars, faults>>

(* writeBlockWithState, up to the write of blockBatch. *)
TdOfHeader(b) == Difficulty[b]
TdOf(b) == db[Parent[b]] + Difficulty[b]
WriteBlock(w) ==
  /\ writer[w].pc = "write"
  /\ IF Parent[BlockOf(w)] \notin Stored
     THEN Return(w) /\ db' = db
     ELSE Goto(w, "commit") /\ db' = [db EXCEPT ![BlockOf(w)] = TdOf(BlockOf(w))]
  /\ UNCHANGED <<stateDb, lost, markers, headVars, announced, procVars, faults>>

(* A write of blockBatch that fails is logged, and the state is committed all  *)
(* the same.                                                                   *)
WriteFails(w) ==
  /\ writer[w].pc = "write" /\ Parent[BlockOf(w)] \in Stored
  /\ faults < MaxFaults /\ faults' = faults + 1
  /\ lost' = lost \cup ({BlockOf(w)} \ Stored)
  /\ Goto(w, "commit")
  /\ UNCHANGED <<db, stateDb, markers, headVars, announced, procVars>>

(* The commit of the state.  The root an import arrives at is not compared     *)
(* with the block's; the worker's state is the one it took the root from.      *)
RootCommitted(w) == IF w \in Miners THEN {BlockOf(w)} ELSE {BlockOf(w)} \ Invalid
CommitState(w) ==
  /\ writer[w].pc = "commit"
  /\ stateDb' = stateDb \cup RootCommitted(w)
  /\ lost' = lost \ ({BlockOf(w)} \cap Stored)
  /\ Goto(w, "choose")
  /\ UNCHANGED <<db, markers, headVars, announced, procVars, faults>>

CommitFails(w) ==
  /\ writer[w].pc = "commit"
  /\ faults < MaxFaults /\ faults' = faults + 1
  /\ Return(w)
  /\ UNCHANGED <<diskVars, headVars, announced, procVars>>

(* reorg calls writeHeadBlock for the blocks under the new head, then deletes  *)
(* the indices of the old chain; the caller goes on with the new head.         *)
NextStage(w, left) ==
  IF left = {} THEN "announce"
  ELSE IF left = {BlockOf(w)} THEN "prune" ELSE "head"

(* The head is read and compared, and the chains are walked to their common   *)
(* ancestor: an error if a block on the way is not stored.                    *)
Choose(w, needed) ==
  LET b == BlockOf(w)
      walked == newChain(currentBlock, b) \cup oldChain(currentBlock, b)
  IN  /\ writer[w].pc = "choose"
      /\ needed \in ReorgNeeded(currentBlock, b)
      /\ IF ~needed \/ ~(walked \subseteq Stored) THEN Return(w)
         ELSE writer' = [writer EXCEPT
                ![w].pc = IF Parent[b] = currentBlock THEN "head"
                          ELSE NextStage(w, Heads(currentBlock, b)),
                ![w].old = currentBlock,
                ![w].todo = Heads(currentBlock, b)]
      /\ raced' = (raced \/ \E v \in Writers \ {w} :
                                writer[v].pc \in {"prune", "head", "block", "announce"})
      /\ UNCHANGED <<diskVars, headVars, announced, up, stopped, restarts, faults>>

(* writeHeadBlock, first half: the batch and the header marker. *)
SetCurrentHeader(w) ==
  LET b == Oldest(writer[w].todo)
  IN  /\ writer[w].pc = "head"
      /\ markers' = FlushHeadBatch(b)
      /\ currentHeader' = b
      /\ Goto(w, "block")
      /\ UNCHANGED <<db, stateDb, lost, currentBlock, announced, procVars, faults>>

(* writeHeadBlock, second half. *)
SetCurrentBlock(w) ==
  LET b == Oldest(writer[w].todo)
      left == writer[w].todo \ {b}
  IN  /\ writer[w].pc = "block"
      /\ currentBlock' = b
      /\ writer' = [writer EXCEPT ![w].pc = NextStage(w, left), ![w].todo = left]
      /\ UNCHANGED <<diskVars, currentHeader, announced, procVars, faults>>

Prune(w) ==
  /\ writer[w].pc = "prune"
  /\ markers' = PrunedMarkers(writer[w].old, BlockOf(w))
  /\ Goto(w, "head")
  /\ UNCHANGED <<db, stateDb, lost, headVars, announced, procVars, faults>>

(* The events: only WriteBlockAndSetHead of the worker asks for a              *)
(* ChainHeadEvent.                                                             *)
EmitsHeadEvent(w) == w \in Miners
Announce(w) ==
  /\ writer[w].pc = "announce"
  /\ announced' = IF EmitsHeadEvent(w) THEN BlockOf(w) ELSE announced
  /\ Return(w)
  /\ UNCHANGED <<diskVars, headVars, procVars, faults>>

(* Stop closes a mutex no writer takes and waits for updateFutureBlocks, which *)
(* has nothing to do.                                                          *)
Stop ==
  /\ up /\ ~stopped
  /\ stopped' = TRUE
  /\ UNCHANGED <<diskVars, headVars, writer, announced, up, restarts, raced, faults>>

(* The rest of Stop uses the garbage-collection queue, which NewBlockChain     *)
(* does not make: the process ends there.                                      *)
StopFlush == up /\ stopped /\ Down

Crash == up /\ Down

(* NewBlockChain with loadLastState: the head marker, if its block is found,   *)
(* else ResetWithGenesisBlock.  Subscribers start from the head they find.     *)
Restart ==
  LET head == GetBlockByHash(markers.head)
      block == IF head = None THEN Genesis ELSE head
      header == IF head = None THEN Genesis
                ELSE IF markers.header \in Stored THEN markers.header ELSE head
  IN  /\ ~up /\ restarts < MaxRestarts
      /\ up' = TRUE /\ stopped' = FALSE /\ restarts' = restarts + 1
      /\ currentBlock' = block /\ currentHeader' = header /\ announced' = block
      /\ db' = [db EXCEPT ![Genesis] = IF head = None THEN Difficulty[Genesis] ELSE @]
      /\ markers' = IF head = None THEN FlushHeadBatch(Genesis) ELSE markers
      /\ UNCHANGED <<stateDb, lost, writer, raced, faults>>

Write(w) ==
  \/ WriteBlock(w)
  \/ WriteFails(w)
  \/ CommitState(w)
  \/ CommitFails(w)
  \/ \E needed \in BOOLEAN : Choose(w, needed)
  \/ SetCurrentHeader(w)
  \/ SetCurrentBlock(w)
  \/ Prune(w)
  \/ Announce(w)

Next ==
  \/ \E w \in Miners, b \in Blocks : Mined(w, b)
  \/ \E w \in Importers, batch \in Batches : InsertChain(w, batch)
  \/ \E w \in Writers : Write(w)
  \/ Stop
  \/ StopFlush
  \/ Crash
  \/ Restart

Spec == Init /\ [][Next]_vars
-----------------------------------------------------------------------------
WriterType ==
  [pc : {"idle", "write", "commit", "choose", "head", "block", "prune", "announce"},
   batch : {<<>>} \cup Batches \cup {<<b>> : b \in Blocks \ {Genesis}},
   old : Blocks \cup {None}, todo : SUBSET Blocks]

(* Every variable has its type; the two markers are always blocks. *)
TypeOK ==
  /\ db \in [Blocks -> Nat \cup {Absent}]
  /\ stateDb \subseteq Blocks /\ lost \subseteq Blocks
  /\ markers \in [head : Blocks, header : Blocks, canonical : [Numbers -> Blocks \cup {None}]]
  /\ currentBlock \in Blocks /\ currentHeader \in Blocks
  /\ writer \in [Writers -> WriterType]
  /\ announced \in Blocks
  /\ up \in BOOLEAN /\ stopped \in BOOLEAN /\ raced \in BOOLEAN
  /\ restarts \in 0..MaxRestarts /\ faults \in 0..MaxFaults

(* Whatever was interrupted, the parent of a stored block is stored and the    *)
(* total difficulty kept with a block is the one of its parent plus its own:   *)
(* writeBlockWithState writes block and td in one batch and refuses an         *)
(* unknown ancestor.                                                           *)
DifficultyAddsUp ==
  /\ db[Genesis] = Difficulty[Genesis]
  /\ \A b \in Stored \ {Genesis} :
       Parent[b] \in Stored /\ db[b] = db[Parent[b]] + Difficulty[b]

(* The head is stored and has its state, unless it was imported with a root    *)
(* the import did not arrive at; under a block that has its state the parent   *)
(* is stored and has its own; and the block itself is stored unless its batch  *)
(* failed.  A crash or a failed write or commit between block and state never  *)
(* leaves the head, or a chain reorg may switch to, without either             *)
(* (writeBlockWithState goes on after a failed batch, and ReorgNeeded then     *)
(* finds no total difficulty; insertChain and the worker build on states).     *)
HeadHasState ==
  /\ {currentBlock, currentHeader} \subseteq Stored \cap (stateDb \cup Invalid)
  /\ stateDb \subseteq Stored \cup lost
  /\ \A b \in stateDb \ {Genesis} : Parent[b] \in Stored \cap stateDb

(* When nothing is being written, both markers name the same block: "resets    *)
(* them to the same block" (writeHeadBlock).                                   *)
Quiet == up /\ \A w \in Writers : writer[w].pc = "idle"
MarkersAgree == Quiet => currentHeader = currentBlock

(* Unless two writers set the head at once, the markers agree when nothing is  *)
(* being written, and until the first restart no block with its state has a    *)
(* higher total difficulty than the head, up to the terminal one: ReorgNeeded  *)
(* and the reorg that follows, whatever was imported or mined meanwhile.  Not  *)
(* so a block whose batch failed, until it is offered again.                   *)
HeadSettled ==
  Quiet /\ ~raced =>
    /\ currentHeader = currentBlock
    /\ restarts = 0 => \A b \in stateDb \ lost :
         db[b] <= db[currentBlock] \/ (TTD # 0 /\ db[currentBlock] >= TTD)

(* Unless two writers set the head at once it never jumps: it moves to a child *)
(* of itself or of one of its ancestors, or back to an ancestor, so that a     *)
(* reader sees every block of the new chain become the head in order (reorg,   *)
(* writeHeadBlock).                                                            *)
HeadAdvances ==
  [][up /\ up' /\ ~raced' /\ currentBlock' # currentBlock =>
       currentBlock' \in Ancestry[currentBlock]
         \/ Parent[currentBlock'] \in Ancestry[currentBlock]]_vars
=============================================================================
