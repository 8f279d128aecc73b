----------------------------- MODULE ChainProofs -----------------------------
(***************************************************************************)
(* Proofs about Chain: for every block tree, every set of writers and every *)
(* place where a crash may fall or a write fail, stored difficulties add    *)
(* up, and the head and all chains built on are stored and have their       *)
(* state, but for an imported head whose root the import did not arrive at. *)
(* As long as no two writers set the head at once, it moves in order and    *)
(* settles on the heaviest block.                                           *)
(***************************************************************************)
EXTENDS Chain, WellFoundedInduction, TLAPS

USE ZenonT(10), SMTT(60)

-----------------------------------------------------------------------------
(* Facts about the operators. *)

\* A nonempty set of blocks has an oldest member, and Oldest picks one.
LEMMA OldestIn ==
  ASSUME NEW S \in SUBSET Blocks, S # {}
  PROVE  Oldest(S) \in S /\ \A c \in S : Number[Oldest(S)] <= Number[c]
<1> DEFINE N == {Number[b] : b \in S}
<1>1. N \in SUBSET Nat /\ N # {}
  BY TreeAssumption
<1>2. PICK n \in N : \A m \in N : ~(<<m, n>> \in OpToRel(<, Nat))
  BY <1>1, NatLessThanWellFounded, WFMin, ZenonT(60)
<1>3. PICK b \in S : Number[b] = n
  BY <1>2, ZenonT(60)
<1>4. ASSUME NEW c \in S PROVE Number[b] <= Number[c]
  <2>1. Number[c] \in N /\ Number[b] \in Nat /\ Number[c] \in Nat
    BY TreeAssumption
  <2>2. <<Number[c], Number[b]>> \in Nat \X Nat
    BY <2>1
  <2>3. ~(Number[c] < Number[b])
    BY <1>2, <1>3, <2>1, <2>2 DEF OpToRel
  <2> QED
    BY <2>1, <2>3
<1>5. \E o \in S : \A c \in S : Number[o] <= Number[c]
  BY <1>4
<1> HIDE DEF N
<1> QED
  BY <1>5, ZenonT(60) DEF Oldest

\* The ancestry of a block is a set of blocks, and any set of blocks that holds
\* the block and the parents of its members holds its ancestry.
LEMMA AncestryIn ==
  /\ \A b \in Blocks : Ancestry[b] \subseteq Blocks
  /\ \A b \in Blocks, S \in SUBSET Blocks : b \in S /\ ParentsIn(S) => Ancestry[b] \subseteq S
<1>1. \A b \in Blocks : Ancestry[b] =
        {x \in Blocks : \A S \in SUBSET Blocks : b \in S /\ ParentsIn(S) => x \in S}
  BY DEF Ancestry
<1> QED
  BY <1>1

\* A block is not its own parent.
LEMMA ParentDiffers ==
  \A b \in Blocks \ {Genesis} : Parent[b] \in Blocks /\ Parent[b] # b
<1>1. \A b \in Blocks \ {Genesis} :
        Parent[b] \in Blocks /\ Number[b] \in Nat /\ Number[Parent[b]] \in Nat
  BY TreeAssumption
<1>2. \A b \in Blocks \ {Genesis} : Number[b] = Number[Parent[b]] + 1
  BY TreeAssumption
<1> QED
  BY <1>1, <1>2

-----------------------------------------------------------------------------
(* Types and difficulties. *)

\* A goroutine that writes has a block, and one that sets the head has heads.
Working ==
  \A w \in Writers :
    /\ writer[w].pc # "idle" => BlockOf(w) \in Blocks \ {Genesis}
    /\ writer[w].pc \in {"head", "block", "prune"} => writer[w].todo # {}

Added == TypeOK /\ Working /\ DifficultyAddsUp

\* A writer with nothing to write is a proper writer.
LEMMA IdleType == Idle \in WriterType
BY DEF Idle, WriterType, None

\* writeBlockWithState always has a head to set: the blocks reorg inserts, or the block itself.
LEMMA HeadsIn ==
  ASSUME NEW old \in Blocks, NEW new \in Blocks
  PROVE  Heads(old, new) \in SUBSET Blocks /\ Heads(old, new) # {}
BY AncestryIn DEF Heads, newChain

\* A chain with nothing but the genesis block has its difficulties in order.
LEMMA InitAdded == Init => Added
<1> SUFFICES ASSUME Init PROVE Added
  OBVIOUS
<1>1. TypeOK
  <2>1. db \in [Blocks -> Nat \cup {Absent}]
    BY TreeAssumption DEF Init
  <2>2. markers \in [head : Blocks, header : Blocks, canonical : [Numbers -> Blocks \cup {None}]]
    BY TreeAssumption DEF Init
  <2>3. writer \in [Writers -> WriterType]
    BY IdleType DEF Init
  <2>4. restarts \in 0..MaxRestarts /\ faults \in 0..MaxFaults
    BY TreeAssumption DEF Init
  <2> QED
    BY <2>1, <2>2, <2>3, <2>4, TreeAssumption, ZenonT(60) DEF Init, TypeOK
<1>2. Working
  BY DEF Init, Working, Idle
<1>3. DifficultyAddsUp
  BY TreeAssumption DEF Init, DifficultyAddsUp, Stored, Absent
<1> QED
  BY <1>1, <1>2, <1>3 DEF Added

\* What a step of one goroutine does to the record of that goroutine only.
LEMMA OneWriter ==
  ASSUME writer \in [Writers -> WriterType], Working,
         NEW w \in Writers, NEW r \in WriterType,
         writer' = [writer EXCEPT ![w] = r],
         r.pc # "idle" => r.batch[1] \in Blocks \ {Genesis},
         r.pc \in {"head", "block", "prune"} => r.todo # {}
  PROVE  writer' \in [Writers -> WriterType] /\ Working'
<1>1. writer' \in [Writers -> WriterType]
  OBVIOUS
<1>2. \A v \in Writers : writer'[v] = IF v = w THEN r ELSE writer[v]
  OBVIOUS
<1> QED
  BY <1>1, <1>2 DEF Working, BlockOf

\* Every step of a writer, a crash and a restart keep the stored difficulties in
\* order: writeBlockWithState adds the block's own to that of a stored parent.
LEMMA NextAdded == Added /\ [Next]_vars => Added'
<1> SUFFICES ASSUME Added, [Next]_vars PROVE Added'
  OBVIOUS
<1> USE DEF Added
<1>t. writer \in [Writers -> WriterType] /\ Working /\ TypeOK
  BY DEF TypeOK
<1>i. \A w \in Writers : writer[w].pc # "idle" => BlockOf(w) \in Blocks \ {Genesis}
  BY DEF Working
<1>d. \A b \in Blocks : Difficulty[b] \in Nat
  BY TreeAssumption
<1>1. ASSUME Down PROVE Added'
  <2>1. writer' \in [Writers -> WriterType] /\ Working'
    BY <1>1, IdleType DEF Down, Working, Idle
  <2> QED
    BY <1>1, <2>1, ZenonT(60) DEF Down, TypeOK, DifficultyAddsUp, Stored, diskVars, headVars
<1>2. ASSUME NEW w \in Miners, NEW b \in Blocks, Mined(w, b) PROVE Added'
  <2> DEFINE r == [Idle EXCEPT !.pc = "write", !.batch = <<b>>]
  <2>1. r \in WriterType /\ r.pc = "write" /\ r.batch[1] = b
    BY <1>2, ZenonT(60) DEF Mined, Idle, WriterType, None
  <2>2. writer' \in [Writers -> WriterType] /\ Working'
    BY <1>2, <1>t, <2>1, OneWriter, ZenonT(60) DEF Mined, Writers
  <2> QED
    BY <1>2, <2>2 DEF Mined, TypeOK, DifficultyAddsUp, Stored, diskVars, headVars, procVars
<1>3. ASSUME NEW w \in Importers, NEW batch \in Batches, InsertChain(w, batch) PROVE Added'
  <2> DEFINE r == [Idle EXCEPT !.pc = "write", !.batch = batch]
  <2>1. CASE Down
    BY <1>1, <2>1
  <2>2. CASE ~Down
    <3>1. /\ writer' = [writer EXCEPT ![w] = r]
          /\ UNCHANGED <<diskVars, headVars, announced, procVars, faults>>
      BY <1>3, <2>2 DEF InsertChain
    <3>2. batch \in Seq(Blocks \ {Genesis}) /\ batch # <<>>
      BY TreeAssumption
    <3>3. batch[1] \in Blocks \ {Genesis}
      BY <3>2
    <3>4. r \in WriterType /\ r.pc = "write" /\ r.batch = batch
      BY ZenonT(60) DEF Idle, WriterType, None
    <3>5. writer' \in [Writers -> WriterType] /\ Working'
      BY <1>t, <3>1, <3>3, <3>4, OneWriter, ZenonT(60) DEF Writers
    <3> QED
      BY <3>1, <3>5 DEF TypeOK, DifficultyAddsUp, Stored, diskVars, headVars, procVars
  <2> QED
    BY <2>1, <2>2
<1>4. ASSUME NEW w \in Writers, WriteBlock(w) PROVE Added'
  <2> DEFINE b == BlockOf(w)
  <2>1. writer[w].pc = "write" /\ b \in Blocks \ {Genesis} /\ Parent[b] \in Blocks /\ Parent[b] # b
    BY <1>4, <1>i, ParentDiffers DEF WriteBlock
  <2>2. CASE Parent[b] \notin Stored
    <3>1. writer' = [writer EXCEPT ![w] = Idle] /\ UNCHANGED db
      BY <1>4, <2>2 DEF WriteBlock, Return
    <3>2. writer' \in [Writers -> WriterType] /\ Working'
      BY <1>t, <3>1, IdleType, OneWriter, ZenonT(60) DEF Idle
    <3> QED
      BY <1>4, <3>1, <3>2 DEF WriteBlock, TypeOK, DifficultyAddsUp, Stored, headVars, procVars
  <2>3. CASE Parent[b] \in Stored
    <3> DEFINE r == [writer[w] EXCEPT !.pc = "commit"]
    <3>1. writer' = [writer EXCEPT ![w] = r] /\ db' = [db EXCEPT ![b] = TdOf(b)]
      BY <1>4, <1>t, <2>3 DEF WriteBlock, Goto
    <3>2. r \in WriterType /\ r.pc = "commit" /\ r.batch[1] = b
      BY <1>t DEF WriterType, BlockOf
    <3>3. writer' \in [Writers -> WriterType] /\ Working'
      BY <1>t, <2>1, <3>1, <3>2, OneWriter, ZenonT(60)
    <3>4. db[Parent[b]] \in Nat /\ TdOf(b) \in Nat /\ TdOf(b) = db[Parent[b]] + Difficulty[b]
      BY <1>d, <2>1, <2>3 DEF TypeOK, Stored, Absent, TdOf
    <3>5. db' \in [Blocks -> Nat \cup {Absent}]
      BY <3>1, <3>4, ZenonT(60) DEF TypeOK
    <3>6. \A c \in Blocks : db'[c] = IF c = b THEN TdOf(b) ELSE db[c]
      BY <3>1 DEF TypeOK
    <3>7. Stored' = Stored \cup {b}
      BY <3>4, <3>6, <2>1 DEF Stored, Absent
    <3>8. b \in Stored => TdOf(b) = db[b]
      BY <2>1, <3>4 DEF DifficultyAddsUp
    <3>9. ASSUME NEW c \in Stored' \ {Genesis}
          PROVE  Parent[c] \in Stored' /\ db'[c] = db'[Parent[c]] + Difficulty[c]
      <4>1. c \in Blocks /\ Parent[c] \in Blocks /\ Parent[c] # c
        BY ParentDiffers DEF Stored
      <4>2. CASE c = b
        BY <2>1, <2>3, <3>4, <3>6, <3>7, <4>2
      <4>3. CASE c # b
        <5>1. Parent[c] \in Stored /\ db[c] = db[Parent[c]] + Difficulty[c]
          BY <3>7, <4>3 DEF DifficultyAddsUp
        <5>2. db'[Parent[c]] = db[Parent[c]]
          BY <3>6, <3>8, <4>1, <5>1
        <5> QED
          BY <3>6, <3>7, <4>1, <4>3, <5>1, <5>2
      <4> QED
        BY <4>2, <4>3
    <3>10. DifficultyAddsUp'
      <4>1. db'[Genesis] = Difficulty[Genesis]
        BY <2>1, <3>6, TreeAssumption DEF DifficultyAddsUp
      <4> QED
        BY <3>9, <4>1 DEF DifficultyAddsUp
    <3> QED
      BY <1>4, <3>3, <3>5, <3>10 DEF WriteBlock, TypeOK, headVars, procVars
  <2> QED
    BY <2>2, <2>3
<1>5. ASSUME NEW w \in Writers, CommitState(w) PROVE Added'
  <2> DEFINE r == [writer[w] EXCEPT !.pc = "choose"]
  <2>1. writer' = [writer EXCEPT ![w] = r] /\ writer[w].pc = "commit"
    BY <1>5, <1>t DEF CommitState, Goto
  <2>2. r \in WriterType /\ r.pc = "choose" /\ r.batch[1] = BlockOf(w)
    BY <1>t DEF WriterType, BlockOf
  <2>3. writer' \in [Writers -> WriterType] /\ Working'
    BY <1>t, <1>i, <2>1, <2>2, OneWriter, ZenonT(60)
  <2>4. stateDb' \subseteq Blocks /\ lost' \subseteq Blocks
    BY <1>5, <1>i, <2>1 DEF CommitState, RootCommitted, TypeOK
  <2> QED
    BY <1>5, <2>3, <2>4
       DEF CommitState, TypeOK, DifficultyAddsUp, Stored, headVars, procVars
<1>17. ASSUME NEW w \in Writers, WriteFails(w) PROVE Added'
  <2> DEFINE r == [writer[w] EXCEPT !.pc = "commit"]
  <2>1. writer' = [writer EXCEPT ![w] = r] /\ writer[w].pc = "write"
    BY <1>17, <1>t DEF WriteFails, Goto
  <2>2. r \in WriterType /\ r.pc = "commit" /\ r.batch[1] = BlockOf(w)
    BY <1>t DEF WriterType, BlockOf
  <2>3. writer' \in [Writers -> WriterType] /\ Working'
    BY <1>t, <1>i, <2>1, <2>2, OneWriter, ZenonT(60)
  <2>4. faults' \in 0..MaxFaults
    BY <1>17, TreeAssumption DEF WriteFails, TypeOK
  <2>5. lost' \subseteq Blocks
    BY <1>17, <1>i, <2>1 DEF WriteFails, TypeOK
  <2> QED
    BY <1>17, <2>3, <2>4, <2>5
       DEF WriteFails, TypeOK, DifficultyAddsUp, Stored, headVars, procVars
<1>6. ASSUME NEW w \in Writers, CommitFails(w) PROVE Added'
  <2>1. writer' \in [Writers -> WriterType] /\ Working'
    BY <1>6, <1>t, IdleType, OneWriter, ZenonT(60) DEF CommitFails, Return, Idle
  <2>2. faults' \in 0..MaxFaults
    BY <1>6, TreeAssumption DEF CommitFails, TypeOK
  <2> QED
    BY <1>6, <2>1, <2>2
       DEF CommitFails, TypeOK, DifficultyAddsUp, Stored, diskVars, headVars, procVars
<1>f. ASSUME NEW w \in Writers, Return(w)
      PROVE  writer' \in [Writers -> WriterType] /\ Working'
  BY <1>f, <1>t, IdleType, OneWriter, ZenonT(60) DEF Return, Idle
<1>7. ASSUME NEW w \in Writers, NEW needed \in BOOLEAN, Choose(w, needed) PROVE Added'
  <2> DEFINE b == BlockOf(w)
  <2>1. writer[w].pc = "choose" /\ b \in Blocks /\ b \in Blocks \ {Genesis}
    BY <1>7, <1>i DEF Choose
  <2>2. writer' \in [Writers -> WriterType] /\ Working'
    <3>1. CASE Return(w)
      BY <1>f, <3>1
    <3>2. CASE writer' = [writer EXCEPT
                    ![w].pc = IF Parent[b] = currentBlock THEN "head"
                              ELSE NextStage(w, Heads(currentBlock, b)),
                    ![w].old = currentBlock,
                    ![w].todo = Heads(currentBlock, b)]
      <4> DEFINE stage == IF Parent[b] = currentBlock THEN "head"
                          ELSE NextStage(w, Heads(currentBlock, b))
                 r == [writer[w] EXCEPT !.pc = stage, !.old = currentBlock,
                                        !.todo = Heads(currentBlock, b)]
      <4>1. writer' = [writer EXCEPT ![w] = r]
        BY <1>t, <3>2, ZenonT(60)
      <4>2. Heads(currentBlock, b) \in SUBSET Blocks /\ Heads(currentBlock, b) # {}
        BY <2>1, HeadsIn, ZenonT(60) DEF TypeOK
      <4>3. stage \in {"head", "prune", "announce"}
        BY DEF NextStage
      <4> HIDE DEF stage
      <4>c. currentBlock \in Blocks \cup {None}
        BY DEF TypeOK
      <4>4. /\ r \in WriterType
            /\ r.batch = writer[w].batch /\ r.todo = Heads(currentBlock, b)
        BY <1>t, <4>2, <4>3, <4>c, ZenonT(60) DEF WriterType
      <4>5. writer' \in [Writers -> WriterType] /\ Working'
        BY <1>t, <2>1, <4>1, <4>2, <4>4, OneWriter, ZenonT(60) DEF BlockOf
      <4> QED
        BY <4>5
    <3> QED
      BY <1>7, <3>1, <3>2 DEF Choose
  <2> QED
    BY <1>7, <2>2 DEF Choose, TypeOK, DifficultyAddsUp, Stored, diskVars, headVars, procVars
<1>o. ASSUME NEW w \in Writers, writer[w].pc \in {"head", "block"}
      PROVE  Oldest(writer[w].todo) \in writer[w].todo /\ writer[w].todo \in SUBSET Blocks
  <2>1. writer[w].todo \in SUBSET Blocks /\ writer[w].todo # {}
    BY <1>o, <1>t DEF WriterType, Working
  <2> QED
    BY <2>1, OldestIn
<1>8. ASSUME NEW w \in Writers, SetCurrentHeader(w) PROVE Added'
  <2> DEFINE r == [writer[w] EXCEPT !.pc = "block"]
  <2>1. writer' = [writer EXCEPT ![w] = r] /\ writer[w].pc = "head"
    BY <1>8, <1>t DEF SetCurrentHeader, Goto
  <2>2. r \in WriterType /\ r.pc = "block" /\ r.batch[1] = BlockOf(w) /\ r.todo # {}
    BY <1>t, <2>1 DEF WriterType, BlockOf, Working
  <2>3. writer' \in [Writers -> WriterType] /\ Working'
    BY <1>t, <1>i, <2>1, <2>2, OneWriter, ZenonT(60)
  <2>4. currentHeader' \in Blocks /\ UNCHANGED markers
    BY <1>8, <1>o, <2>1 DEF SetCurrentHeader, FlushHeadBatch
  <2> QED
    BY <1>8, <2>3, <2>4 DEF SetCurrentHeader, TypeOK, DifficultyAddsUp, Stored, procVars
<1>9. ASSUME NEW w \in Writers, SetCurrentBlock(w) PROVE Added'
  <2> DEFINE left == writer[w].todo \ {Oldest(writer[w].todo)}
             r == [writer[w] EXCEPT !.pc = NextStage(w, left), !.todo = left]
  <2>1. writer' = [writer EXCEPT ![w] = r] /\ writer[w].pc = "block"
    BY <1>9, <1>t, ZenonT(60) DEF SetCurrentBlock
  <2>2. /\ NextStage(w, left) \in {"announce", "prune", "head"}
        /\ NextStage(w, left) \in {"prune", "head"} => left # {}
    BY DEF NextStage
  <2>3. left \in SUBSET Blocks
    BY <1>o, <2>1
  <2> HIDE DEF left
  <2>4. r \in WriterType /\ r.pc = NextStage(w, left) /\ r.batch[1] = BlockOf(w) /\ r.todo = left
    BY <1>t, <2>2, <2>3, ZenonT(60) DEF WriterType, BlockOf
  <2>5. writer' \in [Writers -> WriterType] /\ Working'
    BY <1>t, <1>i, <2>1, <2>2, <2>4, OneWriter, ZenonT(60)
  <2>6. currentBlock' \in Blocks
    BY <1>9, <1>o, <2>1 DEF SetCurrentBlock
  <2> QED
    BY <1>9, <2>5, <2>6
       DEF SetCurrentBlock, TypeOK, DifficultyAddsUp, Stored, diskVars, procVars
<1>10. ASSUME NEW w \in Writers, Prune(w) PROVE Added'
  <2> DEFINE r == [writer[w] EXCEPT !.pc = "head"]
  <2>1. writer' = [writer EXCEPT ![w] = r] /\ writer[w].pc = "prune"
    BY <1>10, <1>t DEF Prune, Goto
  <2>2. r \in WriterType /\ r.pc = "head" /\ r.batch[1] = BlockOf(w) /\ r.todo # {}
    BY <1>t, <2>1 DEF WriterType, BlockOf, Working
  <2>3. writer' \in [Writers -> WriterType] /\ Working'
    BY <1>t, <1>i, <2>1, <2>2, OneWriter, ZenonT(60)
  <2>4. markers' \in [head : Blocks, header : Blocks, canonical : [Numbers -> Blocks \cup {None}]]
    BY <1>10 DEF Prune, PrunedMarkers, TypeOK
  <2> QED
    BY <1>10, <2>3, <2>4 DEF Prune, TypeOK, DifficultyAddsUp, Stored, headVars, procVars
<1>11. ASSUME NEW w \in Writers, Announce(w) PROVE Added'
  <2>1. writer[w].pc = "announce" /\ BlockOf(w) \in Blocks
    BY <1>11, <1>i DEF Announce
  <2>2. writer' \in [Writers -> WriterType] /\ Working'
    BY <1>11, <1>f, <2>1 DEF Announce
  <2> QED
    BY <1>11, <2>1, <2>2
       DEF Announce, TypeOK, DifficultyAddsUp, Stored, diskVars, headVars, procVars
<1>12. ASSUME Stop PROVE Added'
  BY <1>12 DEF Stop, TypeOK, Working, BlockOf, DifficultyAddsUp, Stored, diskVars, headVars
<1>13. ASSUME Restart PROVE Added'
  <2>1. Genesis \in Blocks /\ db[Genesis] \in Nat \cup {Absent} /\ Difficulty[Genesis] \in Nat
    BY TreeAssumption DEF TypeOK
  <2>2. GetBlockByHash(markers.head) \in {None, markers.head} /\ markers.head \in Blocks
    BY DEF GetBlockByHash, GetBlock, TypeOK
  <2>3. currentBlock' \in Blocks /\ currentHeader' \in Blocks /\ announced' \in Blocks
    BY <1>13, <2>1, <2>2 DEF Restart, TypeOK
  <2>4. restarts' \in 0..MaxRestarts
    BY <1>13, TreeAssumption DEF Restart, TypeOK
  <2>5. UNCHANGED markers
    BY <1>13 DEF Restart, FlushHeadBatch
  <2>6. UNCHANGED db
    <3>1. db' = [db EXCEPT ![Genesis] = db[Genesis]]
      BY <1>13 DEF Restart, DifficultyAddsUp
    <3> QED
      BY <3>1 DEF TypeOK
  <2>7. UNCHANGED writer
    BY <1>13 DEF Restart
  <2>8. Working'
    BY <2>7 DEF Working, BlockOf
  <2>9. DifficultyAddsUp'
    BY <2>6 DEF DifficultyAddsUp, Stored
  <2> QED
    BY <1>13, <2>3, <2>4, <2>5, <2>6, <2>7, <2>8, <2>9, ZenonT(60) DEF Restart, TypeOK
<1>14. ASSUME UNCHANGED vars PROVE Added'
  BY <1>14 DEF vars, TypeOK, Working, BlockOf, DifficultyAddsUp, Stored, diskVars, headVars, procVars
<1>15. ASSUME NEW w \in Writers, Write(w) PROVE Added'
  BY <1>15, <1>4, <1>5, <1>6, <1>7, <1>8, <1>9, <1>10, <1>11, <1>17 DEF Write
<1>16. ASSUME StopFlush \/ Crash PROVE Added'
  BY <1>16, <1>1 DEF StopFlush, Crash
<1> HIDE DEF Added
<1> QED
  BY <1>2, <1>3, <1>12, <1>13, <1>14, <1>15, <1>16 DEF Next

\* Every variable keeps its type in every behaviour: in particular both head
\* markers and what a restart reads from disk are always blocks
\* (writeHeadBlock, reorg, loadLastState).
THEOREM TypeCorrect == Spec => []TypeOK
<1>1. Added => TypeOK
  BY DEF Added
<1> QED
  BY <1>1, InitAdded, NextAdded, PTL DEF Spec

\* For every block tree and any number of writers, and wherever a crash, a
\* failed commit or a stop interrupts them, a stored block has a stored parent
\* and a total difficulty that is its parent's plus its own
\* (writeBlockWithState, which ReorgNeeded and reorg rely on).
THEOREM DifficultiesAddUp == Spec => []DifficultyAddsUp
<1>1. Added => DifficultyAddsUp
  BY DEF Added
<1> QED
  BY <1>1, InitAdded, NextAdded, PTL DEF Spec

\* The blocks under a stored block are stored.
LEMMA AncestryStored ==
  ASSUME TypeOK, DifficultyAddsUp, NEW b \in Stored
  PROVE  Ancestry[b] \subseteq Stored
<1>1. ParentsIn(Stored) /\ Stored \in SUBSET Blocks
  BY DEF DifficultyAddsUp, ParentsIn, Stored
<1> QED BY <1>1, AncestryIn

-----------------------------------------------------------------------------
(* States. *)

\* The blocks a state may be there for.
Known == Stored \cup lost

\* What each goroutine may rely on: the block and the state under its block,
\* then its block unless the batch failed, then the block's own state unless
\* its import missed the root, and past the comparison the block for certain
\* and blocks and states of all heads it will set.
GroundedBy(r, blocks, known, states) ==
  /\ r.pc # "idle" => Parent[r.batch[1]] \in blocks \cap states
  /\ r.pc \notin {"idle", "write"} => r.batch[1] \in known
  /\ r.pc \notin {"idle", "write", "commit"} => r.batch[1] \in states \cup Invalid
  /\ r.pc \notin {"idle", "write", "commit", "choose"} => r.batch[1] \in blocks
  /\ r.todo \subseteq blocks \cap (states \cup Invalid)

Grounded ==
  /\ HeadHasState
  /\ Genesis \in stateDb /\ markers.head = Genesis /\ markers.header = Genesis
  /\ \A w \in Writers : GroundedBy(writer[w], Stored, Known, stateDb)

\* The genesis block, where both markers start, has its state.
LEMMA InitGrounded == Init => Grounded
<1> SUFFICES ASSUME Init PROVE Grounded
  OBVIOUS
<1>1. Genesis \in Stored
  BY TreeAssumption DEF Init, Stored, Absent
<1>2. HeadHasState
  BY <1>1 DEF Init, HeadHasState, ParentsIn
<1>3. \A w \in Writers : GroundedBy(writer[w], Stored, Known, stateDb)
  BY DEF Init, GroundedBy, Idle
<1> QED
  BY <1>2, <1>3 DEF Init, Grounded

\* A goroutine that moves while stored blocks and states only grow.
LEMMA GroundedStep ==
  ASSUME writer \in [Writers -> WriterType],
         \A w \in Writers : GroundedBy(writer[w], Stored, Known, stateDb),
         Stored \subseteq Stored', Known \subseteq Known', stateDb \subseteq stateDb',
         NEW w \in Writers, NEW r,
         writer' = [writer EXCEPT ![w] = r], GroundedBy(r, Stored', Known', stateDb')
  PROVE  \A v \in Writers : GroundedBy(writer'[v], Stored', Known', stateDb')
<1>1. ASSUME NEW v \in Writers PROVE GroundedBy(writer'[v], Stored', Known', stateDb')
  <2>1. writer'[v] = IF v = w THEN r ELSE writer[v]
    OBVIOUS
  <2>2. CASE v = w
    BY <2>1, <2>2 DEF GroundedBy
  <2>3. CASE v # w
    <3>1. writer'[v] = writer[v] /\ GroundedBy(writer[v], Stored, Known, stateDb)
      BY <2>1, <2>3
    <3> QED
      BY <3>1 DEF GroundedBy
  <2> QED
    BY <2>2, <2>3
<1> QED
  BY <1>1

\* No step leaves a head, or anything a goroutine will make head, without its
\* state, but for blocks whose import misses the root.
LEMMA NextGrounded == Added /\ Grounded /\ [Next]_vars => Grounded'
<1> SUFFICES ASSUME Added, Grounded, [Next]_vars PROVE Grounded'
  OBVIOUS
<1>t. TypeOK /\ writer \in [Writers -> WriterType] /\ stateDb \subseteq Blocks
  BY DEF Added, TypeOK
<1>i. \A w \in Writers : writer[w].pc # "idle" => BlockOf(w) \in Blocks \ {Genesis}
  BY DEF Added, Working
<1>g. \A w \in Writers : GroundedBy(writer[w], Stored, Known, stateDb)
  BY DEF Grounded
<1>z. GroundedBy(Idle, Stored', Known', stateDb')
  BY DEF GroundedBy, Idle
\* A step that keeps disk and head markers and moves one goroutine.
<1>m. ASSUME NEW w \in Writers, NEW r, writer' = [writer EXCEPT ![w] = r],
             GroundedBy(r, Stored, Known, stateDb),
             UNCHANGED <<db, stateDb, lost, currentBlock, currentHeader>>,
             markers'.head = markers.head, markers'.header = markers.header
      PROVE  Grounded'
  <2>1. Stored' = Stored /\ Known' = Known /\ UNCHANGED <<stateDb, lost>>
    BY <1>m DEF Stored, Known
  <2>2. \A v \in Writers : GroundedBy(writer'[v], Stored', Known', stateDb')
    BY <1>t, <1>g, <1>m, <2>1, GroundedStep
  <2>3. HeadHasState'
    BY <1>m, <2>1 DEF Grounded, HeadHasState, ParentsIn
  <2> QED
    BY <1>m, <2>1, <2>2, <2>3 DEF Grounded
<1>b. ASSUME NEW w \in Writers, Return(w),
             UNCHANGED <<db, stateDb, lost, currentBlock, currentHeader, markers>>
      PROVE  Grounded'
  <2>1. GroundedBy(Idle, Stored, Known, stateDb)
    BY DEF GroundedBy, Idle
  <2> QED
    BY <1>b, <1>m, <2>1, ZenonT(60) DEF Return
<1>1. ASSUME Down PROVE Grounded'
  <2>1. \A v \in Writers : writer'[v] = Idle
    BY <1>1 DEF Down
  <2>2. Stored' = Stored /\ UNCHANGED <<stateDb, lost, currentBlock, currentHeader, markers>>
    BY <1>1 DEF Down, Stored, diskVars, headVars
  <2> QED
    BY <1>z, <2>1, <2>2 DEF Grounded, HeadHasState, ParentsIn
<1>2. ASSUME NEW w \in Miners, NEW b \in Blocks, Mined(w, b) PROVE Grounded'
  <2> DEFINE r == [Idle EXCEPT !.pc = "write", !.batch = <<b>>]
  <2>1. GroundedBy(r, Stored, Known, stateDb)
    BY <1>2 DEF Mined, GroundedBy, Idle
  <2>2. writer' = [writer EXCEPT ![w] = r] /\ w \in Writers
    BY <1>2 DEF Mined, Writers
  <2> QED
    BY <1>2, <1>m, <2>1, <2>2, ZenonT(60) DEF Mined, diskVars, headVars
<1>3. ASSUME NEW w \in Importers, NEW batch \in Batches, InsertChain(w, batch) PROVE Grounded'
  <2> DEFINE r == [Idle EXCEPT !.pc = "write", !.batch = batch]
  <2>1. CASE Down
    BY <1>1, <2>1
  <2>2. CASE ~Down
    <3>1. /\ writer' = [writer EXCEPT ![w] = r] /\ w \in Writers
          /\ Parent[batch[1]] \in Stored \cap stateDb
          /\ UNCHANGED <<diskVars, headVars>>
      BY <1>3, <2>2 DEF InsertChain, Unreadable, StateMissing, Writers
    <3>2. GroundedBy(r, Stored, Known, stateDb)
      BY <3>1 DEF GroundedBy, Idle
    <3> QED
      BY <1>m, <3>1, <3>2, ZenonT(60) DEF diskVars, headVars
  <2> QED
    BY <2>1, <2>2
<1>4. ASSUME NEW w \in Writers, WriteBlock(w) PROVE Grounded'
  <2> DEFINE b == BlockOf(w)
             r == [writer[w] EXCEPT !.pc = "commit"]
  <2>1. writer[w].pc = "write" /\ b \in Blocks \ {Genesis}
    BY <1>4, <1>i DEF WriteBlock
  <2>2. Parent[b] \in Stored
    BY <1>g, <2>1 DEF GroundedBy, BlockOf
  <2>3. writer' = [writer EXCEPT ![w] = r] /\ db' = [db EXCEPT ![b] = TdOf(b)]
    BY <1>4, <1>t, <2>2 DEF WriteBlock, Goto
  <2>4. TdOf(b) # Absent
    <3>1. db[Parent[b]] \in Nat /\ Difficulty[b] \in Nat
      BY <1>t, <2>1, <2>2, TreeAssumption DEF TypeOK, Stored
    <3> QED
      BY <3>1 DEF TdOf, Absent
  <2>5. Stored' = Stored \cup {b}
    <3>1. \A c \in Blocks : db'[c] = IF c = b THEN TdOf(b) ELSE db[c]
      BY <1>t, <2>3 DEF TypeOK
    <3> QED
      BY <2>1, <2>4, <3>1 DEF Stored
  <2>6. UNCHANGED <<stateDb, lost, markers, currentBlock, currentHeader>>
    BY <1>4 DEF WriteBlock, headVars
  <2>7. r.pc = "commit" /\ r.batch[1] = b /\ r.todo = writer[w].todo
    BY <1>t DEF WriterType, BlockOf
  <2>k. Known' = Known \cup {b}
    BY <2>5, <2>6 DEF Known
  <2>8. GroundedBy(r, Stored', Known', stateDb')
    BY <1>g, <2>1, <2>5, <2>6, <2>7, <2>k DEF GroundedBy
  <2>g. Stored \subseteq Stored' /\ Known \subseteq Known' /\ stateDb \subseteq stateDb'
    BY <2>5, <2>6, <2>k
  <2>9. \A v \in Writers : GroundedBy(writer'[v], Stored', Known', stateDb')
    BY <1>t, <1>g, <2>3, <2>8, <2>g, GroundedStep, ZenonT(60)
  <2> QED
    BY <2>5, <2>6, <2>9 DEF Grounded, HeadHasState, ParentsIn
<1>17. ASSUME NEW w \in Writers, WriteFails(w) PROVE Grounded'
  <2> DEFINE b == BlockOf(w)
             r == [writer[w] EXCEPT !.pc = "commit"]
  <2>1. writer[w].pc = "write" /\ b \in Blocks \ {Genesis}
    BY <1>17, <1>i DEF WriteFails
  <2>2. /\ writer' = [writer EXCEPT ![w] = r] /\ lost' = lost \cup ({b} \ Stored)
        /\ Stored' = Stored /\ UNCHANGED <<stateDb, markers, currentBlock, currentHeader>>
    BY <1>17, <1>t DEF WriteFails, Goto, Stored, headVars
  <2>3. r.pc = "commit" /\ r.batch[1] = b /\ r.todo = writer[w].todo
    BY <1>t DEF WriterType, BlockOf
  <2>4. Known' = Known \cup {b}
    BY <2>2 DEF Known
  <2>5. GroundedBy(r, Stored', Known', stateDb')
    BY <1>g, <2>1, <2>2, <2>3, <2>4 DEF GroundedBy
  <2>6. Stored \subseteq Stored' /\ Known \subseteq Known' /\ stateDb \subseteq stateDb'
    BY <2>2, <2>4
  <2>7. \A v \in Writers : GroundedBy(writer'[v], Stored', Known', stateDb')
    BY <1>t, <1>g, <2>2, <2>5, <2>6, GroundedStep, ZenonT(60)
  <2> QED
    BY <2>2, <2>7 DEF Grounded, HeadHasState
<1>5. ASSUME NEW w \in Writers, CommitState(w) PROVE Grounded'
  <2> DEFINE b == BlockOf(w)
             r == [writer[w] EXCEPT !.pc = "choose"]
  <2>1. /\ writer[w].pc = "commit" /\ b \in Blocks \ {Genesis}
        /\ Parent[b] \in Stored \cap stateDb /\ b \in Stored \cup lost
    BY <1>5, <1>g, <1>i DEF CommitState, GroundedBy, BlockOf, Known
  <2>2. /\ writer' = [writer EXCEPT ![w] = r]
        /\ stateDb \subseteq stateDb' /\ stateDb' \subseteq stateDb \cup {b}
        /\ b \in stateDb' \cup Invalid /\ lost' = lost \ ({b} \cap Stored)
    BY <1>5, <1>t DEF CommitState, RootCommitted, Goto
  <2>3. Stored' = Stored /\ UNCHANGED <<markers, currentBlock, currentHeader>>
    BY <1>5 DEF CommitState, Stored, headVars
  <2>4. r.pc = "choose" /\ r.batch[1] = b /\ r.todo = writer[w].todo
    BY <1>t DEF WriterType, BlockOf
  <2>k. Known' = Known
    BY <2>2, <2>3 DEF Known
  <2>5. GroundedBy(r, Stored', Known', stateDb')
    BY <1>g, <2>1, <2>2, <2>3, <2>4, <2>k DEF GroundedBy
  <2>g. Stored \subseteq Stored' /\ Known \subseteq Known' /\ stateDb \subseteq stateDb'
    BY <2>2, <2>3, <2>k
  <2>6. \A v \in Writers : GroundedBy(writer'[v], Stored', Known', stateDb')
    BY <1>t, <1>g, <2>2, <2>5, <2>g, GroundedStep, ZenonT(60)
  <2> QED
    BY <2>1, <2>2, <2>3, <2>6 DEF Grounded, HeadHasState, ParentsIn
<1>6. ASSUME NEW w \in Writers, CommitFails(w) PROVE Grounded'
  BY <1>6, <1>b DEF CommitFails, diskVars, headVars
<1>7. ASSUME NEW w \in Writers, NEW needed \in BOOLEAN, Choose(w, needed) PROVE Grounded'
  <2> DEFINE b == BlockOf(w)
             stage == IF Parent[b] = currentBlock THEN "head"
                      ELSE NextStage(w, Heads(currentBlock, b))
             r == [writer[w] EXCEPT !.pc = stage, !.old = currentBlock,
                                    !.todo = Heads(currentBlock, b)]
  <2>1. /\ writer[w].pc = "choose" /\ b \in Blocks \ {Genesis} /\ b \in stateDb \cup Invalid
        /\ b \in Known /\ Parent[b] \in Stored \cap stateDb
    BY <1>7, <1>g, <1>i DEF Choose, GroundedBy, BlockOf
  <2>2. UNCHANGED <<db, stateDb, lost, currentBlock, currentHeader, markers>>
    BY <1>7 DEF Choose, diskVars, headVars
  <2>3. CASE Return(w)
    BY <1>b, <2>2, <2>3
  <2>4. CASE ~Return(w)
    <3>1. writer' = [writer EXCEPT ![w].pc = stage, ![w].old = currentBlock,
                                   ![w].todo = Heads(currentBlock, b)]
      BY <1>7, <2>4 DEF Choose
    <3>s. b \in Stored
      <4>1. needed \in ReorgNeeded(currentBlock, b) /\ needed # FALSE
        BY <1>7, <2>4, ZenonT(60) DEF Choose
      <4> QED
        BY <4>1, ZenonT(60) DEF ReorgNeeded
    <3>a. Ancestry[b] \subseteq Stored
      BY <3>s, AncestryStored DEF Added
    <3> HIDE DEF stage
    <3>2. writer' = [writer EXCEPT ![w] = r]
      BY <1>t, <3>1, ZenonT(60)
    <3>3. Ancestry[b] \subseteq stateDb \cup {b}
      <4>1. ParentsIn(stateDb \cup {b}) /\ stateDb \cup {b} \in SUBSET Blocks
        BY <1>t, <2>1 DEF Grounded, HeadHasState, ParentsIn
      <4> QED
        BY <2>1, <4>1, AncestryIn
    <3>4. Heads(currentBlock, b) \subseteq Stored \cap (stateDb \cup Invalid)
      BY <2>1, <3>3, <3>s, <3>a DEF Heads, newChain
    <3>5. r.batch = writer[w].batch /\ r.todo = Heads(currentBlock, b)
      BY <1>t DEF WriterType
    <3>6. GroundedBy(r, Stored, Known, stateDb)
      BY <2>1, <3>4, <3>5, <3>s DEF GroundedBy, BlockOf
    <3> HIDE DEF r
    <3> QED
      BY <1>m, <2>2, <3>2, <3>6, ZenonT(60)
  <2> QED
    BY <2>3, <2>4
<1>o. ASSUME NEW w \in Writers, writer[w].pc \in {"head", "block"}
      PROVE  /\ Oldest(writer[w].todo) \in Stored \cap (stateDb \cup Invalid)
             /\ writer[w].todo \subseteq Stored \cap (stateDb \cup Invalid)
  <2>1. writer[w].todo \in SUBSET Blocks /\ writer[w].todo # {}
    BY <1>o, <1>t DEF WriterType, Working, Added
  <2>2. writer[w].todo \subseteq Stored \cap (stateDb \cup Invalid)
    BY <1>g DEF GroundedBy
  <2> QED
    BY <2>1, <2>2, OldestIn
<1>8. ASSUME NEW w \in Writers, SetCurrentHeader(w) PROVE Grounded'
  <2> DEFINE r == [writer[w] EXCEPT !.pc = "block"]
  <2>1. writer' = [writer EXCEPT ![w] = r] /\ writer[w].pc = "head"
    BY <1>8, <1>t DEF SetCurrentHeader, Goto
  <2>2. /\ Stored' = Stored /\ Known' = Known /\ UNCHANGED <<stateDb, lost, markers, currentBlock>>
        /\ currentHeader' \in Stored \cap (stateDb \cup Invalid)
    BY <1>8, <1>o, <2>1 DEF SetCurrentHeader, Stored, Known, FlushHeadBatch
  <2>3. r.pc = "block" /\ r.batch = writer[w].batch /\ r.todo = writer[w].todo
    BY <1>t DEF WriterType
  <2>4. GroundedBy(r, Stored', Known', stateDb')
    BY <1>g, <2>1, <2>2, <2>3 DEF GroundedBy
  <2>5. \A v \in Writers : GroundedBy(writer'[v], Stored', Known', stateDb')
    BY <1>t, <1>g, <2>1, <2>2, <2>4, GroundedStep
  <2> QED
    BY <2>2, <2>5 DEF Grounded, HeadHasState
<1>9. ASSUME NEW w \in Writers, SetCurrentBlock(w) PROVE Grounded'
  <2> DEFINE left == writer[w].todo \ {Oldest(writer[w].todo)}
             stage == NextStage(w, left)
             r == [writer[w] EXCEPT !.pc = stage, !.todo = left]
  <2>1. writer' = [writer EXCEPT ![w] = r] /\ writer[w].pc = "block"
    BY <1>9, <1>t, ZenonT(60) DEF SetCurrentBlock
  <2>2. /\ Stored' = Stored /\ Known' = Known /\ UNCHANGED <<stateDb, lost, markers, currentHeader>>
        /\ currentBlock' \in Stored \cap (stateDb \cup Invalid)
    BY <1>9, <1>o, <2>1 DEF SetCurrentBlock, Stored, Known, diskVars
  <2>3. left \subseteq Stored \cap (stateDb \cup Invalid)
    BY <1>o, <2>1
  <2> HIDE DEF left, stage
  <2>4. r.batch = writer[w].batch /\ r.todo = left
    BY <1>t DEF WriterType
  <2>5. GroundedBy(r, Stored', Known', stateDb')
    BY <1>g, <2>1, <2>2, <2>3, <2>4 DEF GroundedBy
  <2>6. \A v \in Writers : GroundedBy(writer'[v], Stored', Known', stateDb')
    BY <1>t, <1>g, <2>1, <2>2, <2>5, GroundedStep
  <2> QED
    BY <2>2, <2>6 DEF Grounded, HeadHasState, ParentsIn
<1>10. ASSUME NEW w \in Writers, Prune(w) PROVE Grounded'
  <2> DEFINE r == [writer[w] EXCEPT !.pc = "head"]
  <2>1. writer' = [writer EXCEPT ![w] = r] /\ writer[w].pc = "prune"
    BY <1>10, <1>t DEF Prune, Goto
  <2>2. r.batch = writer[w].batch /\ r.todo = writer[w].todo /\ r.pc = "head"
    BY <1>t DEF WriterType
  <2>3. GroundedBy(r, Stored, Known, stateDb)
    BY <1>g, <2>1, <2>2 DEF GroundedBy
  <2>4. markers'.head = markers.head /\ markers'.header = markers.header
    BY <1>10, <1>t DEF Prune, PrunedMarkers, TypeOK
  <2> HIDE DEF r
  <2> QED
    BY <1>10, <1>m, <2>1, <2>3, <2>4, ZenonT(60) DEF Prune, headVars
<1>11. ASSUME NEW w \in Writers, Announce(w) PROVE Grounded'
  BY <1>11, <1>b DEF Announce, diskVars, headVars
<1>12. ASSUME UNCHANGED <<diskVars, headVars, writer>> PROVE Grounded'
  <2>1. /\ Stored' = Stored /\ Known' = Known
        /\ UNCHANGED <<stateDb, lost, currentBlock, currentHeader, markers, writer>>
    BY <1>12 DEF Stored, Known, diskVars, headVars
  <2> QED
    BY <2>1 DEF Grounded, HeadHasState, ParentsIn
<1>13. ASSUME Restart PROVE Grounded'
  <2>1. Genesis \in Stored
    BY TreeAssumption DEF Added, DifficultyAddsUp, Stored, Absent
  <2>2. /\ GetBlockByHash(markers.head) \in {None, Genesis}
        /\ currentBlock' = Genesis /\ currentHeader' = Genesis
    BY <1>13, <2>1 DEF Restart, GetBlockByHash, GetBlock, Grounded
  <2>3. UNCHANGED <<markers, stateDb, lost, writer>>
    BY <1>13 DEF Restart, FlushHeadBatch
  <2>4. UNCHANGED db
    <3>1. db' = [db EXCEPT ![Genesis] = db[Genesis]]
      BY <1>13 DEF Restart, DifficultyAddsUp, Added
    <3> QED
      BY <1>t, <3>1 DEF TypeOK
  <2>5. Stored' = Stored /\ Known' = Known
    BY <2>3, <2>4 DEF Stored, Known
  <2> QED
    BY <2>2, <2>3, <2>5 DEF Grounded, HeadHasState, ParentsIn
<1>14. ASSUME NEW w \in Writers, Write(w) PROVE Grounded'
  BY <1>14, <1>4, <1>5, <1>6, <1>7, <1>8, <1>9, <1>10, <1>11, <1>17 DEF Write
<1>15. ASSUME Stop \/ UNCHANGED vars PROVE Grounded'
  BY <1>15, <1>12 DEF Stop, vars
<1>16. ASSUME StopFlush \/ Crash PROVE Grounded'
  BY <1>16, <1>1 DEF StopFlush, Crash
<1> QED
  BY <1>2, <1>3, <1>13, <1>14, <1>15, <1>16 DEF Next

\* The head block and the head header are stored and have their state at every
\* moment, but for an imported block whose root the import did not arrive at; so
\* has every block under a block that has its state, and that block is stored
\* itself unless its batch failed: whatever crash, failed batch or failed commit
\* falls between block and state, neither writeHeadBlock nor a reorg ever names
\* a block without both.
THEOREM HeadsHaveState == Spec => []HeadHasState
<1>1. Added /\ Grounded /\ [Next]_vars => (Added /\ Grounded)'
  BY NextAdded, NextGrounded
<1>2. Init => Added /\ Grounded
  BY InitAdded, InitGrounded
<1>3. Added /\ Grounded => HeadHasState
  BY DEF Grounded
<1> QED
  BY <1>1, <1>2, <1>3, PTL DEF Spec

-----------------------------------------------------------------------------
(* The ancestry of a block. *)

\* A block is in its ancestry, with the parents and the ancestries of whatever is.
LEMMA AncestryClosed ==
  ASSUME NEW b \in Blocks
  PROVE  /\ b \in Ancestry[b] /\ Ancestry[b] \in SUBSET Blocks /\ ParentsIn(Ancestry[b])
         /\ \A c \in Ancestry[b] : Ancestry[c] \subseteq Ancestry[b]
<1>1. Ancestry[b] = {x \in Blocks : \A S \in SUBSET Blocks : b \in S /\ ParentsIn(S) => x \in S}
  BY DEF Ancestry
<1>2. b \in Ancestry[b] /\ Ancestry[b] \in SUBSET Blocks
  BY <1>1
<1>3. ASSUME NEW x \in Ancestry[b] \ {Genesis} PROVE Parent[x] \in Ancestry[b]
  <2>1. x \in Blocks \ {Genesis} /\ Parent[x] \in Blocks
    BY <1>2, <1>3, TreeAssumption
  <2>2. ASSUME NEW S \in SUBSET Blocks, b \in S, ParentsIn(S) PROVE Parent[x] \in S
    <3>1. x \in S \ {Genesis}
      BY <1>1, <1>3, <2>2
    <3> QED BY <2>2, <3>1 DEF ParentsIn
  <2> QED BY <1>1, <2>1, <2>2
<1>4. ParentsIn(Ancestry[b])
  BY <1>3 DEF ParentsIn
<1> QED BY <1>2, <1>4, AncestryIn

\* Under a block are the block and what is under its parent.
LEMMA AncestryStep ==
  ASSUME NEW b \in Blocks \ {Genesis}
  PROVE  Ancestry[b] = {b} \cup Ancestry[Parent[b]]
<1>1. Parent[b] \in Blocks
  BY TreeAssumption
<1>2. ParentsIn({b} \cup Ancestry[Parent[b]]) /\ {b} \cup Ancestry[Parent[b]] \in SUBSET Blocks
  BY <1>1, AncestryClosed DEF ParentsIn
<1>3. Ancestry[b] \subseteq {b} \cup Ancestry[Parent[b]]
  BY <1>2, AncestryIn
<1>4. Parent[b] \in Ancestry[b] /\ b \in Ancestry[b]
  BY AncestryClosed DEF ParentsIn
<1>5. Ancestry[Parent[b]] \subseteq Ancestry[b]
  BY <1>4, AncestryClosed
<1> QED BY <1>3, <1>4, <1>5

\* Numbers fall on the way down.
LEMMA AncestryBelow ==
  ASSUME NEW b \in Blocks, NEW x \in Ancestry[b]
  PROVE  x = b \/ Number[x] < Number[b]
<1> DEFINE S == {y \in Blocks : y = b \/ Number[y] < Number[b]}
<1>1. ASSUME NEW y \in S \ {Genesis} PROVE Parent[y] \in S
  <2>1. /\ Parent[y] \in Blocks /\ Number[y] \in Nat /\ Number[b] \in Nat /\ Number[Parent[y]] \in Nat
        /\ Number[y] = Number[Parent[y]] + 1
    BY TreeAssumption
  <2> QED BY <2>1
<1>2. ParentsIn(S) /\ b \in S /\ S \in SUBSET Blocks
  BY <1>1 DEF ParentsIn
<1> HIDE DEF S
<1>3. x \in S
  BY <1>2, AncestryIn
<1> QED BY <1>3 DEF S

\* Of two blocks under a third, the one with the smaller number is under the other.
LEMMA AncestryOrdered ==
  ASSUME NEW b \in Blocks, NEW x \in Ancestry[b], NEW y \in Ancestry[b], Number[x] <= Number[y]
  PROVE  x \in Ancestry[y]
<1> DEFINE S == {z \in Blocks : y \in Ancestry[z] \/ z \in Ancestry[y]}
<1>0. x \in Blocks /\ y \in Blocks /\ Number[x] \in Nat /\ Number[y] \in Nat
  BY AncestryClosed, TreeAssumption
<1>1. ASSUME NEW z \in S \ {Genesis} PROVE Parent[z] \in S
  <2>1. Parent[z] \in Blocks /\ z \in Blocks \ {Genesis}
    BY TreeAssumption
  <2>2. CASE z \in Ancestry[y]
    <3>1. Parent[z] \in Ancestry[y]
      BY <1>0, <2>1, <2>2, AncestryClosed DEF ParentsIn
    <3> QED BY <2>1, <3>1
  <2>3. CASE y \in Ancestry[z] /\ z # y
    <3>1. y \in Ancestry[Parent[z]]
      BY <2>1, <2>3, AncestryStep
    <3> QED BY <2>1, <3>1
  <2>4. CASE y \in Ancestry[z] /\ z = y
    <3>1. z \in Ancestry[y]
      BY <1>0, <2>4, AncestryClosed
    <3> QED BY <2>2, <3>1
  <2> QED BY <2>2, <2>3, <2>4
<1>2. ParentsIn(S) /\ b \in S /\ S \in SUBSET Blocks
  BY <1>1 DEF ParentsIn
<1> HIDE DEF S
<1>3. x \in S
  BY <1>2, AncestryIn
<1>4. CASE y \in Ancestry[x]
  <2>1. y = x \/ Number[y] < Number[x]
    BY <1>0, <1>4, AncestryBelow
  <2>2. y = x
    BY <1>0, <2>1
  <2> QED BY <1>4, <2>2
<1> QED BY <1>3, <1>4 DEF S

\* The genesis block is under every block.
LEMMA GenesisUnder ==
  ASSUME NEW b \in Blocks
  PROVE  Genesis \in Ancestry[b]
<1> DEFINE S == {c \in Blocks : Genesis \notin Ancestry[c]}
<1>1. SUFFICES ASSUME S # {} PROVE FALSE
  OBVIOUS
<1>2. PICK c \in S : \A d \in S : Number[c] <= Number[d]
  BY <1>1, OldestIn, ZenonT(60)
<1>3. Genesis \notin Ancestry[c] /\ c # Genesis /\ c \in Blocks
  BY <1>2, AncestryClosed
<1>4. Parent[c] \in Blocks /\ Number[c] = Number[Parent[c]] + 1 /\ Number[Parent[c]] \in Nat
  BY <1>3, TreeAssumption
<1>5. Genesis \in Ancestry[Parent[c]]
  <2>1. Parent[c] \notin S
    BY <1>2, <1>4
  <2> QED BY <1>4, <2>1
<1> QED BY <1>3, <1>5, AncestryStep

-----------------------------------------------------------------------------
(* The way of the head. *)

Setting == {"prune", "head", "block", "announce"}

\* The heads a goroutine still has to set, from head to its block: the upper end
\* of the ancestry of its block, and all of it that is not under the head.
Path(r, head) ==
  LET new == r.batch[1]
  IN  IF r.pc = "announce" THEN head = new
      ELSE /\ new \in r.todo /\ r.todo \subseteq Ancestry[new]
           /\ Ancestry[new] \subseteq Ancestry[head] \cup r.todo
           /\ \A x \in Ancestry[new], y \in r.todo : Number[x] >= Number[y] => x \in r.todo

\* Without a race one goroutine at a time sets the head, along its path.
Leading ==
  /\ ~up => \A w \in Writers : writer[w].pc = "idle"
  /\ ~raced =>
       /\ currentBlock \in Stored
       /\ \A w \in Writers : writer[w].pc \in Setting =>
            /\ \A v \in Writers : writer[v].pc \in Setting => v = w
            /\ Path(writer[w], currentBlock)

\* Heads: what reorg finds is a path from the head it compared with.
LEMMA PathStart ==
  ASSUME NEW old \in Blocks, NEW new \in Blocks \ {Genesis}, NEW r,
         r.pc # "announce", r.batch[1] = new, r.todo = Heads(old, new)
  PROVE  Path(r, old)
<1>n. \A b \in Blocks : Number[b] \in Nat /\ Ancestry[b] \in SUBSET Blocks /\ b \in Ancestry[b]
  BY TreeAssumption, AncestryClosed
<1>1. /\ new \in r.todo /\ r.todo \subseteq Ancestry[new]
      /\ Ancestry[new] \subseteq Ancestry[old] \cup r.todo
  <2>1. CASE Parent[new] = old
    BY <1>n, <2>1, AncestryStep DEF Heads
  <2>2. CASE Parent[new] # old
    BY <1>n, <2>2 DEF Heads, newChain
  <2> QED BY <2>1, <2>2
<1>2. ASSUME NEW x \in Ancestry[new], NEW y \in r.todo, Number[x] >= Number[y], x \notin r.todo
      PROVE  FALSE
  <2>1. x \in Blocks /\ y \in Blocks /\ y \in Ancestry[new] /\ x # new /\ x \in Ancestry[old]
    BY <1>n, <1>1, <1>2
  <2>2. Number[y] <= Number[x]
    BY <1>n, <1>2, <2>1
  <2>3. y \in Ancestry[x]
    BY <1>2, <2>1, <2>2, AncestryOrdered
  <2>4. y \in Ancestry[old]
    BY <2>1, <2>3, AncestryClosed
  <2>5. y = new
    <3>1. CASE Parent[new] = old
      BY <1>2, <3>1 DEF Heads
    <3>2. CASE Parent[new] # old
      BY <1>2, <2>4, <3>2 DEF Heads, newChain
    <3> QED BY <3>1, <3>2
  <2>6. Number[x] < Number[new]
    BY <2>1, AncestryBelow
  <2> QED BY <1>n, <2>1, <2>2, <2>5, <2>6
<1> QED BY <1>1, <1>2 DEF Path

\* writeHeadBlock takes the oldest block of the path: a child of the head or of a
\* block under it, or a block under the head.  The rest is a path from there.
LEMMA PathNext ==
  ASSUME NEW head \in Blocks, NEW r, r.pc # "announce", r.batch[1] \in Blocks,
         Path(r, head),
         NEW q, q.batch = r.batch, q.todo = r.todo \ {Oldest(r.todo)},
         q.pc = "announce" <=> q.todo = {}
  PROVE  /\ Path(q, Oldest(r.todo)) /\ Oldest(r.todo) \in Ancestry[r.batch[1]]
         /\ Oldest(r.todo) \in Ancestry[head] \/ Parent[Oldest(r.todo)] \in Ancestry[head]
<1> DEFINE new == r.batch[1]
           o == Oldest(r.todo)
<1>n. \A b \in Blocks : Number[b] \in Nat /\ Ancestry[b] \in SUBSET Blocks /\ b \in Ancestry[b]
  BY TreeAssumption, AncestryClosed
<1>1. /\ new \in r.todo /\ r.todo \subseteq Ancestry[new]
      /\ Ancestry[new] \subseteq Ancestry[head] \cup r.todo
      /\ \A x \in Ancestry[new], y \in r.todo : Number[x] >= Number[y] => x \in r.todo
  BY DEF Path
<1>2. o \in r.todo /\ \A c \in r.todo : Number[o] <= Number[c]
  <2>1. r.todo \in SUBSET Blocks /\ r.todo # {}
    BY <1>n, <1>1
  <2> QED BY <2>1, OldestIn
<1>3. o \in Ancestry[new] /\ o \in Blocks /\ new \in Blocks
  BY <1>n, <1>1, <1>2
<1> HIDE DEF o, new
<1>4. o \in Ancestry[head] \/ Parent[o] \in Ancestry[head]
  <2>1. CASE o = Genesis
    BY <2>1, GenesisUnder
  <2>2. CASE o # Genesis
    <3>1. /\ Parent[o] \in Ancestry[new] /\ Parent[o] \in Blocks
          /\ Number[o] = Number[Parent[o]] + 1
      BY <1>3, <2>2, AncestryClosed, TreeAssumption DEF ParentsIn
    <3>2. Parent[o] \notin r.todo
      BY <1>n, <1>2, <1>3, <3>1
    <3> QED BY <1>1, <3>1, <3>2
  <2> QED BY <2>1, <2>2
<1>5. Ancestry[new] \subseteq Ancestry[o] \cup q.todo
  <2>1. ASSUME NEW x \in Ancestry[new], x \notin r.todo PROVE x \in Ancestry[o]
    <3>1. x \in Blocks /\ Number[x] <= Number[o]
      BY <1>n, <1>1, <1>2, <1>3, <2>1
    <3> QED BY <1>3, <2>1, <3>1, AncestryOrdered
  <2>2. o \in Ancestry[o]
    BY <1>n, <1>3
  <2> QED BY <2>1, <2>2 DEF o
<1>6. ASSUME NEW x \in Ancestry[new], NEW y \in q.todo, Number[x] >= Number[y] PROVE x \in q.todo
  <2>1. x \in r.todo /\ y \in r.todo /\ y # o /\ x \in Blocks /\ y \in Blocks
    BY <1>n, <1>1, <1>3, <1>6 DEF o
  <2>2. ASSUME x = o PROVE FALSE
    <3>1. Number[x] = Number[y]
      BY <1>n, <1>2, <1>6, <2>1, <2>2
    <3>2. Number[x] <= Number[y] /\ Number[y] <= Number[x] /\ y \in Ancestry[new]
      BY <1>n, <1>1, <2>1, <3>1
    <3>3. y \in Ancestry[o]
      BY <1>3, <1>6, <2>2, <3>2, AncestryOrdered
    <3>4. Number[y] < Number[o]
      BY <1>3, <2>1, <3>3, AncestryBelow
    <3> QED BY <1>n, <1>3, <2>1, <2>2, <3>1, <3>4
  <2> QED BY <2>1, <2>2 DEF o
<1>7. CASE q.todo = {}
  BY <1>1, <1>2, <1>3, <1>4, <1>7 DEF Path, o, new
<1>8. CASE q.todo # {}
  <2>1. ASSUME o = new PROVE FALSE
    <3>1. PICK y \in q.todo : TRUE
      BY <1>8
    <3>2. y \in r.todo /\ y # o /\ y \in Ancestry[new] /\ y \in Blocks
      BY <1>n, <1>1, <1>3, <3>1 DEF o
    <3>3. Number[y] < Number[new] /\ Number[o] <= Number[y]
      BY <1>2, <1>3, <2>1, <3>2, AncestryBelow
    <3> QED BY <1>n, <1>3, <2>1, <3>2, <3>3
  <2>2. new \in q.todo /\ q.todo \subseteq Ancestry[new] /\ q.batch[1] = new
    BY <1>1, <2>1 DEF o, new
  <2> QED BY <1>3, <1>4, <1>5, <1>6, <1>8, <2>2 DEF Path, o, new
<1> QED BY <1>7, <1>8

-----------------------------------------------------------------------------
(* The head that a settled chain has. *)

\* The header marker runs ahead of the block marker inside writeHeadBlock only.
Matched ==
  ~raced /\ up =>
    /\ \A w \in Writers : writer[w].pc = "block" => currentHeader = Oldest(writer[w].todo)
    /\ (\A w \in Writers : writer[w].pc # "block") => currentHeader = currentBlock

\* Whatever is stored with its state is no heavier than b, or b is terminal, or a goroutine
\* has yet to compare it with the head.
Heaviest(b) ==
  \A s \in stateDb \ lost :
    \/ db[s] <= db[b]
    \/ TTD # 0 /\ db[b] >= TTD
    \/ \E v \in Writers : writer[v].pc = "choose" /\ BlockOf(v) = s

\* The heaviest block is the head, or the one that a goroutine is making head.
Weighed ==
  ~raced /\ up /\ restarts = 0 =>
    /\ \A w \in Writers : writer[w].pc \in Setting => Heaviest(BlockOf(w))
    /\ (\A w \in Writers : writer[w].pc \notin Setting) => Heaviest(currentBlock)

Led == Leading /\ Matched /\ Weighed

\* A block stays the heaviest while another goroutine, or one that has nothing to
\* compare yet, moves on.
LEMMA HeaviestKept ==
  ASSUME TypeOK, stateDb \ lost \subseteq Stored, NEW b \in Stored, Heaviest(b),
         \A s \in Stored : db'[s] = db[s],
         NEW w \in Writers, writer[w].pc # "choose", NEW r, writer' = [writer EXCEPT ![w] = r],
         \A s \in (stateDb' \ lost') \ (stateDb \ lost) : r.pc = "choose" /\ r.batch[1] = s
  PROVE  Heaviest(b)'
<1>1. \A v \in Writers : writer'[v] = IF v = w THEN r ELSE writer[v]
  BY DEF TypeOK
<1>2. ASSUME NEW s \in stateDb' \ lost'
      PROVE  \/ db'[s] <= db'[b]
             \/ TTD # 0 /\ db'[b] >= TTD
             \/ \E v \in Writers : writer'[v].pc = "choose" /\ writer'[v].batch[1] = s
  <2>1. CASE s \notin stateDb \ lost
    BY <1>1, <1>2, <2>1
  <2>2. CASE s \in stateDb \ lost
    <3>1. db'[s] = db[s] /\ db'[b] = db[b]
      BY <2>2
    <3>2. CASE \E v \in Writers : writer[v].pc = "choose" /\ BlockOf(v) = s
      <4>1. PICK v \in Writers : writer[v].pc = "choose" /\ writer[v].batch[1] = s
        BY <3>2 DEF BlockOf
      <4>2. writer'[v] = writer[v]
        BY <1>1, <4>1
      <4> QED BY <4>1, <4>2
    <3> QED BY <2>2, <3>1, <3>2 DEF Heaviest
  <2> QED BY <2>1, <2>2
<1> QED BY <1>2 DEF Heaviest, BlockOf

\* Up to the comparison a goroutine leaves the heads alone.
LEMMA PlainStep ==
  ASSUME Added, Grounded, Led, NEW w \in Writers, NEW r, writer' = [writer EXCEPT ![w] = r],
         writer[w].pc \in {"idle", "write", "commit"}, r.pc \in {"idle", "write", "commit", "choose"},
         UNCHANGED <<headVars, raced, restarts>>, up, up',
         Stored \subseteq Stored', \A s \in Stored : db'[s] = db[s],
         \A s \in (stateDb' \ lost') \ (stateDb \ lost) : r.pc = "choose" /\ r.batch[1] = s
  PROVE  Led'
<1>t. TypeOK /\ writer \in [Writers -> WriterType] /\ stateDb \ lost \subseteq Stored
  BY DEF Added, TypeOK, Grounded, HeadHasState
<1>1. \A v \in Writers : writer'[v] = IF v = w THEN r ELSE writer[v]
  BY <1>t
<1>2. /\ \A v \in Writers : writer'[v].pc \in Setting => writer[v].pc \in Setting /\ writer'[v] = writer[v]
      /\ \A v \in Writers : writer[v].pc \in Setting => writer'[v] = writer[v]
  BY <1>1 DEF Setting
<1>3. currentBlock' = currentBlock /\ currentHeader' = currentHeader /\ raced' = raced /\ restarts' = restarts
  BY DEF headVars
<1>4. Leading'
  <2>1. ASSUME ~raced
        PROVE  /\ currentBlock' \in Stored'
               /\ \A u \in Writers : writer'[u].pc \in Setting =>
                    /\ \A v \in Writers : writer'[v].pc \in Setting => v = u
                    /\ Path(writer'[u], currentBlock')
    <3>1. currentBlock' \in Stored'
      BY <1>3, <2>1 DEF Led, Leading
    <3>2. ASSUME NEW u \in Writers, writer'[u].pc \in Setting
          PROVE  /\ \A v \in Writers : writer'[v].pc \in Setting => v = u
                 /\ Path(writer'[u], currentBlock')
      <4>1. writer[u].pc \in Setting /\ writer'[u] = writer[u]
        BY <1>2, <3>2
      <4>2. Path(writer[u], currentBlock) /\ \A v \in Writers : writer[v].pc \in Setting => v = u
        BY <2>1, <4>1 DEF Led, Leading
      <4> QED BY <1>2, <1>3, <4>1, <4>2
    <3> QED BY <3>1, <3>2
  <2> QED BY <1>3, <2>1 DEF Leading
<1>5. Matched'
  <2>1. \A v \in Writers : (writer'[v].pc = "block" <=> writer[v].pc = "block")
                              /\ (writer[v].pc = "block" => writer'[v] = writer[v])
    BY <1>1
  <2> QED BY <1>3, <2>1 DEF Led, Matched
<1>6. Weighed'
  <2> SUFFICES ASSUME ~raced, restarts = 0
               PROVE  /\ \A u \in Writers : writer'[u].pc \in Setting => Heaviest(BlockOf(u))'
                      /\ (\A u \in Writers : writer'[u].pc \notin Setting) => Heaviest(currentBlock)'
    BY <1>3 DEF Weighed
  <2>1. ASSUME NEW b \in Stored, Heaviest(b) PROVE Heaviest(b)'
    BY <1>t, <2>1, HeaviestKept, ZenonT(60)
  <2>2. ASSUME NEW u \in Writers, writer'[u].pc \in Setting PROVE Heaviest(BlockOf(u))'
    <3>1. writer[u].pc \in Setting /\ writer'[u] = writer[u]
      BY <1>2, <2>2
    <3>2. Heaviest(BlockOf(u)) /\ BlockOf(u) \in Stored
      BY <3>1 DEF Led, Weighed, Grounded, GroundedBy, BlockOf, Setting
    <3>3. BlockOf(u)' = BlockOf(u)
      BY <3>1 DEF BlockOf
    <3>4. Heaviest(BlockOf(u))' <=> \A s \in stateDb' \ lost' :
             \/ db'[s] <= db'[BlockOf(u)']
             \/ TTD # 0 /\ db'[BlockOf(u)'] >= TTD
             \/ \E v \in Writers : writer'[v].pc = "choose" /\ BlockOf(v)' = s
      BY DEF Heaviest
    <3> QED BY <2>1, <3>2, <3>3, <3>4 DEF Heaviest
  <2>3. ASSUME \A u \in Writers : writer'[u].pc \notin Setting PROVE Heaviest(currentBlock)'
    <3>1. \A u \in Writers : writer[u].pc \notin Setting
      BY <1>2, <2>3
    <3>2. Heaviest(currentBlock) /\ currentBlock \in Stored
      BY <3>1 DEF Led, Weighed, Leading
    <3> QED BY <1>3, <2>1, <3>2 DEF Heaviest
  <2> QED BY <2>2, <2>3
<1> QED BY <1>4, <1>5, <1>6 DEF Led

\* ReorgNeeded: the block that is left behind is no heavier, and the one that is
\* taken is no lighter or terminal.
LEMMA ReorgFacts ==
  ASSUME TypeOK, NEW b \in Stored, NEW c \in Stored, NEW needed \in ReorgNeeded(c, b)
  PROVE  /\ needed = FALSE => db[b] <= db[c]
         /\ needed = TRUE => (TTD # 0 /\ db[b] >= TTD) \/ db[b] >= db[c]
         /\ db[b] \in Nat /\ db[c] \in Nat
<1>1. db[b] \in Nat /\ db[c] \in Nat /\ TTD \in Nat
  BY TreeAssumption DEF TypeOK, Stored, Absent
<1>2. CASE TTD # 0 /\ db[b] >= TTD
  BY <1>1, <1>2, ZenonT(60) DEF ReorgNeeded
<1>3. CASE ~(TTD # 0 /\ db[b] >= TTD) /\ db[b] # db[c]
  <2>1. needed = (db[b] > db[c])
    BY <1>3, ZenonT(60) DEF ReorgNeeded
  <2>2. CASE db[b] > db[c]
    <3>1. needed = TRUE /\ needed # FALSE
      BY <2>1, <2>2, ZenonT(60)
    <3> QED BY <1>1, <2>2, <3>1
  <2>3. CASE ~(db[b] > db[c])
    <3>1. db[b] <= db[c]
      BY <1>1, <2>3
    <3>2. (db[b] > db[c]) = FALSE
      BY <1>1, <3>1
    <3>3. needed = FALSE /\ needed # TRUE
      BY <2>1, <3>2, ZenonT(60)
    <3> QED BY <1>1, <3>1, <3>3
  <2> QED BY <2>2, <2>3, ZenonT(60)
<1>4. CASE ~(TTD # 0 /\ db[b] >= TTD) /\ db[b] = db[c]
  BY <1>1, <1>4
<1> QED BY <1>2, <1>3, <1>4, ZenonT(60)

\* The comparison with the head.
LEMMA ChooseLed ==
  ASSUME Added, Grounded, Led, NEW w \in Writers, NEW needed \in BOOLEAN, Choose(w, needed)
  PROVE  Led'
<1> DEFINE b == BlockOf(w)
<1>t. /\ TypeOK /\ writer \in [Writers -> WriterType] /\ stateDb \ lost \subseteq Stored /\ DifficultyAddsUp
      /\ currentBlock \in Blocks
  BY DEF Added, TypeOK, Grounded, HeadHasState
<1>1. writer[w].pc = "choose" /\ needed \in ReorgNeeded(currentBlock, b)
  BY DEF Choose
<1>2. b \in Blocks \ {Genesis}
  BY <1>1 DEF Added, Working
<1>3. up /\ up'
  BY <1>1 DEF Led, Leading, Choose
<1>4. /\ currentBlock' = currentBlock /\ currentHeader' = currentHeader /\ restarts' = restarts
      /\ db' = db /\ stateDb' = stateDb /\ lost' = lost /\ Stored' = Stored
  BY DEF Choose, diskVars, headVars, Stored
<1>5. CASE raced'
  BY <1>3, <1>5, ZenonT(60) DEF Led, Leading, Matched, Weighed
<1>6. CASE ~raced'
  <2>1. ~raced /\ \A v \in Writers \ {w} : writer[v].pc \notin Setting
    BY <1>6, ZenonT(60) DEF Choose, Setting
  <2>2. \A v \in Writers : writer[v].pc \notin Setting
    BY <1>1, <2>1 DEF Setting
  <2>3. currentBlock \in Stored /\ currentHeader = currentBlock
    <3>1. \A v \in Writers : writer[v].pc # "block"
      BY <2>2 DEF Setting
    <3> QED BY <1>3, <2>1, <3>1 DEF Led, Leading, Matched
  <2>4. restarts = 0 => Heaviest(currentBlock)
    BY <1>3, <2>1, <2>2 DEF Led, Weighed
  <2>m. needed = FALSE \/ b \in Stored
    BY <1>1, ZenonT(60) DEF ReorgNeeded
  <2>6. \A s \in stateDb \ lost : db[s] \in Nat
    BY <1>t DEF TypeOK, Stored, Absent
  <2>7. b \in Stored =>
          /\ needed = FALSE => db[b] <= db[currentBlock]
          /\ needed = TRUE => (TTD # 0 /\ db[b] >= TTD) \/ db[b] >= db[currentBlock]
          /\ db[b] \in Nat /\ db[currentBlock] \in Nat /\ TTD \in Nat
    BY <1>t, <1>1, <2>3, ReorgFacts, TreeAssumption, ZenonT(60)
  <2>8. CASE needed = FALSE
    <3>1. writer' = [writer EXCEPT ![w] = Idle]
      BY <2>8 DEF Choose, Return
    <3>2. \A v \in Writers : writer'[v] = IF v = w THEN Idle ELSE writer[v]
      BY <1>t, <3>1
    <3>3. \A v \in Writers : writer'[v].pc \notin Setting /\ writer'[v].pc # "block"
      BY <2>2, <3>2 DEF Idle, Setting
    <3>4. Leading' /\ Matched'
      BY <1>3, <1>4, <2>3, <3>3 DEF Leading, Matched
    <3>5. ASSUME restarts = 0, NEW s \in stateDb \ lost
          PROVE  \/ db[s] <= db[currentBlock]
                 \/ TTD # 0 /\ db[currentBlock] >= TTD
                 \/ \E v \in Writers : writer'[v].pc = "choose" /\ writer'[v].batch[1] = s
      <4>1. CASE s = b
        BY <1>t, <2>7, <2>8, <3>5, <4>1
      <4>2. CASE s # b /\ \E v \in Writers : writer[v].pc = "choose" /\ BlockOf(v) = s
        <5>1. PICK v \in Writers : writer[v].pc = "choose" /\ writer[v].batch[1] = s
          BY <4>2 DEF BlockOf
        <5>2. writer'[v] = writer[v]
          BY <3>2, <4>2, <5>1 DEF BlockOf
        <5> QED BY <5>1, <5>2
      <4> QED BY <2>4, <3>5, <4>1, <4>2 DEF Heaviest
    <3>6. restarts = 0 => Heaviest(currentBlock)'
      BY <1>4, <3>5 DEF Heaviest, BlockOf
    <3>7. Weighed'
      BY <1>4, <3>3, <3>6 DEF Weighed
    <3> QED BY <3>4, <3>7 DEF Led
  <2>9. CASE needed = TRUE
    <3>b. b \in Stored
      BY <2>m, <2>9, ZenonT(60)
    <3>c. newChain(currentBlock, b) \cup oldChain(currentBlock, b) \subseteq Stored
      BY <1>t, <2>3, <3>b, AncestryStored DEF newChain, oldChain
    <3> DEFINE todo == Heads(currentBlock, b)
               stage == IF Parent[b] = currentBlock THEN "head" ELSE NextStage(w, todo)
               r == [writer[w] EXCEPT !.pc = stage, !.old = currentBlock, !.todo = todo]
    <3>1. writer' = [writer EXCEPT ![w].pc = stage, ![w].old = currentBlock, ![w].todo = todo]
      BY <2>9, <3>c DEF Choose
    <3>2. todo # {} /\ todo \in SUBSET Blocks
      BY <1>t, <1>2, HeadsIn, ZenonT(60)
    <3>3. stage \in {"head", "prune"}
      BY <3>2 DEF NextStage
    <3> HIDE DEF stage, todo, b
    <3>4. writer' = [writer EXCEPT ![w] = r]
      BY <1>t, <3>1, ZenonT(60)
    <3>5. r.pc = stage /\ r.todo = todo /\ r.batch[1] = b
      BY <1>t DEF WriterType, BlockOf, b
    <3>6. Path(r, currentBlock)
      BY <1>t, <1>2, <3>3, <3>5, PathStart, ZenonT(60) DEF todo
    <3> HIDE DEF r
    <3>7. \A v \in Writers : writer'[v] = IF v = w THEN r ELSE writer[v]
      BY <1>t, <3>4
    <3>8. \A v \in Writers : writer'[v].pc \in Setting <=> v = w
      BY <2>1, <3>3, <3>5, <3>7 DEF Setting
    <3>9. \A v \in Writers : writer'[v].pc # "block"
      BY <2>2, <3>3, <3>5, <3>7 DEF Setting
    <3>10. Leading'
      <4>1. writer'[w] = r
        BY <3>7
      <4> QED BY <1>3, <1>4, <2>3, <3>6, <3>8, <4>1 DEF Leading
    <3>11. Matched'
      BY <1>4, <2>3, <3>9 DEF Matched
    <3>12. ASSUME restarts = 0, NEW s \in stateDb \ lost
           PROVE  \/ db[s] <= db[b]
                  \/ TTD # 0 /\ db[b] >= TTD
                  \/ \E v \in Writers : writer'[v].pc = "choose" /\ writer'[v].batch[1] = s
      <4>1. CASE \E v \in Writers : writer[v].pc = "choose" /\ BlockOf(v) = s
        <5>1. PICK v \in Writers : writer[v].pc = "choose" /\ writer[v].batch[1] = s
          BY <4>1 DEF BlockOf
        <5>2. CASE v = w
          BY <2>6, <5>1, <5>2, <3>12 DEF BlockOf, b
        <5>3. CASE v # w
          BY <3>7, <5>1, <5>3
        <5> QED BY <5>2, <5>3
      <4>2. CASE db[s] <= db[currentBlock] \/ (TTD # 0 /\ db[currentBlock] >= TTD)
        BY <2>6, <2>7, <2>9, <3>12, <3>b, <4>2
      <4> QED BY <2>4, <3>12, <4>1, <4>2 DEF Heaviest
    <3>13. restarts = 0 => Heaviest(BlockOf(w))'
      <4>1. BlockOf(w)' = b
        BY <3>5, <3>7 DEF BlockOf
      <4> QED BY <1>4, <3>12, <4>1 DEF Heaviest, BlockOf
    <3>14. Weighed'
      BY <1>4, <3>8, <3>13 DEF Weighed
    <3> QED BY <3>10, <3>11, <3>14 DEF Led
  <2> QED BY <2>8, <2>9, ZenonT(60)
<1> QED BY <1>5, <1>6

\* The steps of a goroutine that sets the head.
LEMMA SettingLed ==
  ASSUME Added, Grounded, Led, NEW w \in Writers,
         SetCurrentHeader(w) \/ SetCurrentBlock(w) \/ Prune(w) \/ Announce(w)
  PROVE  /\ Led'
         /\ ~raced' /\ currentBlock' # currentBlock =>
              currentBlock' \in Ancestry[currentBlock] \/ Parent[currentBlock'] \in Ancestry[currentBlock]
<1>b. PICK b : b = BlockOf(w)
  OBVIOUS
<1>o. PICK o : o = Oldest(writer[w].todo)
  OBVIOUS
<1>t. /\ TypeOK /\ writer \in [Writers -> WriterType] /\ stateDb \ lost \subseteq Stored /\ DifficultyAddsUp
      /\ currentBlock \in Blocks
  BY DEF Added, TypeOK, Grounded, HeadHasState
<1>1. writer[w].pc \in Setting /\ writer[w].pc # "choose"
  BY DEF SetCurrentHeader, SetCurrentBlock, Prune, Announce, Setting
<1>2. b \in Blocks \ {Genesis} /\ b \in Stored
  BY <1>1, <1>b DEF Added, Working, Grounded, GroundedBy, BlockOf, Setting
<1>3. up /\ up'
  BY <1>1 DEF Led, Leading, SetCurrentHeader, SetCurrentBlock, Prune, Announce, procVars, Setting
<1>4. raced' = raced /\ restarts' = restarts /\ db' = db /\ stateDb' = stateDb /\ lost' = lost /\ Stored' = Stored
  BY DEF SetCurrentHeader, SetCurrentBlock, Prune, Announce, procVars, diskVars, Stored
<1>5. CASE raced
  BY <1>3, <1>4, <1>5, ZenonT(60) DEF Led, Leading, Matched, Weighed
<1>6. CASE ~raced
  <2>1. /\ currentBlock \in Stored /\ \A v \in Writers : writer[v].pc \in Setting => v = w
        /\ Path(writer[w], currentBlock)
    BY <1>1, <1>6, ZenonT(60) DEF Led, Leading
  <2>2. restarts = 0 => Heaviest(b)
    BY <1>1, <1>3, <1>6, <1>b DEF Led, Weighed
  <2>3. ASSUME NEW r, writer' = [writer EXCEPT ![w] = r]
        PROVE  /\ \A v \in Writers : writer'[v] = IF v = w THEN r ELSE writer[v]
               /\ \A v \in Writers : writer'[v].pc \in Setting => v = w
               /\ \A v \in Writers : writer'[v].pc = "block" => v = w
               /\ restarts = 0 => Heaviest(b)'
    <3>1. \A v \in Writers : writer'[v] = IF v = w THEN r ELSE writer[v]
      BY <1>t, <2>3
    <3>2. \A v \in Writers : writer'[v].pc \in Setting => v = w
      BY <2>1, <3>1
    <3>3. restarts = 0 => Heaviest(b)'
      BY <1>t, <1>1, <1>2, <1>4, <2>2, <2>3, HeaviestKept, ZenonT(60)
    <3> QED BY <3>1, <3>2, <3>3 DEF Setting
  <2>4. ASSUME NEW r, writer' = [writer EXCEPT ![w] = r], r.pc \in Setting, r.batch = writer[w].batch,
               currentBlock' \in Stored, Path(r, currentBlock'),
               r.pc = "block" => currentHeader' = Oldest(r.todo),
               r.pc # "block" => currentHeader' = currentBlock'
        PROVE  Led'
    <3>1. writer'[w] = r /\ BlockOf(w)' = b
      <4>1. writer'[w] = r
        BY <1>t, <2>4
      <4> QED BY <1>b, <2>4, <4>1 DEF BlockOf
    <3>2. Leading'
      BY <1>3, <1>4, <2>3, <2>4, <3>1, ZenonT(60) DEF Leading
    <3>3. Matched'
      BY <2>3, <2>4, <3>1, ZenonT(60) DEF Matched
    <3>4. restarts = 0 => Heaviest(BlockOf(w))'
      BY <2>3, <2>4, <3>1, ZenonT(60) DEF Heaviest
    <3>5. Weighed'
      BY <1>4, <2>3, <2>4, <3>1, <3>4, ZenonT(60) DEF Weighed
    <3> QED BY <3>2, <3>3, <3>5 DEF Led
  <2>5. CASE SetCurrentHeader(w)
    <3> DEFINE r == [writer[w] EXCEPT !.pc = "block"]
    <3>1. writer' = [writer EXCEPT ![w] = r]
      BY <1>t, <2>5 DEF SetCurrentHeader, Goto
    <3>2. r.pc = "block" /\ r.batch = writer[w].batch /\ r.todo = writer[w].todo
      BY <1>t DEF WriterType
    <3>3. currentBlock' = currentBlock /\ currentHeader' = Oldest(r.todo) /\ writer[w].pc = "head"
      BY <2>5, <3>2 DEF SetCurrentHeader
    <3> HIDE DEF r
    <3>4. Path(r, currentBlock')
      BY <2>1, <3>2, <3>3 DEF Path
    <3> QED BY <2>1, <2>4, <3>1, <3>2, <3>3, <3>4, ZenonT(60) DEF Setting
  <2>6. CASE SetCurrentBlock(w)
    <3> DEFINE left == writer[w].todo \ {o}
               stage == NextStage(w, left)
               r == [writer[w] EXCEPT !.pc = stage, !.todo = left]
    <3>1. writer' = [writer EXCEPT ![w] = r] /\ writer[w].pc = "block"
      BY <1>t, <1>o, <2>6, ZenonT(60) DEF SetCurrentBlock
    <3>2. stage \in {"announce", "prune", "head"} /\ (stage = "announce" <=> left = {})
      BY DEF NextStage
    <3> HIDE DEF stage
    <3>3. r.pc = stage /\ r.batch = writer[w].batch /\ r.todo = left
      BY <1>t DEF WriterType
    <3>4. currentBlock' = o /\ currentHeader' = currentHeader /\ currentHeader = o
      BY <1>3, <1>6, <1>o, <2>6, <3>1 DEF SetCurrentBlock, Led, Matched
    <3> HIDE DEF r
    <3>5. /\ Path(r, o) /\ o \in Ancestry[b]
          /\ o \in Ancestry[currentBlock] \/ Parent[o] \in Ancestry[currentBlock]
      <4>1. writer[w].batch[1] = b
        BY <1>b DEF BlockOf
      <4> QED BY <1>t, <1>2, <1>o, <2>1, <3>1, <3>2, <3>3, <4>1, PathNext, ZenonT(60)
    <3>6. o \in Stored
      BY <1>t, <1>2, <3>5, AncestryStored
    <3>7. Led'
      BY <2>4, <3>1, <3>2, <3>3, <3>4, <3>5, <3>6, ZenonT(60) DEF Setting
    <3> QED BY <3>4, <3>5, <3>7
  <2>7. CASE Prune(w)
    <3> DEFINE r == [writer[w] EXCEPT !.pc = "head"]
    <3>1. writer' = [writer EXCEPT ![w] = r] /\ writer[w].pc = "prune"
      BY <1>t, <2>7 DEF Prune, Goto
    <3>2. r.pc = "head" /\ r.batch = writer[w].batch /\ r.todo = writer[w].todo
      BY <1>t DEF WriterType
    <3> HIDE DEF r
    <3>3. currentBlock' = currentBlock /\ currentHeader' = currentHeader
      BY <2>7, ZenonT(60) DEF Prune, headVars
    <3>4. currentHeader = currentBlock
      <4>1. \A v \in Writers : writer[v].pc # "block"
        BY <2>1, <3>1 DEF Setting
      <4> QED BY <1>3, <1>6, <4>1, ZenonT(60) DEF Led, Matched
    <3>5. Path(r, currentBlock')
      BY <2>1, <3>1, <3>2, <3>3, ZenonT(60) DEF Path
    <3> QED BY <2>1, <2>4, <3>1, <3>2, <3>3, <3>4, <3>5, ZenonT(60) DEF Setting
  <2>8. CASE Announce(w)
    <3>1. writer' = [writer EXCEPT ![w] = Idle] /\ writer[w].pc = "announce"
      BY <2>8 DEF Announce, Return
    <3>2. currentBlock' = currentBlock /\ currentHeader' = currentHeader
      BY <2>8 DEF Announce, headVars
    <3>3. currentBlock = b
      BY <1>b, <2>1, <3>1 DEF Path, BlockOf
    <3>4. currentHeader = currentBlock
      <4>1. \A v \in Writers : writer[v].pc # "block"
        BY <2>1, <3>1 DEF Setting
      <4> QED BY <1>3, <1>6, <4>1 DEF Led, Matched
    <3>5. \A v \in Writers : writer'[v].pc \notin Setting /\ writer'[v].pc # "block"
      <4>1. \A v \in Writers : writer'[v] = IF v = w THEN Idle ELSE writer[v]
        BY <1>t, <3>1
      <4> QED BY <2>1, <4>1 DEF Idle, Setting
    <3>6. Leading' /\ Matched'
      BY <1>3, <1>4, <2>1, <3>2, <3>4, <3>5, ZenonT(60) DEF Leading, Matched
    <3>7. restarts = 0 => Heaviest(currentBlock)'
      BY <2>3, <3>1, <3>2, <3>3, ZenonT(60) DEF Heaviest
    <3>8. Weighed'
      BY <1>4, <3>5, <3>7 DEF Weighed
    <3> QED BY <3>2, <3>6, <3>8, ZenonT(60) DEF Led
  <2> QED BY <2>5, <2>6, <2>7, <2>8, ZenonT(60)
<1> QED BY <1>5, <1>6

\* Nothing is being written at first, and the genesis block is alone.
LEMMA InitLed == Init => Led
<1> SUFFICES ASSUME Init PROVE Led
  OBVIOUS
<1>1. \A w \in Writers : writer[w].pc = "idle"
  BY DEF Init, Idle
<1>2. currentBlock \in Stored
  BY TreeAssumption DEF Init, Stored, Absent
<1>3. Leading
  BY <1>1, <1>2 DEF Init, Leading, Setting
<1>4. Matched
  BY <1>1 DEF Init, Matched
<1>5. Weighed
  <2>1. stateDb = {currentBlock} /\ db[currentBlock] \in Nat
    BY TreeAssumption DEF Init
  <2>2. Heaviest(currentBlock)
    BY <2>1 DEF Heaviest
  <2> QED BY <1>1, <2>2 DEF Weighed, Setting
<1> QED BY <1>3, <1>4, <1>5 DEF Led

\* Every step keeps the path, and without a race the head moves along it.
LEMMA NextLed ==
  ASSUME Added, Grounded, Led, [Next]_vars
  PROVE  /\ Led'
         /\ up /\ up' /\ ~raced' /\ currentBlock' # currentBlock =>
              currentBlock' \in Ancestry[currentBlock] \/ Parent[currentBlock'] \in Ancestry[currentBlock]
<1>t. /\ TypeOK /\ writer \in [Writers -> WriterType] /\ stateDb \ lost \subseteq Stored /\ DifficultyAddsUp
      /\ db \in [Blocks -> Nat \cup {Absent}]
  BY DEF Added, TypeOK, Grounded, HeadHasState
<1>i. \A w \in Writers : writer[w].pc # "idle" => up
  BY DEF Led, Leading
<1>1. ASSUME Down PROVE Led' /\ ~up'
  <2>1. ~up' /\ \A w \in Writers : writer'[w].pc = "idle"
    BY <1>1 DEF Down, Idle
  <2>2. currentBlock' = currentBlock /\ Stored' = Stored /\ raced' = raced
    BY <1>1 DEF Down, headVars, diskVars, Stored
  <2>3. Leading'
    BY <2>1, <2>2 DEF Led, Leading, Setting
  <2> QED BY <2>1, <2>3, ZenonT(60) DEF Led, Matched, Weighed
<1>2. ASSUME NEW w \in Miners, NEW b \in Blocks, Mined(w, b) PROVE Led' /\ currentBlock' = currentBlock
  <2> DEFINE r == [Idle EXCEPT !.pc = "write", !.batch = <<b>>]
  <2>1. r.pc = "write" /\ w \in Writers
    BY DEF Idle, Writers
  <2>2. /\ writer' = [writer EXCEPT ![w] = r] /\ writer[w].pc = "idle"
        /\ UNCHANGED <<headVars, raced, restarts, db, stateDb, lost>> /\ up /\ up' /\ Stored' = Stored
    BY <1>2 DEF Mined, diskVars, procVars, Stored
  <2> HIDE DEF r
  <2>3. Led'
    BY <2>1, <2>2, PlainStep, ZenonT(60)
  <2> QED BY <2>2, <2>3 DEF headVars
<1>3. ASSUME NEW w \in Importers, NEW batch \in Batches, InsertChain(w, batch)
      PROVE  Led' /\ (~up' \/ currentBlock' = currentBlock)
  <2> DEFINE r == [Idle EXCEPT !.pc = "write", !.batch = batch]
  <2>1. CASE Down
    BY <1>1, <2>1
  <2>2. CASE ~Down
    <3>1. r.pc = "write" /\ w \in Writers
      BY DEF Idle, Writers
    <3>2. /\ writer' = [writer EXCEPT ![w] = r] /\ writer[w].pc = "idle"
          /\ UNCHANGED <<headVars, raced, restarts, db, stateDb, lost>> /\ up /\ up' /\ Stored' = Stored
      BY <1>3, <2>2, ZenonT(60) DEF InsertChain, diskVars, procVars, Stored
    <3> HIDE DEF r
    <3>3. Led'
      BY <3>1, <3>2, PlainStep, ZenonT(60)
    <3> QED BY <3>2, <3>3 DEF headVars
  <2> QED BY <2>1, <2>2
<1>4. ASSUME NEW w \in Writers, WriteBlock(w) PROVE Led' /\ currentBlock' = currentBlock
  <2> DEFINE b == BlockOf(w)
  <2>1. /\ writer[w].pc = "write" /\ UNCHANGED <<headVars, raced, restarts, stateDb, lost>> /\ up /\ up'
    BY <1>4, <1>i DEF WriteBlock, procVars
  <2>2. CASE Parent[b] \notin Stored
    <3>1. writer' = [writer EXCEPT ![w] = Idle] /\ db' = db /\ Stored' = Stored /\ Idle.pc = "idle"
      BY <1>4, <2>2 DEF WriteBlock, Return, Stored, Idle
    <3>2. Led'
      BY <2>1, <3>1, PlainStep, ZenonT(60)
    <3> QED BY <2>1, <3>2 DEF headVars
  <2>3. CASE Parent[b] \in Stored
    <3> DEFINE r == [writer[w] EXCEPT !.pc = "commit"]
    <3>1. writer' = [writer EXCEPT ![w] = r] /\ r.pc = "commit"
      BY <1>t, <1>4, <2>3 DEF WriteBlock, Goto, WriterType
    <3>2. b \in Blocks \ {Genesis} /\ db' = [db EXCEPT ![b] = TdOf(b)] /\ TdOf(b) \in Nat
      <4>1. b \in Blocks \ {Genesis}
        BY <2>1 DEF Added, Working
      <4>2. db[Parent[b]] \in Nat /\ Difficulty[b] \in Nat
        BY <1>t, <2>3, <4>1, TreeAssumption DEF Stored
      <4> QED BY <1>4, <2>3, <4>1, <4>2 DEF WriteBlock, TdOf
    <3>3. \A s \in Stored : db'[s] = db[s]
      BY <1>t, <3>2 DEF DifficultyAddsUp, TdOf, Stored
    <3>4. Stored \subseteq Stored'
      BY <1>t, <3>3 DEF Stored
    <3> HIDE DEF r
    <3>5. Led'
      BY <2>1, <3>1, <3>3, <3>4, PlainStep, ZenonT(60)
    <3> QED BY <2>1, <3>5 DEF headVars
  <2> QED BY <2>2, <2>3
<1>13. ASSUME NEW w \in Writers, WriteFails(w) PROVE Led' /\ currentBlock' = currentBlock
  <2> DEFINE r == [writer[w] EXCEPT !.pc = "commit"]
  <2>1. /\ writer[w].pc = "write" /\ UNCHANGED <<headVars, raced, restarts, db, stateDb>> /\ up /\ up'
        /\ Stored' = Stored /\ lost \subseteq lost'
    BY <1>13, <1>i DEF WriteFails, procVars, Stored
  <2>2. writer' = [writer EXCEPT ![w] = r] /\ r.pc = "commit"
    BY <1>t, <1>13 DEF WriteFails, Goto, WriterType
  <2>3. stateDb' \ lost' \subseteq stateDb \ lost
    BY <2>1
  <2> HIDE DEF r
  <2>4. Led'
    BY <2>1, <2>2, <2>3, PlainStep, ZenonT(60)
  <2> QED BY <2>1, <2>4 DEF headVars
<1>5. ASSUME NEW w \in Writers, CommitState(w) PROVE Led' /\ currentBlock' = currentBlock
  <2> DEFINE r == [writer[w] EXCEPT !.pc = "choose"]
  <2>1. /\ writer[w].pc = "commit" /\ UNCHANGED <<headVars, raced, restarts, db>> /\ up /\ up'
        /\ Stored' = Stored
    BY <1>5, <1>i DEF CommitState, procVars, Stored
  <2>2. writer' = [writer EXCEPT ![w] = r] /\ r.pc = "choose" /\ r.batch = writer[w].batch
    BY <1>t, <1>5 DEF CommitState, Goto, WriterType
  <2>3. \A s \in (stateDb' \ lost') \ (stateDb \ lost) : s = r.batch[1]
    BY <1>5, <2>2 DEF CommitState, RootCommitted, BlockOf
  <2> HIDE DEF r
  <2>4. Led'
    BY <2>1, <2>2, <2>3, PlainStep, ZenonT(60)
  <2> QED BY <2>1, <2>4 DEF headVars
<1>6. ASSUME NEW w \in Writers, CommitFails(w) PROVE Led' /\ currentBlock' = currentBlock
  <2>1. /\ writer[w].pc = "commit" /\ UNCHANGED <<headVars, raced, restarts, db, stateDb, lost>> /\ up /\ up'
        /\ Stored' = Stored
    BY <1>6, <1>i DEF CommitFails, procVars, diskVars, Stored
  <2>2. writer' = [writer EXCEPT ![w] = Idle] /\ Idle.pc = "idle"
    BY <1>6 DEF CommitFails, Return, Idle
  <2>3. Led'
    BY <2>1, <2>2, PlainStep, ZenonT(60)
  <2> QED BY <2>1, <2>3 DEF headVars
<1>7. ASSUME NEW w \in Writers, NEW needed \in BOOLEAN, Choose(w, needed)
      PROVE  Led' /\ currentBlock' = currentBlock
  <2>1. currentBlock' = currentBlock
    BY <1>7 DEF Choose, headVars
  <2> QED BY <1>7, <2>1, ChooseLed
<1>8. ASSUME Stop \/ UNCHANGED vars PROVE Led' /\ currentBlock' = currentBlock
  <2>1. UNCHANGED <<db, stateDb, lost, currentBlock, currentHeader, writer, up, raced, restarts>>
    BY <1>8 DEF Stop, vars, diskVars, headVars, procVars
  <2> QED BY <2>1, ZenonT(60) DEF Led, Leading, Matched, Weighed, Heaviest, BlockOf, Stored
<1>9. ASSUME Restart PROVE Led' /\ ~up
  <2>1. /\ ~up /\ up' /\ restarts' = restarts + 1 /\ restarts \in Nat /\ writer' = writer
        /\ currentBlock' = Genesis /\ currentHeader' = Genesis
    BY <1>9, <1>t, TreeAssumption DEF Restart, GetBlockByHash, GetBlock, Grounded, TypeOK, HeadHasState
  <2>2. \A w \in Writers : writer'[w].pc = "idle"
    BY <2>1 DEF Led, Leading
  <2>3. Genesis \in Stored'
    BY <1>9, <1>t, TreeAssumption DEF Restart, Stored, DifficultyAddsUp, Absent
  <2>4. Leading' /\ Matched'
    BY <2>1, <2>2, <2>3 DEF Leading, Matched, Setting
  <2>5. Weighed'
    BY <2>1 DEF Weighed
  <2> QED BY <2>1, <2>4, <2>5 DEF Led
<1>10. ASSUME StopFlush \/ Crash PROVE Led' /\ ~up'
  BY <1>1, <1>10 DEF StopFlush, Crash
<1>11. CASE \E w \in Writers : SetCurrentHeader(w) \/ SetCurrentBlock(w) \/ Prune(w) \/ Announce(w)
  BY <1>11, SettingLed
<1>12. CASE \E w \in Writers : WriteBlock(w) \/ WriteFails(w) \/ CommitState(w) \/ CommitFails(w)
              \/ \E needed \in BOOLEAN : Choose(w, needed)
  BY <1>4, <1>5, <1>6, <1>7, <1>12, <1>13
<1> QED BY <1>2, <1>3, <1>8, <1>9, <1>10, <1>11, <1>12, ZenonT(60) DEF Next, Write

\* The whole invariant.
LEMMA LedInvariance == Spec => [](Added /\ Grounded /\ Led)
<1>1. Init => Added /\ Grounded /\ Led
  BY InitAdded, InitGrounded, InitLed
<1>2. Added /\ Grounded /\ Led /\ [Next]_vars => (Added /\ Grounded /\ Led)'
  BY NextAdded, NextGrounded, NextLed
<1> QED BY <1>1, <1>2, PTL DEF Spec

\* Unless two goroutines set the head at once, the markers agree when nothing is
\* being written, and until the first restart no block with its state is heavier
\* than the head, up to the terminal difficulty: ReorgNeeded, reorg and
\* writeHeadBlock for any tree of blocks and any number of writers.
THEOREM HeadsSettle == Spec => []HeadSettled
<1>1. Led => HeadSettled
  <2> SUFFICES ASSUME Led, Quiet, ~raced
               PROVE  /\ currentHeader = currentBlock
                      /\ restarts = 0 => \A b \in stateDb \ lost :
                           db[b] <= db[currentBlock] \/ (TTD # 0 /\ db[currentBlock] >= TTD)
    BY DEF HeadSettled
  <2>1. up /\ \A w \in Writers : writer[w].pc \notin Setting /\ writer[w].pc \notin {"block", "choose"}
    BY DEF Quiet, Setting
  <2>2. currentHeader = currentBlock
    BY <2>1 DEF Led, Matched
  <2>3. restarts = 0 => Heaviest(currentBlock)
    BY <2>1 DEF Led, Weighed
  <2> QED BY <2>1, <2>2, <2>3 DEF Heaviest
<1> QED BY <1>1, LedInvariance, PTL

\* Unless two goroutines set the head at once, a reader sees the head move to an
\* ancestor, or to a child of the head or of an ancestor, and never jump: the
\* order in which reorg calls writeHeadBlock.
THEOREM HeadMovesInOrder == Spec => HeadAdvances
<1>1. Added /\ Grounded /\ Led /\ [Next]_vars =>
        [up /\ up' /\ ~raced' /\ currentBlock' # currentBlock =>
           currentBlock' \in Ancestry[currentBlock] \/ Parent[currentBlock'] \in Ancestry[currentBlock]]_vars
  BY NextLed
<1> QED BY <1>1, LedInvariance, PTL DEF HeadAdvances, Spec
=============================================================================
