------------------------------ MODULE Freezer -------------------------------
(***************************************************************************)
(* entity/rawdb/octopus_typedb_freezer.go: the background thread that moves *)
(* old blocks from the key-value store into append-only tables, the files   *)
(* under each table, and what a restart makes of them.  An operating system *)
(* that keeps written bytes in memory until they are synced, so that a      *)
(* killed process loses none and a power loss any suffix of the rest.       *)
(* Blocks off the canonical chain are not represented, so that of what is   *)
(* deleted as a side chain only a canonical block taken for one shows: the  *)
(* store is the set of the canonical numbers it holds.  No caller cuts the  *)
(* tail of a table.                                                         *)
(***************************************************************************)
EXTENDS Integers, Sequences, FiniteSets, FiniteSetsExt, SequencesExt

CONSTANTS
  Order,        \* the tables, in the order freezeRange appends to them
  Size,         \* bytes of an item, by table
  MaxFileSize,  \* bytes of a data file
  BufferLimit,  \* bytes a batch buffers before it writes
  Threshold,    \* recent blocks that are not frozen
  BatchLimit,   \* freezerBatchLimit
  MaxFile,      \* bound: data files of a table, from 0
  MaxHead,      \* bound: blocks of the chain
  MaxCrashes,   \* bound: killed processes and power losses
  MaxFailures,  \* bound: writes, syncs and deletions that fail
  MaxCloses     \* bound: orderly shutdowns

Tables == Range(Order)
Files == 0 .. MaxFile

ASSUME FreezerAssumption ==
  /\ Order # <<>> /\ IsInjective(Order)
  /\ Size \in [Tables -> 1 .. MaxFileSize]
  /\ {BufferLimit, BatchLimit, MaxHead, MaxFile, MaxCrashes, MaxFailures, MaxCloses} \subseteq Nat
  /\ Threshold \in Nat \ {0}

VARIABLES
  tables,   \* files and memory of each table
  frozen,   \* Freezer.frozen
  db, head, \* canonical blocks in the key-value store, number of the newest
  hashes,   \* numbers with a canonical hash in the store
  dropped,  \* history: canonical blocks deleted as dangling
  at,       \* where the freeze thread is; "down" without a process, "refused" when it will not start
  first, limit,   \* range being frozen
  number, pos,    \* next item and table to append
  cur, after,     \* table being committed, and what follows
  todo,           \* tables still to commit or to roll back
  closed,         \* the files are closed, the thread has not seen quit
  unsynced,       \* blocks were deleted after a Sync that failed, and are not all synced since
  stained,        \* a table was damaged in one of the ways named below
  lost,           \* tables of which a power loss has yet to take its part
  crashes, failures, closes

store == <<db, head, hashes, dropped>>
thread == <<first, limit, number, pos, cur, after, todo>>
bounds == <<crashes, failures, closes>>
vars == <<tables, frozen, store, at, thread, closed, unsynced, stained, lost, bounds>>

----------------------------------------------------------------------------
(* A table: the data files and the index as written, how much of each is    *)
(* synced, and in memory the counters and the batch.                        *)
NoFiles == [f \in Files |-> <<>>]

Asleep(t) == [t EXCEPT !.items = 0, !.headId = 0, !.headBytes = 0, !.dataBuffer = <<>>, !.indexBuffer = <<>>,
                       !.curItem = 0]

EmptyTable ==
  [data |-> NoFiles, index |-> <<>>, dataSynced |-> [f \in Files |-> 0], indexSynced |-> 0,
   items |-> 0, headId |-> 0, headBytes |-> 0, dataBuffer |-> <<>>, indexBuffer |-> <<>>, curItem |-> 0]

Blob(k, n) == [byte \in 1 .. Size[k] |-> n]

\* The last entry of an index; the entry every index file starts with is left out of the sequence.
Tip(index) == IF index = <<>> THEN [filenum |-> 0, offset |-> 0] ELSE Last(index)

\* File.Truncate, which also lengthens a file, with zeros.
Resized(file, n) == [byte \in 1 .. n |-> IF byte <= Len(file) THEN file[byte] ELSE -1]

\* The index cut to n entries, the head file to where they end.
Shortened(t, n) ==
  LET index == SubSeq(t.index, 1, n)
      e == Tip(index)
  IN [t EXCEPT !.index = index, !.indexSynced = Min({@, n}), !.items = n,
               !.data[e.filenum] = Resized(@, e.offset), !.dataSynced[e.filenum] = Min({@, e.offset}),
               !.headId = e.filenum, !.headBytes = e.offset]

\* Files that an earlier head left behind are removed.
Without(t, later) ==
  [t EXCEPT !.data = [f \in Files |-> IF f \in later THEN <<>> ELSE @[f]],
            !.dataSynced = [f \in Files |-> IF f \in later THEN 0 ELSE @[f]]]

truncateHead(t, items) ==
  IF t.items <= items THEN t
  ELSE LET cut == Shortened(t, items) IN Without(cut, cut.headId + 1 .. t.headId)

\* Mutant: the head file is not synced.
IndexSynced(t) == [t EXCEPT !.indexSynced = Len(t.index)]
\* The index and the head file; a file that was the head before is closed and never synced.
Synced(t) == [t EXCEPT !.indexSynced = Len(t.index), !.dataSynced[t.headId] = Len(t.data[t.headId])]

\* Entries are dropped from the end until the file the last one names reaches to its offset.
repair(t) ==
  LET backed == {n \in 1 .. Len(t.index) : Len(t.data[t.index[n].filenum]) >= t.index[n].offset}
  IN Synced(Shortened(t, Max({0} \cup backed)))

\* NewFreezer: each table repaired, then all cut to the shortest.
\* Mutant: they are not.
AsRepaired(ts) == [k \in Tables |-> repair(ts[k])]
Aligned(ts) ==
  LET shortest == Min({repair(ts[k]).items : k \in Tables})
  IN [k \in Tables |-> truncateHead(repair(ts[k]), shortest)]

Retrieves(t, k, n) ==
  /\ n < t.items
  /\ LET e == t.index[n + 1]
         start == IF n = 0 \/ t.index[n].filenum # e.filenum THEN 0 ELSE t.index[n].offset
     IN /\ e.offset <= Len(t.data[e.filenum])
        /\ SubSeq(t.data[e.filenum], start + 1, e.offset) = Blob(k, n)

Init ==
  /\ tables = [k \in Tables |-> EmptyTable]
  /\ frozen = 0
  /\ db = {0} /\ head = 0 /\ hashes = {0} /\ dropped = {}
  /\ at = "idle"
  /\ first = 0 /\ limit = 0 /\ number = 0 /\ pos = 1
  /\ cur = Order[1] /\ after = "append" /\ todo = {}
  /\ closed = FALSE /\ unsynced = FALSE /\ stained = FALSE /\ lost = {}
  /\ crashes = 0 /\ failures = 0 /\ closes = 0

----------------------------------------------------------------------------
Running == at \notin {"down", "refused"}

\* external: the chain writes its next block.
NewBlock ==
  /\ Running /\ ~closed /\ head < MaxHead
  /\ head' = head + 1 /\ db' = db \cup {head + 1} /\ hashes' = hashes \cup {head + 1}
  /\ UNCHANGED <<tables, frozen, dropped, at, thread, closed, unsynced, stained, bounds, lost>>

\* The head is found and there are blocks to freeze.
\* Mutant: only when there are more than a batch.
DueLate == head - Threshold > frozen + BatchLimit
Due == head \in db /\ head >= Threshold /\ head - Threshold > frozen

\* freeze finds nothing to do and waits for its timer.
Backoff == at = "idle" /\ ~closed /\ ~Due /\ UNCHANGED vars

\* ModifyAncients resets the batch of every table.
Reset(t) == [t EXCEPT !.dataBuffer = <<>>, !.indexBuffer = <<>>, !.curItem = t.items]

Begin ==
  /\ at = "idle" /\ ~closed /\ Due
  /\ first' = frozen /\ limit' = Min({head - Threshold, frozen + BatchLimit})
  /\ number' = frozen /\ pos' = 1
  /\ tables' = [k \in Tables |-> Reset(tables[k])]
  /\ at' = "append"
  /\ UNCHANGED <<frozen, store, cur, after, todo, closed, unsynced, stained, bounds, lost>>

\* Nothing more is appended: the tables are to be rolled back.
GiveUp == at' = "rollback" /\ todo' = Tables

\* freezeRange and appendItem: the next item of the next table goes to its buffer.  A file without
\* room for it is committed and left first, a buffer that has grown past its limit is committed after.
AppendItem ==
  LET k == Order[pos]
      t == tables[k]
      offset == t.headBytes + Len(t.dataBuffer)
      data == t.dataBuffer \o Blob(k, number)
      entry == [filenum |-> t.headId, offset |-> offset + Size[k]]
  IN /\ at = "append" /\ number <= limit
     /\ IF number \notin db \/ number # t.curItem
        THEN GiveUp /\ UNCHANGED <<tables, number, pos, cur, after>>
        ELSE /\ cur' = k /\ UNCHANGED todo
             /\ IF offset + Size[k] > MaxFileSize
                THEN at' = "data" /\ after' = "advance" /\ UNCHANGED <<tables, number, pos>>
                ELSE /\ tables' = [tables EXCEPT ![k].dataBuffer = data,
                                                 ![k].indexBuffer = Append(@, entry),
                                                 ![k].curItem = @ + 1]
                     /\ pos' = (pos % Len(Order)) + 1
                     /\ number' = IF pos = Len(Order) THEN number + 1 ELSE number
                     /\ at' = IF Len(data) > BufferLimit THEN "data" ELSE "append"
                     /\ after' = "append"
     /\ UNCHANGED <<frozen, store, first, limit, closed, unsynced, stained, bounds, lost>>

\* freezerBatch.commit: once everything is appended, the tables are committed in the order of a map.
\* Their batches are at the same item, appendItem having checked each.
Commit ==
  /\ at = "append" /\ number > limit
  /\ at' = "commit" /\ todo' = Tables /\ after' = "commit"
  /\ UNCHANGED <<tables, frozen, store, first, limit, number, pos, cur, closed, unsynced, stained, bounds, lost>>

CommitTable(k) ==
  /\ at = "commit" /\ k \in todo
  /\ at' = "data" /\ cur' = k /\ todo' = todo \ {k}
  /\ UNCHANGED <<tables, frozen, store, first, limit, number, pos, after, closed, unsynced, stained, bounds, lost>>

Committed ==
  /\ at = "commit" /\ todo = {}
  /\ frozen' = limit + 1
  /\ at' = "sync"
  /\ UNCHANGED <<tables, store, thread, closed, unsynced, stained, bounds, lost>>

\* Bytes of a failed write that the rollback has not removed: its batch changed neither items nor
\* headBytes, so truncateHead found nothing to cut.  What is written next lands behind them.
Torn(t) == Len(t.data[t.headId]) # t.headBytes \/ Len(t.index) # t.items

Wrote(t, bytes) == [t EXCEPT !.data[t.headId] = @ \o bytes]
Indexed(t, entries) == [t EXCEPT !.index = @ \o entries]

\* freezerTableBatch.commit: the data, then the index, then the counters.
WriteData ==
  /\ at = "data"
  /\ tables' = [tables EXCEPT ![cur] = Wrote(@, @.dataBuffer)]
  /\ stained' = (stained \/ Torn(tables[cur]))
  /\ at' = "index"
  /\ UNCHANGED <<frozen, store, thread, closed, unsynced, bounds, lost>>

Counted(t) == [t EXCEPT !.headBytes = @ + Len(t.dataBuffer), !.items = t.curItem,
                        !.dataBuffer = <<>>, !.indexBuffer = <<>>]

WriteIndex ==
  /\ at = "index"
  /\ tables' = [tables EXCEPT ![cur] = Counted(Indexed(@, @.indexBuffer))]
  /\ at' = after
  /\ UNCHANGED <<frozen, store, thread, closed, unsynced, stained, bounds, lost>>

\* A write that fails has written less than it was given.
WriteFails ==
  /\ failures < MaxFailures /\ failures' = failures + 1
  /\ LET t == tables[cur]
     IN \/ /\ at = "data"
           /\ \E n \in 0 .. Len(t.dataBuffer) - 1 :
                tables' = [tables EXCEPT ![cur] = Wrote(@, SubSeq(t.dataBuffer, 1, n))]
        \/ /\ at = "index"
           /\ \E n \in 0 .. Len(t.indexBuffer) - 1 :
                tables' = [tables EXCEPT ![cur] = Indexed(@, SubSeq(t.indexBuffer, 1, n))]
  /\ GiveUp
  /\ UNCHANGED <<frozen, store, first, limit, number, pos, cur, after, closed, unsynced, stained, crashes, closes, lost>>

advanceHead ==
  /\ at = "advance"
  /\ tables' = [tables EXCEPT ![cur] = [Without(@, {@.headId + 1}) EXCEPT !.headId = @ + 1, !.headBytes = 0]]
  /\ at' = "append"
  /\ UNCHANGED <<frozen, store, thread, closed, unsynced, stained, bounds, lost>>

\* The deferred function of ModifyAncients.
Rollback(k) ==
  /\ at = "rollback" /\ k \in todo
  /\ tables' = [tables EXCEPT ![k] = truncateHead(@, frozen)]
  /\ todo' = todo \ {k}
  /\ at' = IF todo = {k} THEN "idle" ELSE at
  /\ UNCHANGED <<frozen, store, first, limit, number, pos, cur, after, closed, unsynced, stained, bounds, lost>>

\* Some written bytes are not synced: those of a file that was the head never will be.
Loose(ts) == \E k \in Tables, f \in Files : ts[k].dataSynced[f] < Len(ts[k].data[f])

Sync ==
  /\ at = "sync" /\ ~closed
  /\ tables' = [k \in Tables |-> Synced(tables[k])]
  /\ unsynced' = (unsynced /\ Loose(tables'))
  /\ at' = "delete"
  /\ UNCHANGED <<frozen, store, thread, closed, stained, bounds, lost>>

\* A Sync that fails, as every one does once Close has taken the files, is only logged.
SyncFails ==
  /\ at = "sync"
  /\ closed \/ failures < MaxFailures
  /\ failures' = IF closed THEN failures ELSE failures + 1
  /\ unsynced' = TRUE
  /\ at' = "delete"
  /\ UNCHANGED <<tables, frozen, store, thread, closed, stained, crashes, closes, lost>>

\* Three batches delete the frozen blocks, their side chains and what is built on these.  The genesis
\* block stays in the store.
Delete ==
  /\ at = "delete"
  /\ db' = db \ (first .. limit \ {0}) /\ hashes' = hashes \ (first .. limit \ {0})
  /\ at' = "side"
  /\ UNCHANGED <<tables, frozen, head, dropped, thread, closed, unsynced, stained, bounds, lost>>

\* Every block still listed under a frozen number is a side chain, and what is listed under the last
\* number is where dangling blocks start.
AfterSide == IF limit \in db \ {0} THEN "dangling" ELSE "idle"
DeleteSide ==
  /\ at = "side"
  /\ db' = db \ (first .. limit \ {0})
  /\ at' = AfterSide
  /\ UNCHANGED <<tables, frozen, head, hashes, dropped, thread, closed, unsynced, stained, bounds, lost>>

\* The children of these blocks, and theirs: with a canonical one, the canonical chain up to the head.
Dangling == {n \in limit + 1 .. head : limit + 1 .. n \subseteq db}
DeleteDangling ==
  /\ at = "dangling"
  /\ db' = db \ Dangling /\ dropped' = dropped \cup Dangling
  /\ at' = "idle"
  /\ UNCHANGED <<tables, frozen, head, hashes, thread, closed, unsynced, stained, bounds, lost>>

\* A batch that is not written is logged, and the next one is made all the same.
DeleteFails ==
  /\ at \in {"delete", "side", "dangling"} /\ failures < MaxFailures
  /\ failures' = failures + 1
  /\ at' = CASE at = "delete" -> "side" [] at = "side" -> AfterSide [] OTHER -> "idle"
  /\ UNCHANGED <<tables, frozen, store, thread, closed, unsynced, stained, crashes, closes, lost>>

\* chainFreezer.Close takes the write lock, closes the files and only then the quit channel.  The
\* thread, unless it is inside ModifyAncients, may be anywhere.
Close ==
  /\ at \in {"idle", "sync", "delete", "side", "dangling"} /\ ~closed
  /\ closes < MaxCloses /\ closes' = closes + 1
  /\ closed' = TRUE
  /\ UNCHANGED <<tables, frozen, store, at, thread, unsynced, stained, crashes, failures, lost>>

\* What a process had in memory is gone.
Gone ==
  /\ at' = "down" /\ closed' = FALSE /\ frozen' = 0
  /\ first' = 0 /\ limit' = 0 /\ number' = 0 /\ pos' = 1
  /\ cur' = Order[1] /\ after' = "append" /\ todo' = {}
  /\ UNCHANGED store

\* The thread sees quit.
Quit ==
  /\ at = "idle" /\ closed
  /\ tables' = [k \in Tables |-> Asleep(tables[k])]
  /\ Gone /\ UNCHANGED <<unsynced, stained, bounds, lost>>

Kill ==
  /\ Running /\ crashes < MaxCrashes /\ crashes' = crashes + 1
  /\ tables' = [k \in Tables |-> Asleep(tables[k])]
  /\ Gone /\ UNCHANGED <<unsynced, stained, failures, closes, lost>>

\* external: what a power loss may leave of a table, any prefix no shorter than what is synced of each file.
Survivors(t) ==
  LET Cached == {f \in Files : t.dataSynced[f] < Len(t.data[f])}
      Kept == {n \in [Cached -> 0 .. Max({0} \cup {Len(t.data[f]) : f \in Cached})] :
                 \A f \in Cached : n[f] \in t.dataSynced[f] .. Len(t.data[f])}
  IN {[Asleep(t) EXCEPT !.data = [f \in Files |-> IF f \in Cached THEN SubSeq(@[f], 1, n[f]) ELSE @[f]],
                        !.index = SubSeq(@, 1, m),
                        !.dataSynced = [f \in Files |-> IF f \in Cached THEN n[f] ELSE @[f]],
                        !.indexSynced = m] :
        n \in Kept, m \in t.indexSynced .. Len(t.index)}

\* Bytes are gone from a file that stopped being the head before a Sync, and the index reaches past it.
RolledLoss(old, new) ==
  \E f \in Files : f < Tip(new.index).filenum /\ Len(new.data[f]) < Len(old.data[f])

PowerLoss ==
  /\ at # "refused" /\ crashes < MaxCrashes /\ crashes' = crashes + 1
  /\ tables' = [k \in Tables |-> Asleep(tables[k])]
  /\ stained' = (stained \/ unsynced)
  /\ lost' = Tables
  /\ Gone /\ UNCHANGED <<unsynced, failures, closes>>

Lose(k) ==
  /\ k \in lost /\ lost' = lost \ {k}
  /\ \E left \in Survivors(tables[k]) :
       /\ tables' = [tables EXCEPT ![k] = left]
       /\ stained' = (stained \/ RolledLoss(tables[k], left))
  /\ UNCHANGED <<frozen, store, at, thread, closed, unsynced, bounds>>

\* NewDatabaseWithFreezer will not start over a gap between the tables and the store.
Gap(ts) ==
  LET length == ts[Order[1]].items
  IN IF length > 0
     THEN \/ ~Retrieves(ts[Order[1]], Order[1], 0)
          \/ length \notin hashes /\ head > length - 1
     ELSE head # 0 /\ 1 \notin hashes

Open ==
  LET opened == Aligned(tables)
  IN /\ at \in {"down", "refused"} /\ lost = {}
     /\ IF Gap(opened)
        THEN /\ tables' = [k \in Tables |-> Asleep(opened[k])]
             /\ at' = "refused" /\ UNCHANGED frozen
        ELSE /\ tables' = opened
             /\ at' = "idle" /\ frozen' = opened[Order[1]].items
     /\ unsynced' = (unsynced /\ Loose(opened))
     /\ UNCHANGED <<store, thread, closed, stained, bounds, lost>>

Work ==
  \/ Begin \/ AppendItem \/ Commit \/ Committed \/ WriteData \/ WriteIndex \/ advanceHead
  \/ \E k \in Tables : CommitTable(k) \/ Rollback(k)
  \/ Sync \/ Delete \/ DeleteSide \/ DeleteDangling

Next ==
  \/ NewBlock \/ Backoff \/ Begin \/ AppendItem \/ Commit \/ Committed
  \/ \E k \in Tables : CommitTable(k) \/ Rollback(k) \/ Lose(k)
  \/ WriteData \/ WriteIndex \/ WriteFails \/ advanceHead
  \/ Sync \/ SyncFails \/ Delete \/ DeleteSide \/ DeleteDangling \/ DeleteFails
  \/ Close \/ Quit \/ Kill \/ PowerLoss \/ Open

\* The thread runs, a closed freezer is left, and a process that is down is started again.
Fairness ==
  /\ WF_vars(Work) /\ WF_vars(Quit)
  /\ []<>~(at = "sync" /\ closed)
  /\ []<>(at # "down")

Spec == Init /\ [][Next]_vars /\ Fairness

----------------------------------------------------------------------------
TypeOK ==
  /\ \A k \in Tables :
       LET t == tables[k]
       IN /\ DOMAIN t.data = Files /\ DOMAIN t.dataSynced = Files
          /\ \A f \in Files : t.dataSynced[f] \in 0 .. Len(t.data[f])
          /\ t.indexSynced \in 0 .. Len(t.index)
          /\ t.headId \in Files /\ {t.items, t.headBytes, t.curItem} \subseteq Nat
  /\ head \in 0 .. MaxHead /\ db \cup dropped \subseteq hashes /\ hashes \subseteq 0 .. head /\ frozen \in 0 .. head
  /\ at \in {"idle", "append", "commit", "data", "index", "advance", "rollback", "sync", "delete",
            "side", "dangling", "down", "refused"}
  /\ todo \subseteq Tables /\ lost \subseteq Tables /\ cur \in Tables /\ pos \in DOMAIN Order

\* Whatever was killed or cut short along the way, once a process runs every canonical block can be read from the
\* store or from each table, and a restart is never refused for a gap: freeze deletes a block only
\* when every table has it synced, and repair does not give back what was synced.  Not so once the
\* tables are stained: a block written behind the bytes of a failed write, deleted after a failed
\* Sync, or in a file that advanceHead closed without a Sync, may be lost.  Nor so for the blocks above
\* frozen after the batch that deletes frozen blocks has failed, which are deleted as dangling.
NothingLost ==
  stained \/ at = "down" \/
    /\ at # "refused"
    /\ \A n \in 0 .. head \ dropped : n \in db \/ \A k \in Tables : Retrieves(tables[k], k, n)

\* While a process runs, each item below frozen is read back from each table as it was written, and
\* outside ModifyAncients no table is longer than another: not after writes that were rolled back, nor
\* after a restart that found the tables, or the files of one, at different lengths.
TablesAgree ==
  stained \/ ~Running \/
    /\ \A k \in Tables, n \in 0 .. frozen - 1 : Retrieves(tables[k], k, n)
    /\ at \in {"idle", "sync", "delete", "side", "dangling"} => \A k \in Tables : tables[k].items = frozen

\* The freezer catches up with the chain, up to the threshold, whatever failed or crashed before, unless
\* blocks it has yet to freeze were deleted as dangling.
CatchesUp == <>[](stained \/ dropped # {} \/ head - Threshold <= frozen)
=============================================================================
