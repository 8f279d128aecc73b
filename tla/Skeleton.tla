------------------------------ MODULE Skeleton ------------------------------
(***************************************************************************)
(* oct/downloader/skeleton.go: the reverse download of a header chain from *)
(* an announced head down to a block of the local chain, kept on disk as    *)
(* subchains, with the backfiller of beaconsync.go that it suspends and     *)
(* resumes.  One run loop, one goroutine for each request, peers that       *)
(* answer with another chain, not at all or leave, and crashes.             *)
(***************************************************************************)
EXTENDS Integers, Sequences, FiniteSets, FiniteSetsExt, SequencesExt, Functions

CONSTANTS
  Blocks, Genesis, Parent, Number, \* the tree of all headers, Genesis its root
  Stored,         \* the blocks the local chain has at the start
  Peers,
  Nil,            \* no header, no peer
  RequestHeaders, \* headers to a request
  Batches,        \* scratchHeaders / requestHeaders
  MaxAnnounces,   \* bound: announced heads
  MaxFaults,      \* bound: wrong or missing answers and departures
  MaxImports,     \* bound: blocks imported past the backfiller
  MaxCrashes      \* bound: crashes

ASSUME SkeletonAssumption ==
  /\ Genesis \in Blocks /\ Nil \notin Blocks \cup Peers
  /\ Number \in [Blocks -> Nat] /\ Parent \in [Blocks \ {Genesis} -> Blocks]
  /\ Number[Genesis] = 0
  /\ \A b \in Blocks \ {Genesis} : Number[b] = Number[Parent[b]] + 1
  /\ Genesis \in Stored /\ \A b \in Stored \ {Genesis} : Parent[b] \in Stored
  /\ {RequestHeaders, Batches} \subseteq Nat \ {0}
  /\ {MaxAnnounces, MaxFaults, MaxImports, MaxCrashes} \subseteq Nat

VARIABLES
  headers, status,  \* on disk: the headers by number, and the subchains saved
  at, next,         \* where the run loop is, and the head of the cycle to come
  progress,         \* the subchains in memory, the newest first
  linked,           \* the cycle's local: the skeleton has reached the chain
  scratchSpace, scratchOwners, scratchHead,
  requests,         \* requests the loop tracks
  tasks,            \* requests with a goroutine
  idles, peers,
  dropping,         \* peers that are to be disconnected
  filler, filled,   \* the backfiller
  local, current,   \* the blocks of the local chain, and its newest
  stained,          \* a subchain was damaged in one of the ways named below
  announces, faults, imports, crashes

diskVars == <<headers, status>>
scratchVars == <<scratchSpace, scratchOwners, scratchHead>>
peerVars == <<idles, peers, dropping>>
requestVars == <<requests, tasks>>
fillVars == <<filler, filled>>
localVars == <<local, current>>
bounds == <<announces, faults, imports, crashes>>
vars == <<diskVars, at, next, progress, linked, scratchVars, requestVars, peerVars, fillVars, localVars,
          stained, bounds>>

Numbers == {Number[b] : b \in Blocks}
Size == RequestHeaders * Batches
EmptySpace == [i \in 0 .. Size - 1 |-> Nil]
NoOwners == [i \in 0 .. Batches - 1 |-> Nil]

\* Descend[b, n]: the ancestor of b that is n blocks older.
Descend[b \in Blocks, n \in 0 .. Cardinality(Blocks)] ==
  IF n = 0 \/ b = Genesis THEN b ELSE Descend[Parent[b], n - 1]

Single(b) == [head |-> Number[b], tail |-> Number[b], next |-> Parent[b]]
First(chains) == chains[1]
WithFirst(chains, c) == <<c>> \o Tail(chains)
Known(b) == b \in local

-----------------------------------------------------------------------------
(* The backfiller *)

\* resume: a fill that is still running, or still ending, is left alone.
Resumed == filler' = (IF filler = "idle" THEN "filling" ELSE filler)
           /\ filled' = (IF filler = "idle" THEN Nil ELSE filled)

\* The downloader imports the headers of the skeleton in ascending order.
Fill(n) ==
  /\ filler = "filling" /\ n \in First(status).tail .. First(status).head
  /\ headers[n] # Nil /\ headers[n] \notin local /\ Parent[headers[n]] \in local
  /\ local' = local \cup {headers[n]}
  /\ current' = headers[n]
  /\ UNCHANGED <<diskVars, at, next, progress, linked, scratchVars, requestVars, peerVars, fillVars,
                 stained, bounds>>

\* The fill ends, by itself or because it was cancelled.
FillEnd ==
  /\ filler \in {"filling", "cancelled"}
  /\ filler' = "idle" /\ filled' = current
  /\ UNCHANGED <<diskVars, at, next, progress, linked, scratchVars, requestVars, peerVars, localVars,
                 stained, bounds>>

\* Another part of the node imports a block.
LocalImport(b) ==
  /\ imports < MaxImports
  /\ b \notin local /\ Parent[b] \in local
  /\ local' = local \cup {b} /\ current' = b /\ imports' = imports + 1
  /\ UNCHANGED <<diskVars, at, next, progress, linked, scratchVars, requestVars, peerVars, fillVars,
                 stained, announces, faults, crashes>>

-----------------------------------------------------------------------------
(* A cycle begins *)

\* What initSync leaves of the saved subchains: those above the new head go, *)
\* the first of the others is trimmed below it.
Trimmed(chains, n) ==
  LET below == SelectSeq(chains, LAMBDA c : c.tail < n)
  IN IF below = <<>> THEN below
     ELSE WithFirst(below, [First(below) EXCEPT !.head = Min({@, n - 1})])

\* The header at the end of the last subchain is the parent of the new head.
Extends(chains, b) ==
  /\ chains # <<>>
  /\ First(chains).head = Number[b] - 1
  /\ headers[Number[b] - 1] = Parent[b]

initSync(b) ==
  LET chains == Trimmed(status, Number[b])
  IN IF Extends(chains, b) THEN WithFirst(chains, [First(chains) EXCEPT !.head = Number[b]])
     ELSE <<Single(b)>> \o chains

\* The skeleton has reached the local chain.
\* Mutant: older subchains are not looked at.
LinksAnyway(chains) == Known(First(chains).next)
Links(chains) == Len(chains) = 1 /\ Known(First(chains).next)

\* sync up to its loop.  A cycle without a new head continues the saved one,
\* and dies if the header of that head is missing.
Begin ==
  LET chains == IF next = Nil THEN progress ELSE initSync(next)
  IN /\ at = "begin"
     /\ progress' = chains
     /\ headers' = IF next = Nil THEN headers ELSE [headers EXCEPT ![Number[next]] = next]
     /\ status' = chains
     /\ at' = IF headers'[First(chains).head] = Nil THEN "panic" ELSE "top"
     /\ next' = Nil
     /\ scratchSpace' = EmptySpace /\ scratchOwners' = NoOwners
     /\ scratchHead' = First(chains).tail - 1
     /\ linked' = Links(chains)
     /\ IF Links(chains) THEN Resumed ELSE UNCHANGED fillVars
     /\ idles' = peers
     /\ UNCHANGED <<requestVars, peers, dropping, localVars, stained, bounds>>

\* The loop ends; the deferred functions forget the requests and then wait for
\* the backfiller, in Suspend.
Ends(where, head) ==
  /\ at' = where /\ next' = head
  /\ requests' = {} /\ tasks' = {}

-----------------------------------------------------------------------------
(* A cycle ends: the backfiller is suspended and the headers it has filled   *)
(* are deleted.                                                             *)

\* cleanStales deletes from the tail on and may write what it has so far before
\* any number upto; a crash leaves that on disk.
Cleaned(b, upto) ==
  LET c == First(progress)
      n == Number[b]
      past == c.head < n
      end == IF past THEN c.head + 1 ELSE n
      stored == IF end # n THEN [headers EXCEPT ![n] = b] ELSE headers
      deletes == c.tail .. Min({end, upto}) - 1
      done == upto >= end
  IN [headers |-> [k \in Numbers |-> IF k \in deletes THEN Nil ELSE stored[k]],
      chain |-> [head |-> IF past THEN n ELSE c.head,
                 tail |-> IF done THEN n ELSE upto,
                 next |-> IF done THEN Parent[b] ELSE Parent[headers[upto]]]]

\* The defects of cleanStales.  Run to its end, it takes over the parent of a
\* filled header of another chain, and does not write a filled header that is
\* just past the head.  Cut short when more was filled than the skeleton has, it
\* has saved a head whose header is not there.
Damages(b, whole) ==
  LET c == First(progress)
      n == Number[b]
  IN IF whole THEN \/ n = c.head + 1
                   \/ n \in c.tail .. c.head /\ (headers[n] = Nil \/ Parent[headers[n]] # Parent[b])
     ELSE n > c.head

\* Mutant: the status is not saved with the deletions.
StatusKept(b) == status
StatusCleaned(b) == WithFirst(progress, Cleaned(b, Number[b]).chain)

CleanStales(b) ==
  IF b = Nil \/ b = Genesis \/ Number[b] < First(progress).tail
  THEN UNCHANGED <<diskVars, progress, stained>>
  ELSE /\ headers' = Cleaned(b, Number[b]).headers
       /\ progress' = WithFirst(progress, Cleaned(b, Number[b]).chain)
       /\ status' = StatusCleaned(b)
       /\ stained' = (stained \/ Damages(b, TRUE))

Suspend ==
  LET last == IF filler = "idle" THEN filled ELSE current
  IN /\ at \in {"suspend", "stopping"}
     /\ filler' = IF filler = "filling" THEN "cancelled" ELSE filler
     /\ CleanStales(last)
     /\ at' = IF at = "suspend" THEN "begin" ELSE "terminated"
     /\ scratchSpace' = EmptySpace /\ scratchOwners' = NoOwners
     /\ linked' = FALSE
     /\ UNCHANGED <<next, scratchHead, requestVars, peerVars, filled, localVars, bounds>>

\* A crash: what is in memory is lost, the goroutines with it.
Lost ==
  /\ at' = "startup" /\ next' = Nil
  /\ progress' = <<>> /\ linked' = FALSE
  /\ scratchSpace' = EmptySpace /\ scratchOwners' = NoOwners /\ scratchHead' = 0
  /\ requests' = {} /\ tasks' = {}
  /\ idles' = {} /\ peers' = Peers /\ dropping' = {}
  /\ filler' = "idle" /\ filled' = Nil
  /\ crashes' = crashes + 1
  /\ UNCHANGED <<localVars, announces, faults, imports>>

Crash ==
  /\ crashes < MaxCrashes /\ at \notin {"startup", "terminated", "panic"}
  /\ Lost
  /\ UNCHANGED <<diskVars, stained>>

\* A crash between two of cleanStales' writes.
CrashCleaning(upto) ==
  LET b == IF filler = "idle" THEN filled ELSE current
      c == First(progress)
  IN /\ crashes < MaxCrashes /\ at \in {"suspend", "stopping"}
     /\ b # Nil /\ b # Genesis /\ Number[b] >= c.tail
     /\ upto \in c.tail + 1 .. Min({Number[b], c.head + 1}) - 1 /\ headers[upto] # Nil
     /\ headers' = Cleaned(b, upto).headers
     /\ status' = WithFirst(progress, Cleaned(b, upto).chain)
     /\ stained' = (stained \/ Damages(b, FALSE))
     /\ Lost

-----------------------------------------------------------------------------
(* New heads *)

\* startup: the first head must be forced.
Start(b) ==
  /\ at = "startup" /\ announces < MaxAnnounces
  /\ announces' = announces + 1
  /\ at' = "begin" /\ next' = b
  /\ UNCHANGED <<diskVars, progress, linked, scratchVars, requestVars, peerVars, fillVars, localVars,
                 stained, faults, imports, crashes>>

\* processNewHead does not fit b into the newest subchain.
Reorged(b) ==
  LET c == First(progress)
      n == Number[b]
  IN IF c.tail >= n THEN ~(c.head = c.tail /\ headers[n] = b)
     ELSE c.head + 1 < n \/ headers[n - 1] # Parent[b]

NewHead(b, force) ==
  LET again == First(progress).tail >= Number[b]
      chains == WithFirst(progress, [First(progress) EXCEPT !.head = Number[b]])
  IN /\ at = "loop" /\ announces < MaxAnnounces
     /\ announces' = announces + 1
     /\ \/ /\ Reorged(b) /\ force
           /\ IF Number[b] \in First(progress).tail + 1 .. First(progress).head + 1 /\ headers[Number[b] - 1] = Nil
              THEN Ends("panic", Nil) ELSE Ends("suspend", b)
           /\ UNCHANGED <<diskVars, progress, fillVars>>
        \/ /\ Reorged(b) /\ ~force
           /\ at' = "top"
           /\ UNCHANGED <<diskVars, next, progress, requestVars, fillVars>>
        \/ /\ ~Reorged(b)
           /\ IF again THEN UNCHANGED <<diskVars, progress>>
              ELSE /\ headers' = [headers EXCEPT ![Number[b]] = b]
                   /\ progress' = chains /\ status' = chains
           /\ IF linked THEN Resumed ELSE UNCHANGED fillVars
           /\ at' = "top"
           /\ UNCHANGED <<next, requestVars>>
     /\ UNCHANGED <<linked, scratchVars, peerVars, localVars, stained, faults, imports, crashes>>

Terminate ==
  /\ at \in {"startup", "loop"}
  /\ IF at = "startup" THEN at' = "terminated" /\ UNCHANGED <<next, requestVars>>
     ELSE Ends("stopping", Nil)
  /\ UNCHANGED <<diskVars, progress, linked, scratchVars, peerVars, fillVars, localVars, stained, bounds>>

-----------------------------------------------------------------------------
(* Requests *)

\* assignTasks: regions nobody fills, from the newest, go to idle peers.
Assign ==
  LET free == {i \in 0 .. Batches - 1 : scratchOwners[i] = Nil /\ i * RequestHeaders < scratchHead}
      given == {i \in free : Cardinality({j \in free : j <= i}) <= Cardinality(idles)}
      ids == {r.id : r \in tasks}
      fresh == 1 .. Cardinality(ids) + Batches
      id(i) == SetToSortSeq(fresh \ ids, <)[i + 1]
  IN /\ at = "top"
     /\ at' = "loop"
     /\ \/ /\ linked
           /\ UNCHANGED <<requestVars, scratchOwners, idles>>
        \/ /\ ~linked
           /\ \E to \in {f \in [given -> idles] : IsInjective(f)} :
                LET new == {[peer |-> to[i], id |-> id(i), head |-> scratchHead - i * RequestHeaders] : i \in given}
                IN /\ requests' = requests \cup new
                   /\ tasks' = tasks \cup new
                   /\ idles' = idles \ Range(to)
                   /\ scratchOwners' = [i \in DOMAIN NoOwners |-> IF i \in given THEN to[i] ELSE scratchOwners[i]]
     /\ UNCHANGED <<diskVars, next, progress, linked, scratchSpace, scratchHead, peers, dropping, fillVars,
                    localVars, stained, bounds>>

\* The regions of requests that are given up are free again.
\* Mutant: they are not.
NotReleased(rs) == scratchOwners
Released(rs) ==
  [i \in DOMAIN NoOwners |->
     IF \E r \in rs : (scratchHead - r.head) \div RequestHeaders = i THEN Nil ELSE scratchOwners[i]]

\* The request failed or timed out, or its answer was empty, at the wrong
\* height, too short or not a chain; its peer is disconnected.
RequestFails(r) ==
  /\ at = "loop" /\ r \in requests
  /\ faults < MaxFaults \/ r.peer \notin peers
  /\ faults' = IF r.peer \in peers THEN faults + 1 ELSE faults
  /\ requests' = requests \ {r} /\ tasks' = tasks \ {r}
  /\ scratchOwners' = Released({r})
  /\ dropping' = dropping \cup ({r.peer} \cap peers)
  /\ at' = "top"
  /\ UNCHANGED <<diskVars, next, progress, linked, scratchSpace, scratchHead, idles, peers, fillVars,
                 localVars, stained, announces, imports, crashes>>

\* A request that was given up because its peer left ends without an answer.
StaleEnds(r) ==
  /\ r \in tasks \ requests
  /\ tasks' = tasks \ {r}
  /\ UNCHANGED <<diskVars, at, next, progress, linked, scratchVars, requests, peerVars, fillVars, localVars,
                 stained, bounds>>

Leave(p) ==
  LET own == {r \in requests : r.peer = p}
  IN /\ at = "loop" /\ p \in peers
     /\ p \in dropping \/ faults < MaxFaults
     /\ faults' = IF p \in dropping THEN faults ELSE faults + 1
     /\ peers' = peers \ {p} /\ idles' = idles \ {p} /\ dropping' = dropping \ {p}
     /\ requests' = requests \ own
     /\ scratchOwners' = Released(own)
     /\ at' = "top"
     /\ UNCHANGED <<diskVars, next, progress, linked, scratchSpace, scratchHead, tasks, fillVars, localVars,
                    stained, announces, imports, crashes>>

Enter(p) ==
  /\ at = "loop" /\ p \notin peers
  /\ peers' = peers \cup {p} /\ idles' = idles \cup {p}
  /\ at' = "top"
  /\ UNCHANGED <<diskVars, next, progress, linked, scratchVars, requestVars, dropping, fillVars, localVars,
                 stained, bounds>>

-----------------------------------------------------------------------------
(* processResponse *)

\* Subchains that the newest one has overwritten go or are trimmed, and one
\* that continues it is merged into it.
Overlaid(chains) ==
  LET c == First(chains)
      rest == SelectSeq(Tail(chains), LAMBDA o : o.tail < c.tail)
      below == IF rest = <<>> THEN rest
               ELSE WithFirst(rest, [First(rest) EXCEPT !.head = Min({@, c.tail - 1})])
      touches == below # <<>> /\ First(rest).head >= c.tail
      joins == touches /\ headers[c.tail - 1] = c.next
  IN [merged |-> joins,
      chains |-> IF joins
                 THEN <<[c EXCEPT !.tail = First(below).tail, !.next = First(below).next]>> \o Tail(below)
                 ELSE <<c>> \o below]

\* One batch at the front of the scratch space: refused if it is not the chain
\* looked for, otherwise stored down to a block that is known locally.
\* Mutant: the refused region keeps its owner.
RefusedOwned(s) ==
  [s EXCEPT !.scratch = [i \in DOMAIN EmptySpace |-> IF i < RequestHeaders THEN Nil ELSE @[i]],
            !.dropped = {s.owners[0]},
            !.stop = TRUE]
Refused(s) ==
  [s EXCEPT !.scratch = [i \in DOMAIN EmptySpace |-> IF i < RequestHeaders THEN Nil ELSE @[i]],
            !.owners = [@ EXCEPT ![0] = Nil],
            !.dropped = {s.owners[0]},
            !.stop = TRUE]

Consumed(s) ==
  LET batch == {i \in 0 .. RequestHeaders - 1 : s.scratch[i] # Nil}
      links == {i \in batch : Known(Parent[s.scratch[i]])}
      last == IF links = {} THEN Max(batch) ELSE Min(links)
      old == First(s.chains)
      c == [old EXCEPT !.tail = @ - (last + 1), !.next = Parent[s.scratch[last]]]
      disk == [n \in Numbers |-> IF n \in c.tail .. old.tail - 1 THEN s.scratch[old.tail - 1 - n] ELSE s.disk[n]]
      single == Len(s.chains) = 2 /\ s.chains[2].head = s.chains[2].tail
      over == Overlaid(WithFirst(s.chains, c))
  IN IF links # {}
     THEN [s EXCEPT !.chains = <<c>>, !.linked = TRUE, !.stop = TRUE,
                    !.disk = IF single THEN [disk EXCEPT ![s.chains[2].head] = Nil] ELSE disk,
                    !.stain = single /\ s.chains[2].head >= c.tail]
     ELSE [s EXCEPT !.chains = over.chains, !.merged = over.merged, !.stop = over.merged, !.disk = disk,
                    !.scratch = [i \in DOMAIN EmptySpace |->
                                   IF i + RequestHeaders < Size THEN @[i + RequestHeaders] ELSE Nil],
                    !.owners = [i \in DOMAIN NoOwners |-> IF i + 1 < Batches THEN @[i + 1] ELSE Nil],
                    !.head = @ - (last + 1)]

\* The loop over the batches at the front.
Processed(space) ==
  LET start == [chains |-> progress, disk |-> headers, scratch |-> space, owners |-> scratchOwners,
                head |-> scratchHead, linked |-> FALSE, merged |-> FALSE, dropped |-> {}, stain |-> FALSE,
                stop |-> FALSE]
      after[n \in 0 .. Batches] ==
        IF n = 0 THEN start
        ELSE LET s == after[n - 1]
             IN IF s.stop \/ s.scratch[0] = Nil THEN s
                ELSE IF First(s.chains).next # s.scratch[0] THEN Refused(s)
                ELSE Consumed(s)
  IN after[Batches]

\* An answer that is a chain of the right length from b down.
Response(r, b) ==
  LET count == Min({RequestHeaders, r.head})
      from == scratchHead - r.head
      space == [i \in DOMAIN EmptySpace |-> IF i \in from .. from + count - 1 THEN Descend[b, i - from]
                                            ELSE scratchSpace[i]]
      s == Processed(space)
      top == headers[First(progress).head]
      honest == top # Nil /\ Descend[top, First(progress).head - r.head] = b
  IN /\ at = "loop" /\ r \in requests /\ r.peer \in peers /\ Number[b] = r.head
     /\ honest \/ faults < MaxFaults
     /\ faults' = IF honest THEN faults ELSE faults + 1
     /\ idles' = idles \cup {r.peer}
     /\ scratchSpace' = s.scratch /\ scratchOwners' = s.owners /\ scratchHead' = s.head
     /\ headers' = s.disk /\ progress' = s.chains /\ status' = s.chains
     /\ dropping' = dropping \cup (s.dropped \cap peers)
     /\ stained' = (stained \/ s.stain)
     /\ IF s.linked \/ s.merged THEN Ends("suspend", Nil)
        ELSE requests' = requests \ {r} /\ tasks' = tasks \ {r} /\ at' = "top" /\ UNCHANGED next
     /\ UNCHANGED <<linked, peers, fillVars, localVars, announces, imports, crashes>>

\* The answer to a request that was given up because its peer left: it is
\* dropped, and the peer counts as idle.
LateResponse(r) ==
  /\ at = "loop" /\ r \in tasks \ requests
  /\ tasks' = tasks \ {r}
  /\ idles' = idles \cup {r.peer}
  /\ at' = "top"
  /\ UNCHANGED <<diskVars, next, progress, linked, scratchVars, requests, peers, dropping, fillVars, localVars,
                 stained, bounds>>

-----------------------------------------------------------------------------
Init ==
  /\ headers = [n \in Numbers |-> Nil] /\ status = <<>>
  /\ at = "startup" /\ next = Nil
  /\ progress = <<>> /\ linked = FALSE
  /\ scratchSpace = EmptySpace /\ scratchOwners = NoOwners /\ scratchHead = 0
  /\ requests = {} /\ tasks = {}
  /\ idles = {} /\ peers = Peers /\ dropping = {}
  /\ filler = "idle" /\ filled = Nil
  /\ local = Stored /\ current \in {b \in Stored : \A c \in Stored : Number[c] <= Number[b]}
  /\ stained = FALSE
  /\ announces = 0 /\ faults = 0 /\ imports = 0 /\ crashes = 0

Heads == Blocks \ {Genesis}

Next ==
  \/ \E b \in Heads : Start(b) \/ NewHead(b, TRUE) \/ NewHead(b, FALSE) \/ LocalImport(b)
  \/ Begin \/ Assign \/ Suspend \/ Terminate \/ Crash
  \/ \E n \in Numbers : Fill(n) \/ CrashCleaning(n)
  \/ FillEnd
  \/ \E r \in tasks : RequestFails(r) \/ StaleEnds(r) \/ LateResponse(r) \/ \E b \in Heads : Response(r, b)
  \/ \E p \in Peers : Leave(p) \/ Enter(p)

\* The loop goes on, requests do not stay out for ever (each has a timeout), and
\* a peer that is to be disconnected leaves.  Nobody has to announce, to join or
\* to import.
Fairness ==
  /\ WF_vars(Begin \/ Assign \/ Suspend)
  /\ []<>(at # "loop" \/ requests = {})
  /\ \A p \in Peers : WF_vars(p \in dropping /\ Leave(p))

Spec == Init /\ [][Next]_vars /\ Fairness

-----------------------------------------------------------------------------
(* Properties *)

\* A subchain is a contiguous segment of one chain with all its headers on
\* disk, its next header the parent of its tail.
Backed(c) ==
  /\ c.tail \in 1 .. c.head
  /\ \A n \in c.tail .. c.head : headers[n] # Nil /\ Number[headers[n]] = n
  /\ \A n \in c.tail + 1 .. c.head : Parent[headers[n]] = headers[n - 1]
  /\ c.next = Parent[headers[c.tail]]

\* Every subchain saved on disk is a contiguous segment backed by the database,
\* as the comment on its type says (skeleton.go:84), and no two overlap.
SubchainsBacked ==
  /\ \A i \in DOMAIN status : Backed(status[i])
  /\ \A i \in DOMAIN status : i > 1 => status[i].head < status[i - 1].tail

\* The defects named at Damages and Consumed are the only way to lose that, or
\* for the loop to use a header that is missing: no order of announcements,
\* answers, departures, imports, crashes and restarts does.
BackedUnlessStained == stained \/ (SubchainsBacked /\ at # "panic")

\* A region of the scratch space is owned exactly as long as a request for it is
\* out or its headers are there: assignTasks forgets none and asks for none
\* twice, whichever requests were reverted, refused or answered late.
OwnersExact ==
  at = "loop" =>
    \A i \in 0 .. Batches - 1 :
      LET asked == {r \in requests : r.head = scratchHead - i * RequestHeaders}
          there == scratchSpace[i * RequestHeaders] # Nil
      IN /\ Cardinality(asked) <= 1
         /\ scratchOwners[i] # Nil <=> asked # {} \/ there
         /\ asked # {} => ~there /\ \A r \in asked : scratchOwners[i] = r.peer

\* While the backfiller runs, the skeleton it reads from disk without a lock is
\* one complete subchain whose parent is in the local chain (the comment on
\* Bounds; findBeaconAncestor and fetchBeaconHeaders give up otherwise).
BackfillSupplied ==
  filler = "filling" /\ ~stained =>
    /\ Len(status) = 1 /\ Backed(First(status))
    /\ First(status).next \in local

\* Once heads, faults and crashes stop, the skeleton reaches the local chain,
\* unless it has no peer left, has not been given a head or was terminated.
LinksUp == []<>(linked \/ stained \/ peers = {} \/ at \in {"startup", "terminated", "panic"})
=============================================================================
