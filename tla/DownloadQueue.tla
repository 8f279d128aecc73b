---------------------------- MODULE DownloadQueue ----------------------------
(***************************************************************************)
(* One sync cycle of oct/downloader once the headers arrive: the queue with *)
(* its result store (queue.go, resultstore.go), a concurrentFetch goroutine *)
(* for each kind of block part, processHeaders feeding the queue,           *)
(* processFullSyncContent emptying it, spawnSync closing it, and peers that *)
(* join, leave, answer late, in part or never.  A header is its number.     *)
(***************************************************************************)
EXTENDS Integers, Sequences, FiniteSets, FiniteSetsExt

CONSTANTS
  Peers,
  Master,     \* the peer synced with; its timeout aborts the cycle
  Kinds,      \* "body", and "receipt" in snap sync
  LastHeader, \* headers 1..LastHeader are to be fetched
  Parts,      \* Parts[h]: the parts of h that are not empty
  CacheSize,  \* slots of the result store
  MaxTake,    \* maxResultsProcess
  MaxQueued,  \* maxQueuedHeaders
  MinFails,   \* a peer that let no more headers than this expire is dropped
  Threshold,  \* blockCacheInitialItems, capped by CacheSize
  MaxJoins    \* bound: registrations of peers, the initial ones included

Headers == 1..LastHeader

ASSUME DownloadAssumption ==
  /\ Master \in Peers
  /\ "body" \in Kinds /\ "nil" \notin Kinds /\ IsFiniteSet(Kinds)
  /\ {LastHeader, CacheSize, MaxTake, MaxQueued} \subseteq Nat \ {0}
  /\ {MinFails, MaxJoins} \subseteq Nat
  /\ Threshold \in 1..CacheSize
  /\ Parts \in [Headers -> SUBSET Kinds]

VARIABLES
  scheduled,       \* the last header scheduled (headerHead)
  taskPool,        \* taskPool[k]: headers whose part k is to be fetched
  taskQueue,       \* taskQueue[k][h]: entries of h in the priority queue
  pendPool,        \* pendPool[k][p]: headers reserved for p
  resultOffset, items, indexIncomplete, throttleThreshold, \* the result store
  closed,
  wakeCh,          \* wakeCh[k]: the one-place channels of the fetchers
  peers,           \* the registered peers
  leaving,         \* unregistered peers whose tasks are not revoked yet
  gone,            \* registered peers whose connection turned out to be closed
  lacking,         \* lacking[p]: headers p answered nothing for
  joins,
  fetcher,         \* fetcher[k]: where the loop is, and its locals
  pending, stales, \* requests waited for, and timed out ones
  timeouts,        \* requests with a timer
  wire,            \* requests whose answer may still be received
  peering,         \* peering[k]: peer events not yet seen by the loop
  finished,
  feeder,          \* processHeaders
  notified,        \* fetchers it has told that the headers have ended
  importer,        \* processFullSyncContent, in Results or importing
  cancelled,       \* cancelCh is closed
  orphaned         \* orphaned[k]: headers an answer for which was ignored

storeVars == <<resultOffset, items, indexIncomplete, throttleThreshold>>
queueVars == <<scheduled, taskPool, taskQueue, pendPool>>
peerVars == <<peers, leaving, gone, lacking, joins, peering>>
requestVars == <<pending, stales, timeouts, wire>>
feederVars == <<feeder, notified>>
syncVars == <<closed, cancelled>>
vars == <<queueVars, storeVars, syncVars, wakeCh, peerVars, fetcher, requestVars, finished,
          feederVars, importer, orphaned>>

-----------------------------------------------------------------------------
(* The result store *)

Absent == {"nil"}
NewResult(h) == Parts[h]
AllDone(h) == items[h] = {}
Completes(store) == resultOffset \in Headers /\ store[resultOffset] = {}
HasCompletedItems == Completes(items)

\* countCompleted goes on from the index known to be complete.
Completed ==
  LET from == resultOffset + indexIncomplete
      upto == {h \in from..LastHeader : h < resultOffset + CacheSize /\ \A g \in from..h : AllDone(g)}
  IN indexIncomplete + Cardinality(upto)

\* Mutant: the known index is not moved with the items.
IndexKept(n) == Completed
IndexMoved(n) == Completed - n

GetCompleted(n) ==
  /\ items' = [h \in Headers |-> IF h < resultOffset + n THEN Absent ELSE items[h]]
  /\ resultOffset' = resultOffset + n
  /\ indexIncomplete' = IndexMoved(n)

-----------------------------------------------------------------------------
(* The queue *)

Tasks(k) == {h \in Headers : taskQueue[k][h] > 0}
Pushed(tasks, hs) == [h \in Headers |-> IF h \in hs THEN tasks[h] + 1 ELSE tasks[h]]
Popped(tasks, hs) == [h \in Headers |-> IF h \in hs THEN tasks[h] - 1 ELSE tasks[h]]
NoHeaders == [p \in Peers |-> {}]

\* active.Signal: Results stops waiting.
Signalled(at) == IF at = "wait" THEN "woken" ELSE at

\* A wake-up that does not wait for room.
Woken == [k \in Kinds |-> IF wakeCh[k] = <<>> THEN <<TRUE>> ELSE wakeCh[k]]

\* Every header becomes a body task, even an empty one; a receipt task only
\* if it has receipts.
IsTask(k, h) == k = "body" \/ k \in Parts[h]

Schedule(n) ==
  LET new(k) == {h \in scheduled + 1 .. n : IsTask(k, h) /\ h \notin taskPool[k]}
  IN /\ scheduled' = n
     /\ taskPool' = [k \in Kinds |-> taskPool[k] \cup new(k)]
     /\ taskQueue' = [k \in Kinds |-> Pushed(taskQueue[k], new(k))]

\* What reserveHeaders does with the tasks of k for a peer p that may take
\* count: in ascending order up to the last one it sends, those in reach of
\* the store get a slot, finished or delivered ones are forgotten, and those p
\* lacks stay.
Reservation(k, p, count) ==
  LET slot(h) == IF items[h] = Absent THEN NewResult(h) ELSE items[h]
      reach == {h \in Tasks(k) : h - resultOffset < throttleThreshold}
      stale == {h \in reach : h < resultOffset}
      noop == {h \in reach \ stale : k \notin slot(h)}
      wanted == {h \in reach \ (stale \cup noop) : h \notin lacking[p]}
      send == {h \in wanted : Cardinality({g \in wanted : g <= h}) <= count}
      full == Cardinality(send) = count
      seen == {h \in reach : full => h <= Max(send)}
  IN [send |-> send,
      drop |-> seen \cap (stale \cup noop),
      items |-> [h \in Headers |-> IF h \in seen \ stale THEN slot(h) ELSE items[h]],
      throttle |-> ~full /\ reach # Tasks(k) /\ seen \subseteq stale \cup noop \cup send]

WithoutPool(k, p) == [pendPool[k] EXCEPT ![p] = {}]

expire(k, p) ==
  /\ taskQueue' = [taskQueue EXCEPT ![k] = Pushed(@, pendPool[k][p])]
  /\ pendPool' = [pendPool EXCEPT ![k] = WithoutPool(k, p)]

\* The headers of hs that an answer with the parts of S satisfies: bodies are
\* matched by position, so the first mismatch ends it.
Accepted(hs, S) ==
  {h \in hs \cap S : {g \in S : g <= h} = {g \in hs : g <= h}}

\* Mutant: what was not accepted is not queued again.
NotReturned(hs, accepted) == {}
Returned(hs, accepted) == hs \ accepted

deliver(k, p, S) ==
  LET hs == pendPool[k][p]
      accepted == Accepted(hs, S)
  IN /\ pendPool' = [pendPool EXCEPT ![k][p] = {}]
     /\ lacking' = [lacking EXCEPT ![p] = IF S = {} THEN @ \cup hs ELSE @]
     /\ items' = [h \in Headers |-> IF h \in accepted THEN items[h] \ {k} ELSE items[h]]
     /\ taskPool' = [taskPool EXCEPT ![k] = @ \ accepted]
     /\ taskQueue' = [taskQueue EXCEPT ![k] = Pushed(@, Returned(hs, accepted))]
     /\ importer' = IF accepted = {} THEN importer ELSE Signalled(importer)

-----------------------------------------------------------------------------
(* concurrentFetch *)

Without(requests, p) == {r \in requests : r.peer # p}
Busy(k) == {r.peer : r \in pending[k] \cup stales[k]}
Running(k) == fetcher[k].at \notin {"ok", "err", "canceled"}
AtStep(step) == [at |-> step, all |-> {}, idles |-> {}, progressed |-> FALSE, throttled |-> FALSE,
                 peer |-> Master, headers |-> {}]
Goes(k, step) == fetcher' = [fetcher EXCEPT ![k] = AtStep(step)]

\* The goroutine ends: it closes its requests and unsubscribes.
Ends(k, how) ==
  /\ Goes(k, how)
  /\ pending' = [pending EXCEPT ![k] = {}]
  /\ stales' = [stales EXCEPT ![k] = {}]
  /\ timeouts' = [timeouts EXCEPT ![k] = {}]
  /\ wire' = [wire EXCEPT ![k] = {}]
  /\ peering' = [peering EXCEPT ![k] = <<>>]

NothingOut(k) == pending[k] = {} /\ finished[k]

\* The head of the loop: end, or look for idle peers, or wait.
FetchTop(k) ==
  /\ fetcher[k].at = "top"
  /\ \/ /\ peers = {}
        /\ Ends(k, "err")
     \/ /\ peers # {} /\ Tasks(k) = {} /\ NothingOut(k)
        /\ Ends(k, "ok")
     \/ /\ peers # {}
        /\ \/ /\ Tasks(k) = {} /\ ~NothingOut(k)
              /\ Goes(k, "select")
           \/ /\ Tasks(k) # {}
              /\ LET idles == peers \ Busy(k)
                 IN fetcher' = [fetcher EXCEPT ![k] = [AtStep("assign") EXCEPT !.all = idles, !.idles = idles]]
        /\ UNCHANGED <<requestVars, peering>>
  /\ UNCHANGED <<queueVars, storeVars, syncVars, wakeCh, peers, leaving, gone, lacking, joins, finished,
                 feederVars, importer, orphaned>>

\* The next idle peer is given as many tasks as it is rated for.
FetchReserve(k, p, count) ==
  LET res == Reservation(k, p, count)
      after == [fetcher[k] EXCEPT !.idles = @ \ {p}]
  IN /\ fetcher[k].at = "assign" /\ p \in fetcher[k].idles
     /\ ~fetcher[k].throttled /\ Tasks(k) # {}
     /\ IF pendPool[k][p] # {}
        THEN /\ fetcher' = [fetcher EXCEPT ![k] = after]
             /\ UNCHANGED <<taskPool, taskQueue, pendPool, items, importer>>
        ELSE /\ items' = res.items
             /\ taskPool' = [taskPool EXCEPT ![k] = @ \ res.drop]
             /\ taskQueue' = [taskQueue EXCEPT ![k] = Popped(@, res.drop \cup res.send)]
             /\ pendPool' = [pendPool EXCEPT ![k][p] = res.send]
             /\ importer' = IF Completes(res.items) THEN Signalled(importer) ELSE importer
             /\ fetcher' = [fetcher EXCEPT ![k] =
                  [after EXCEPT !.at = IF res.send = {} THEN "assign" ELSE "send",
                                !.peer = IF res.send = {} THEN Master ELSE p,
                                !.headers = res.send,
                                !.progressed = @ \/ res.drop # {},
                                !.throttled = res.throttle]]
     /\ UNCHANGED <<scheduled, resultOffset, indexIncomplete, throttleThreshold, syncVars, wakeCh,
                    peerVars, requestVars, finished, feederVars, orphaned>>

NewRequest(k) ==
  LET used == {r.id : r \in pending[k] \cup stales[k] \cup timeouts[k] \cup wire[k]}
  IN [peer |-> fetcher[k].peer, headers |-> fetcher[k].headers,
      id |-> CHOOSE i \in 1 .. Cardinality(used) + 1 : i \notin used]

\* The request is sent, or fails because the connection is gone; it may be that
\* of an earlier registration, if an event about the peer is still to be seen.
FetchSend(k) ==
  LET p == fetcher[k].peer
      req == NewRequest(k)
      next == [fetcher[k] EXCEPT !.at = "assign", !.peer = Master, !.headers = {}]
  IN /\ fetcher[k].at = "send"
     /\ fetcher' = [fetcher EXCEPT ![k] = next]
     /\ \/ /\ p \notin gone
           /\ pending' = [pending EXCEPT ![k] = Without(@, p) \cup {req}]
           /\ timeouts' = [timeouts EXCEPT ![k] = @ \cup {req}]
           /\ wire' = [wire EXCEPT ![k] = @ \cup {req}]
           /\ UNCHANGED <<taskQueue, pendPool, stales, gone>>
        \/ /\ expire(k, p)
           /\ gone' = IF p \in peers /\ \A i \in DOMAIN peering[k] : peering[k][i].peer # p
                      THEN gone \cup {p} ELSE gone
           /\ UNCHANGED requestVars
     /\ UNCHANGED <<scheduled, taskPool, storeVars, syncVars, wakeCh, peers, leaving, lacking, joins,
                    peering, finished, feederVars, importer, orphaned>>

\* All idle peers were tried, or the rest is not worth trying.
FetchAssigned(k) ==
  LET f == fetcher[k]
      unavailable == /\ f.idles = {} /\ ~f.progressed /\ ~f.throttled /\ pending[k] = {}
                     /\ Cardinality(f.all) = Cardinality(peers)
  IN /\ f.at = "assign"
     /\ f.idles = {} \/ f.throttled \/ Tasks(k) = {}
     /\ \/ unavailable /\ Ends(k, "err")
        \/ ~unavailable /\ Goes(k, "select") /\ UNCHANGED <<requestVars, peering>>
     /\ UNCHANGED <<queueVars, storeVars, syncVars, wakeCh, peers, leaving, gone, lacking, joins, finished,
                    feederVars, importer, orphaned>>

FetchCanceled(k) ==
  /\ fetcher[k].at = "select" /\ cancelled
  /\ Ends(k, "canceled")
  /\ UNCHANGED <<queueVars, storeVars, syncVars, wakeCh, peers, leaving, gone, lacking, joins, finished,
                 feederVars, importer, orphaned>>

\* A peer joined, or left: its request is given back and closed, which may
\* come too late for an answer that is on its way already.
FetchPeering(k) ==
  LET event == Head(peering[k])
      out == {r \in pending[k] : r.peer = event.peer}
      closing == out \cup {r \in stales[k] : r.peer = event.peer}
  IN /\ fetcher[k].at = "select" /\ peering[k] # <<>>
     /\ peering' = [peering EXCEPT ![k] = Tail(@)]
     /\ Goes(k, "top")
     /\ \/ event.join /\ UNCHANGED <<requestVars, taskQueue, pendPool>>
        \/ /\ ~event.join
           /\ IF out = {} THEN UNCHANGED <<taskQueue, pendPool>> ELSE expire(k, event.peer)
           /\ pending' = [pending EXCEPT ![k] = @ \ out]
           /\ stales' = [stales EXCEPT ![k] = @ \ closing]
           /\ timeouts' = [timeouts EXCEPT ![k] = @ \ out]
           /\ \E late \in SUBSET closing : wire' = [wire EXCEPT ![k] = @ \ (closing \ late)]
     /\ UNCHANGED <<scheduled, taskPool, storeVars, syncVars, wakeCh, peers, leaving, gone, lacking, joins,
                    finished, feederVars, importer, orphaned>>

\* A request timed out; its peer stays busy until it answers or leaves.  One
\* that kept few headers is dropped, and if it is the master the sync aborted.
FetchTimeout(k, req) ==
  LET aborts == req.peer = Master /\ Master \in peers /\ Cardinality(pendPool[k][Master]) <= MinFails
  IN /\ fetcher[k].at = "select" /\ req \in timeouts[k]
     /\ expire(k, req.peer)
     /\ \/ /\ aborts
           /\ cancelled' = TRUE
           /\ Ends(k, "err")
        \/ /\ ~aborts
           /\ pending' = [pending EXCEPT ![k] = Without(@, req.peer)]
           /\ stales' = [stales EXCEPT ![k] = Without(@, req.peer) \cup {req}]
           /\ timeouts' = [timeouts EXCEPT ![k] = @ \ {req}]
           /\ Goes(k, "top")
           /\ UNCHANGED <<wire, cancelled, peering>>
     /\ UNCHANGED <<scheduled, taskPool, storeVars, closed, wakeCh, peers, leaving, gone, lacking, joins,
                    finished, feederVars, importer, orphaned>>

\* An answer with the parts of the headers S, in time or not.  It counts for
\* whatever its peer is reserved for now, and for nothing if that has left.
FetchResponse(k, req, S) ==
  LET p == req.peer
      known == p \in peers
  IN /\ fetcher[k].at = "select" /\ req \in wire[k] /\ S \subseteq req.headers
     /\ pending' = [pending EXCEPT ![k] = Without(@, p)]
     /\ stales' = [stales EXCEPT ![k] = Without(@, p)]
     /\ timeouts' = [timeouts EXCEPT ![k] = @ \ {req}]
     /\ wire' = [wire EXCEPT ![k] = @ \ {req}]
     /\ IF known /\ pendPool[k][p] # {}
        THEN deliver(k, p, S)
        ELSE UNCHANGED <<taskPool, taskQueue, pendPool, items, lacking, importer>>
     /\ orphaned' = [orphaned EXCEPT ![k] = IF known THEN @ ELSE @ \cup pendPool[k][p]]
     /\ Goes(k, "top")
     /\ UNCHANGED <<scheduled, resultOffset, indexIncomplete, throttleThreshold, syncVars, wakeCh,
                    peers, leaving, gone, joins, peering, finished, feederVars>>

FetchWoken(k) ==
  /\ fetcher[k].at = "select" /\ wakeCh[k] # <<>>
  /\ wakeCh' = [wakeCh EXCEPT ![k] = <<>>]
  /\ finished' = [finished EXCEPT ![k] = @ \/ ~Head(wakeCh[k])]
  /\ Goes(k, "top")
  /\ UNCHANGED <<queueVars, storeVars, syncVars, peerVars, requestVars, feederVars, importer, orphaned>>

-----------------------------------------------------------------------------
(* The peer set.  Unregister tells the fetchers, and only then come the tasks *)
(* of the peer back; the same peer can register again after that.            *)

Told(p, join) ==
  peering' = [k \in Kinds |-> IF Running(k) THEN Append(peering[k], [peer |-> p, join |-> join])
                                            ELSE peering[k]]

Register(p) ==
  /\ p \notin peers \cup leaving /\ joins < MaxJoins
  /\ peers' = peers \cup {p}
  /\ lacking' = [lacking EXCEPT ![p] = {}]
  /\ joins' = joins + 1
  /\ Told(p, TRUE)
  /\ UNCHANGED <<queueVars, storeVars, syncVars, wakeCh, leaving, gone, fetcher, requestVars, finished,
                 feederVars, importer, orphaned>>

Unregister(p) ==
  /\ p \in peers
  /\ peers' = peers \ {p}
  /\ leaving' = leaving \cup {p}
  /\ gone' = gone \ {p}
  /\ Told(p, FALSE)
  /\ UNCHANGED <<queueVars, storeVars, syncVars, wakeCh, lacking, joins, fetcher, requestVars, finished,
                 feederVars, importer, orphaned>>

Revoke(p) ==
  /\ p \in leaving
  /\ leaving' = leaving \ {p}
  /\ taskQueue' = [k \in Kinds |-> Pushed(taskQueue[k], pendPool[k][p])]
  /\ pendPool' = [k \in Kinds |-> WithoutPool(k, p)]
  /\ UNCHANGED <<scheduled, taskPool, storeVars, syncVars, wakeCh, peers, gone, lacking, joins, peering,
                 fetcher, requestVars, finished, feederVars, importer, orphaned>>

-----------------------------------------------------------------------------
(* processHeaders: batches of headers, each followed by a wake-up, then the   *)
(* end, told to one fetcher after the other.                                 *)

feederRest == <<storeVars, syncVars, peerVars, fetcher, requestVars, finished, importer, orphaned>>

FeedSchedule(n) ==
  /\ feeder \in {"select", "batch"} /\ n \in scheduled + 1 .. LastHeader
  /\ \A k \in Kinds : Cardinality(Tasks(k)) < MaxQueued
  /\ Schedule(n)
  /\ feeder' = "batch"
  /\ UNCHANGED <<pendPool, wakeCh, notified, feederRest>>

FeedWake ==
  /\ feeder = "batch"
  /\ wakeCh' = Woken
  /\ feeder' = "select"
  /\ UNCHANGED <<queueVars, notified, feederRest>>

FeedFinish(k) ==
  /\ feeder \in {"select", "finish"} /\ scheduled = LastHeader
  /\ k \notin notified /\ ("body" \in notified \/ k = "body")
  /\ wakeCh[k] = <<>>
  /\ wakeCh' = [wakeCh EXCEPT ![k] = <<FALSE>>]
  /\ notified' = notified \cup {k}
  /\ feeder' = IF notified' = Kinds THEN "ok" ELSE "finish"
  /\ UNCHANGED <<queueVars, feederRest>>

\* It gives up when the sync is cancelled, while it waits or stalls.
FeedCanceled ==
  /\ feeder \in {"select", "batch", "finish"} /\ cancelled
  /\ feeder' = "canceled"
  /\ UNCHANGED <<queueVars, wakeCh, notified, feederRest>>

-----------------------------------------------------------------------------
(* processFullSyncContent: Results, then the import, until nothing comes.     *)

importerRest == <<queueVars, syncVars, peerVars, fetcher, requestVars, finished, feederVars, orphaned>>

ResultsLook ==
  /\ importer = "look"
  /\ importer' = IF HasCompletedItems THEN "take" ELSE "lock"
  /\ UNCHANGED <<storeVars, wakeCh, importerRest>>

ResultsLock ==
  /\ importer = "lock"
  /\ importer' = IF HasCompletedItems \/ closed THEN "take" ELSE "wait"
  /\ UNCHANGED <<storeVars, wakeCh, importerRest>>

ResultsWoken ==
  /\ importer = "woken"
  /\ importer' = IF closed THEN "take" ELSE "look"
  /\ UNCHANGED <<storeVars, wakeCh, importerRest>>

ResultsTake ==
  LET n == Min({MaxTake, Completed})
  IN /\ importer = "take"
     /\ GetCompleted(n)
     /\ importer' = IF n = 0 THEN "calibrateNone" ELSE "calibrate"
     /\ UNCHANGED <<throttleThreshold, wakeCh, importerRest>>

\* The threshold follows the size of the blocks; throttled fetchers wake.
\* Mutant: they do not.
NobodyWoken == wakeCh
ThrottledWoken == Woken

ResultsCalibrate ==
  /\ importer \in {"calibrate", "calibrateNone"}
  /\ \E threshold \in 1..CacheSize : throttleThreshold' = threshold
  /\ wakeCh' = ThrottledWoken
  /\ importer' = IF importer = "calibrate" THEN "import" ELSE "ok"
  /\ UNCHANGED <<resultOffset, items, indexIncomplete, importerRest>>

Import ==
  /\ importer = "import"
  /\ importer' \in {"look", "err"}
  /\ UNCHANGED <<storeVars, wakeCh, importerRest>>

-----------------------------------------------------------------------------
(* spawnSync: the queue is closed when one goroutine is left, and everything *)
(* cancelled after an error or when all have ended.                          *)

Ended == {"ok", "err", "canceled"}
Outcomes == {<<"feeder", feeder>>, <<"importer", importer>>} \cup {<<k, fetcher[k].at>> : k \in Kinds}
Active == {o \in Outcomes : o[2] \notin Ended}
Failed == \E o \in Outcomes : o[2] = "err"

\* Mutant: the queue is closed one goroutine too early.
TwoLeft == Cardinality(Active) <= 2
LastLeft == Cardinality(Active) <= 1

Close ==
  /\ ~closed
  /\ Failed \/ LastLeft
  /\ closed' = TRUE
  /\ importer' = Signalled(importer)
  /\ UNCHANGED <<queueVars, storeVars, cancelled, wakeCh, peerVars, fetcher, requestVars, finished,
                 feederVars, orphaned>>

Cancel ==
  /\ closed /\ ~cancelled
  /\ Failed \/ Active = {}
  /\ cancelled' = TRUE
  /\ UNCHANGED <<queueVars, storeVars, closed, wakeCh, peerVars, fetcher, requestVars, finished,
                 feederVars, importer, orphaned>>

-----------------------------------------------------------------------------

Init ==
  /\ scheduled = 0
  /\ taskPool = [k \in Kinds |-> {}]
  /\ taskQueue = [k \in Kinds |-> [h \in Headers |-> 0]]
  /\ pendPool = [k \in Kinds |-> NoHeaders]
  /\ resultOffset = 1 /\ indexIncomplete = 0
  /\ items = [h \in Headers |-> Absent]
  /\ throttleThreshold = Threshold
  /\ closed = FALSE /\ cancelled = FALSE
  /\ wakeCh = [k \in Kinds |-> <<>>]
  /\ peers \in {S \in SUBSET Peers : Master \in S}
  /\ leaving = {} /\ gone = {} /\ lacking = NoHeaders /\ joins = Cardinality(peers)
  /\ peering = [k \in Kinds |-> <<>>]
  /\ fetcher = [k \in Kinds |-> AtStep("top")]
  /\ pending = [k \in Kinds |-> {}] /\ stales = [k \in Kinds |-> {}]
  /\ timeouts = [k \in Kinds |-> {}] /\ wire = [k \in Kinds |-> {}]
  /\ finished = [k \in Kinds |-> FALSE]
  /\ feeder = "select" /\ notified = {}
  /\ importer = "look"
  /\ orphaned = [k \in Kinds |-> {}]

FetchStep(k) ==
  \/ FetchTop(k) \/ FetchSend(k) \/ FetchAssigned(k)
  \/ \E p \in Peers, count \in Headers : FetchReserve(k, p, count)
  \/ FetchCanceled(k) \/ FetchPeering(k) \/ FetchWoken(k)
  \/ \E req \in timeouts[k] : FetchTimeout(k, req)
  \/ \E req \in wire[k] : \E S \in SUBSET req.headers : FetchResponse(k, req, S)

Next ==
  \/ \E k \in Kinds : FetchStep(k) \/ FeedFinish(k)
  \/ \E p \in Peers : Register(p) \/ Unregister(p) \/ Revoke(p)
  \/ \E n \in Headers : FeedSchedule(n)
  \/ FeedWake \/ FeedCanceled
  \/ ResultsLook \/ ResultsLock \/ ResultsWoken \/ ResultsTake \/ ResultsCalibrate \/ Import
  \/ Close \/ Cancel

Spec == Init /\ [][Next]_vars

-----------------------------------------------------------------------------
Requests == [peer : Peers, headers : SUBSET Headers, id : Nat]

\* Every variable has its type, and no header beyond the store has a slot.
TypeOK ==
  /\ scheduled \in 0..LastHeader
  /\ taskPool \in [Kinds -> SUBSET Headers]
  /\ taskQueue \in [Kinds -> [Headers -> Nat]]
  /\ pendPool \in [Kinds -> [Peers -> SUBSET Headers]]
  /\ resultOffset \in 1..LastHeader + 1 /\ indexIncomplete \in 0..CacheSize
  /\ \A h \in Headers : items[h] # Absent =>
       items[h] \subseteq Kinds /\ h \in resultOffset .. resultOffset + CacheSize - 1
  /\ throttleThreshold \in 1..CacheSize
  /\ wakeCh \in [Kinds -> {<<>>, <<TRUE>>, <<FALSE>>}]
  /\ peers \subseteq Peers /\ leaving \subseteq Peers \ peers
  /\ lacking \in [Peers -> SUBSET Headers]
  /\ \A k \in Kinds : pending[k] \cup stales[k] \cup timeouts[k] \cup wire[k] \subseteq Requests

Settled(k, h) == h < resultOffset \/ (items[h] # Absent /\ k \notin items[h])
Holders(k, h) == {p \in Peers : h \in pendPool[k][p]}

\* No task is lost, doubled or delivered twice: a scheduled header whose part
\* is still missing is queued once or reserved for one peer, a part that has
\* arrived is reserved for nobody, and whatever is reserved has a slot to be
\* delivered to (deliver uses the slot unseen, queue.go:861).
TasksExact ==
  \A k \in Kinds, h \in Headers :
    LET places == taskQueue[k][h] + Cardinality(Holders(k, h))
    IN /\ places \in {0, 1} /\ (places = 1 <=> h \in taskPool[k])
       /\ h <= scheduled /\ IsTask(k, h) /\ ~Settled(k, h) => places = 1
       /\ Holders(k, h) # {} => items[h] # Absent /\ k \in items[h]

\* Results hands out complete blocks only: whatever countCompleted remembers
\* as complete is complete.
CompleteRemembered ==
  \A i \in 0 .. indexIncomplete - 1 : resultOffset + i \in Headers /\ AllDone(resultOffset + i)

\* Nothing left that would wake the loop of k, apart from a new peer event.
Waits(k) ==
  /\ fetcher[k].at = "select" /\ peering[k] = <<>> /\ wakeCh[k] = <<>>
  /\ pending[k] = {} /\ stales[k] = {}

\* Some answer was ignored, because its peer had been unregistered but not yet
\* revoked, and what it was for is still missing.
Neglected == \E k \in Kinds : orphaned[k] \cap taskPool[k] # {}

\* Some task is one that every peer has answered nothing for.
Unavailable == \E k \in Kinds : \E h \in Tasks(k) : \A p \in peers : h \in lacking[p]

\* The download does not stall: while tasks are queued their fetcher waits for
\* an answer, a timeout or an event, or another fetcher does, or Results is
\* about to make room and wake it, or a peer whose connection is closed is about
\* to be unregistered, which tells them all.  Two things may hold the loops up
\* until a peer comes or goes: what a neglected answer was for (Revoke wakes
\* nobody), and a task no peer has: a round that drops an empty block counts as
\* progress, so that it does not end with errPeersUnavailable.
NeverStalls ==
  \A k \in Kinds :
    Waits(k) /\ Tasks(k) # {} =>
      \/ cancelled \/ Failed \/ feeder = "batch" \/ gone # {} \/ Neglected \/ Unavailable
      \/ \E other \in Kinds : ~Waits(other) /\ Running(other)
      \/ importer \in {"calibrate", "import"}
      \/ HasCompletedItems /\ importer \in {"look", "lock", "woken", "take"}

\* A sync whose goroutines all return nil has imported every header, unless some
\* part of one was in a neglected answer.
SyncComplete ==
  (\A o \in Outcomes : o[2] = "ok") => resultOffset = LastHeader + 1 \/ Neglected
=============================================================================
