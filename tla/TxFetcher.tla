------------------------------ MODULE TxFetcher ------------------------------
(* The transaction fetcher, oct/fetcher/tx_fetcher.go.                        *)
(*                                                                            *)
(* One goroutine (loop) owns all the state and serves one event at a time:    *)
(* an announcement, a delivery, a peer's disconnection or one of its two      *)
(* timers.  A hash waits for a broadcast (stage 1), is queued (stage 2), or   *)
(* is being fetched from one peer with the other announcers kept as           *)
(* alternates (stage 3).  Every event handler is one action.                  *)
(*                                                                            *)
(* A Go map entry that is absent or empty is the empty set here: the code     *)
(* deletes an entry when it empties it.  waittime has the keys of waitlist    *)
(* and is not kept apart: an expiry takes any subset of the waiting hashes.   *)
(* Announcements hold whatever passed the pre-filter of Notify, which is racy *)
(* by its own comment (line 221) and so excludes nothing here.                *)
EXTENDS Naturals, FiniteSets

CONSTANTS
  Peers,           \* peer ids
  Hashes,          \* transaction hashes
  None,            \* no peer, no request
  MaxAnnounces,    \* maxTxAnnounces
  MaxRetrievals    \* maxTxRetrievals

ASSUME NoneAssumption == /\ None \notin Peers
                         /\ None \notin [hashes : SUBSET Hashes, stolen : SUBSET Hashes]
ASSUME FiniteAssumption == IsFiniteSet(Hashes)
ASSUME LimitsAssumption == MaxAnnounces \in Nat /\ MaxRetrievals \in Nat \ {0}

VARIABLES
  waitlist,        \* hash -> peers that announced it, stage 1
  waitslots,       \* peer -> hashes it announced that are in stage 1
  announces,       \* peer -> hashes it announced, stages 2 and 3
  announced,       \* hash -> peers to get it from, stage 2
  fetching,        \* hash -> the peer it is being fetched from, stage 3
  requests,        \* peer -> its retrieval in flight
  alternates,      \* hash -> peers to get it from if the fetch fails, stage 3
  waitTimer, waitTrigger,         \* timer armed; its tick waits in the channel
  timeoutTimer, timeoutTrigger,   \* the same for the request timeout
  panicked         \* a panic of the loop was reached

waitVars == <<waitlist, waitslots>>
stageVars == <<announces, announced, fetching, requests, alternates>>
timerVars == <<waitTimer, waitTrigger, timeoutTimer, timeoutTrigger>>
vars == <<waitVars, stageVars, timerVars, panicked>>

Requests == [hashes : SUBSET Hashes, stolen : SUBSET Hashes]

Waiting == {h \in Hashes : waitlist[h] # {}}

(* The hashes a request still owes: not delivered by someone else.            *)
Owed(req) == IF req = None THEN {} ELSE req.hashes \ req.stolen
------------------------------------------------------------------------------
(* scheduleFetches.  A handler hands it stages 2 and 3 as one record, q.  The *)
(* idle active peers are served in the order of a map iteration, here any     *)
(* rank; each takes, up to the limit, the hashes it announced that nobody     *)
(* fetches.                                                                   *)
AtLimit(n) == IF n > MaxRetrievals THEN MaxRetrievals ELSE n

IdlePeer(q, p) == q.requests[p] = None

Servable(q, actives) == {p \in actives : IdlePeer(q, p) /\ q.announces[p] # {}}

Free(q) == {h \in Hashes : q.fetching[h] = None}

Ranks(S) == {r \in [S -> 1..Cardinality(S)] : \A p, o \in S : r[p] = r[o] => p = o}

Allotments(q, actives) ==
  LET S == Servable(q, actives)
      free == Free(q)
      ranks == Ranks(S)
      Left(get, rank, p) == (q.announces[p] \cap free)
                               \ UNION {get[o] : o \in {o \in S : rank[o] < rank[p]}}
  IN  {get \in [S -> SUBSET free] : \E rank \in ranks : \A p \in S :
         /\ get[p] \subseteq Left(get, rank, p)
         /\ Cardinality(get[p]) = AtLimit(Cardinality(Left(get, rank, p)))}

NoArm(q, get) == FALSE

ArmIfIdle(q, get) == /\ \A p \in Peers : q.requests[p] = None
                     /\ \E p \in DOMAIN get : get[p] # {}

scheduleFetches(q, actives, armed, panic) ==
  \E get \in Allotments(q, actives) :
    LET taken == UNION {get[p] : p \in DOMAIN get} IN
    /\ announces' = q.announces
    /\ announced' = [h \in Hashes |-> IF h \in taken THEN {} ELSE q.announced[h]]
    /\ fetching' = [h \in Hashes |-> IF h \in taken THEN CHOOSE p \in DOMAIN get : h \in get[p]
                                                    ELSE q.fetching[h]]
    /\ alternates' = [h \in Hashes |-> IF h \in taken THEN q.announced[h] ELSE q.alternates[h]]
    /\ requests' = [p \in Peers |-> IF p \in DOMAIN get /\ get[p] # {}
                                   THEN [hashes |-> get[p], stolen |-> {}]
                                   ELSE q.requests[p]]
    /\ timeoutTimer' = (armed \/ ArmIfIdle(q, get))
    /\ panicked' = (panicked \/ panic \/ \E h \in taken : q.alternates[h] # {})

(* No scheduling: the handler leaves stages 2 and 3 as q has them.            *)
Settle(q, panic) ==
  /\ announces' = q.announces /\ announced' = q.announced /\ fetching' = q.fetching
  /\ requests' = q.requests /\ alternates' = q.alternates
  /\ panicked' = (panicked \/ panic)
  /\ UNCHANGED timeoutTimer

WithAnnounces(q) == {p \in Peers : q.announces[p] # {}}
------------------------------------------------------------------------------
(* case ann := <-f.notify.  Over the limit the slice keeps want - max hashes, *)
(* whichever come first; at the limit the announcement is dropped whole.      *)
Kept(used, hs) ==
  LET want == used + Cardinality(hs)
  IN  IF want > MaxAnnounces THEN {s \in SUBSET hs : Cardinality(s) = want - MaxAnnounces}
                             ELSE {hs}

NoneDownloading(hs) == {}

Downloading(hs) == {h \in hs : alternates[h] # {}}

Queued(hs) == {h \in hs \ Downloading(hs) : announced[h] # {}}

Join(map, s, p) == [h \in Hashes |-> IF h \in s THEN map[h] \cup {p} ELSE map[h]]

NotifyStages(p, kept) ==
  [announces |-> [announces EXCEPT ![p] = @ \cup Downloading(kept) \cup Queued(kept)],
   announced |-> Join(announced, Queued(kept), p),
   alternates |-> Join(alternates, Downloading(kept), p),
   fetching |-> fetching, requests |-> requests]

IdleWait == Waiting = {}

Notify(p, hs) ==
  LET used == Cardinality(waitslots[p]) + Cardinality(announces[p]) IN
  /\ used < MaxAnnounces
  /\ \E kept \in Kept(used, hs) :
       LET unknown == (kept \ Downloading(kept)) \ Queued(kept)
           q == NotifyStages(p, kept)
       IN  /\ waitlist' = Join(waitlist, unknown, p)
           /\ waitslots' = [waitslots EXCEPT ![p] = @ \cup unknown]
           /\ waitTimer' = (waitTimer \/ (IdleWait /\ unknown # {}))
           /\ IF announces[p] = {} /\ q.announces[p] # {}
              THEN scheduleFetches(q, {p}, timeoutTimer, FALSE)
              ELSE Settle(q, FALSE)
  /\ UNCHANGED <<waitTrigger, timeoutTrigger>>

(* case <-waitTrigger: the expired hashes move to stage 2.                    *)
Rearm(waits) == waits # {}

WaitStages(expired) ==
  [announces |-> [p \in Peers |-> announces[p] \cup {h \in expired : p \in waitlist[h]}],
   announced |-> [h \in Hashes |-> IF h \in expired THEN waitlist[h] ELSE announced[h]],
   alternates |-> alternates, fetching |-> fetching, requests |-> requests]

WaitTrigger(expired) ==
  /\ waitTrigger
  /\ waitTrigger' = FALSE
  /\ waitlist' = [h \in Hashes |-> IF h \in expired THEN {} ELSE waitlist[h]]
  /\ waitslots' = [p \in Peers |-> waitslots[p] \ {h \in expired : p \in waitlist[h]}]
  /\ waitTimer' = (waitTimer \/ Rearm(Waiting \ expired))
  /\ scheduleFetches(WaitStages(expired), UNION {waitlist[h] : h \in expired}, timeoutTimer,
                     \E h \in expired : announced[h] # {})
  /\ UNCHANGED timeoutTrigger

(* case <-timeoutTrigger: what the expired requests still owe goes back to    *)
(* stage 2 without the peer that did not answer; the request stays, empty.    *)
Silent(expired, h) == {p \in expired : h \in Owed(requests[p])}

Lost(expired) == {h \in Hashes : Silent(expired, h) # {}}

TimeoutStages(expired) ==
  [announces |-> [p \in Peers |-> IF p \in expired THEN announces[p] \ Owed(requests[p])
                                                   ELSE announces[p]],
   announced |-> [h \in Hashes |-> IF h \in Lost(expired)
                                   THEN alternates[h] \ Silent(expired, h) ELSE announced[h]],
   alternates |-> [h \in Hashes |-> IF h \in Lost(expired) THEN {} ELSE alternates[h]],
   fetching |-> [h \in Hashes |-> IF h \in Lost(expired) THEN None ELSE fetching[h]],
   requests |-> [p \in Peers |-> IF p \in expired
                                 THEN [hashes |-> {}, stolen |-> requests[p].stolen]
                                 ELSE requests[p]]]

TimeoutTrigger(expired) ==
  LET q == TimeoutStages(expired) IN
  /\ timeoutTrigger
  /\ timeoutTrigger' = FALSE
  /\ scheduleFetches(q, WithAnnounces(q), TRUE, \E h \in Lost(expired) : announced[h] # {})
  /\ UNCHANGED <<waitVars, waitTimer, waitTrigger>>
------------------------------------------------------------------------------
(* case delivery := <-f.cleanup.  A hash fetched from one peer and delivered  *)
(* by another, or broadcast, is marked stolen in the request of the first.    *)
NotStolen(h, o, direct) == FALSE

Stolen(h, o, direct) == fetching[h] # None /\ (fetching[h] # o \/ ~direct)

(* All traces of the delivered hashes hs are removed.                         *)
Untrack(o, hs, direct) ==
  [announces |-> [p \in Peers |-> announces[p] \ hs],
   announced |-> [h \in Hashes |-> IF h \in hs THEN {} ELSE announced[h]],
   alternates |-> [h \in Hashes |-> IF h \in hs THEN {} ELSE alternates[h]],
   fetching |-> [h \in Hashes |-> IF h \in hs THEN None ELSE fetching[h]],
   requests |-> [p \in Peers |-> IF requests[p] = None THEN None
     ELSE [hashes |-> requests[p].hashes,
           stolen |-> requests[p].stolen
                        \cup {h \in hs : fetching[h] = p /\ Stolen(h, o, direct)}]]]

(* A direct reply ends the request of its sender: what it still owed goes     *)
(* back to stage 2, without the sender for the hashes before the last one it  *)
(* delivered.  The order of a request is that of a map iteration and is used  *)
(* only here, so the hashes before the cutoff are any of those owed.          *)
Skipped(req, hs) ==
  LET owed == Owed(req) \ hs
  IN  IF req.hashes \cap hs = {} THEN {owed} ELSE SUBSET owed

(* The hashes handed to their alternates, given who may still serve them.     *)
Alternates(q, o, skipped) ==
  [h \in Hashes |-> IF h \in skipped THEN q.alternates[h] \ {o} ELSE q.alternates[h]]

Back(q, o, hs, skipped) ==
  {h \in Owed(q.requests[o]) \ hs : Alternates(q, o, skipped)[h] # {}}

Finish(q, o, hs, skipped) ==
  LET settled == Owed(q.requests[o])
      alt == Alternates(q, o, skipped)
      back == Back(q, o, hs, skipped)
  IN  [announces |-> [q.announces EXCEPT ![o] = @ \ skipped],
       announced |-> [h \in Hashes |-> IF h \in back THEN alt[h] ELSE q.announced[h]],
       alternates |-> [h \in Hashes |-> IF h \in settled THEN {} ELSE alt[h]],
       fetching |-> [h \in Hashes |-> IF h \in settled THEN None ELSE q.fetching[h]],
       requests |-> [q.requests EXCEPT ![o] = None]]

Cleanup(o, hs, direct) ==
  LET q == Untrack(o, hs \ Waiting, direct)
      panic == \E h \in hs \ Waiting :
                  Stolen(h, o, direct) /\ requests[fetching[h]] = None
  IN
  /\ waitlist' = [h \in Hashes |-> IF h \in hs THEN {} ELSE waitlist[h]]
  /\ waitslots' = [p \in Peers |-> waitslots[p] \ (hs \cap Waiting)]
  /\ IF direct /\ requests[o] # None
     THEN \E skipped \in Skipped(q.requests[o], hs) :
            LET r == Finish(q, o, hs, skipped)
            IN  scheduleFetches(r, WithAnnounces(r), timeoutTimer,
                  panic \/ \E h \in Back(q, o, hs, skipped) : q.announced[h] # {})
     ELSE Settle(q, panic)
  /\ UNCHANGED <<waitTimer, waitTrigger, timeoutTrigger>>

(* case drop := <-f.drop: a peer left, or a request to it failed.             *)
NeverReschedules(req) == FALSE

Reschedules(req) == req # None

KeepAnnounces(p) == announces

ForgetAnnounces(p) == [announces EXCEPT ![p] = {}]

DropStages(p) ==
  LET owed == Owed(requests[p])
      alt(h) == alternates[h] \ {p}
  IN  [announces |-> ForgetAnnounces(p),
       announced |-> [h \in Hashes |-> (IF h \in owed /\ alt(h) # {} THEN alt(h) ELSE announced[h])
                                       \ (IF h \in announces[p] THEN {p} ELSE {})],
       alternates |-> [h \in Hashes |-> IF h \in owed THEN {} ELSE alternates[h]],
       fetching |-> [h \in Hashes |-> IF h \in owed THEN None ELSE fetching[h]],
       requests |-> [requests EXCEPT ![p] = None]]

Drop(p) ==
  LET q == DropStages(p) IN
  /\ waitlist' = [h \in Hashes |-> IF h \in waitslots[p] THEN waitlist[h] \ {p} ELSE waitlist[h]]
  /\ waitslots' = [waitslots EXCEPT ![p] = {}]
  /\ waitTimer' = (waitTimer \/ (waitslots[p] # {} /\ \E h \in Hashes : waitlist'[h] # {}))
  /\ IF Reschedules(requests[p])
     THEN scheduleFetches(q, WithAnnounces(q), TRUE, FALSE)
     ELSE Settle(q, FALSE)
  /\ UNCHANGED <<waitTrigger, timeoutTrigger>>

(* The timers' AfterFunc: the tick is sent on a channel of one slot.          *)
WaitTimerFires ==
  /\ waitTimer /\ ~waitTrigger
  /\ waitTimer' = FALSE /\ waitTrigger' = TRUE
  /\ UNCHANGED <<waitVars, stageVars, timeoutTimer, timeoutTrigger, panicked>>

TimeoutTimerFires ==
  /\ timeoutTimer /\ ~timeoutTrigger
  /\ timeoutTimer' = FALSE /\ timeoutTrigger' = TRUE
  /\ UNCHANGED <<waitVars, stageVars, waitTimer, waitTrigger, panicked>>
------------------------------------------------------------------------------
Init ==
  /\ waitlist = [h \in Hashes |-> {}] /\ waitslots = [p \in Peers |-> {}]
  /\ announces = [p \in Peers |-> {}] /\ announced = [h \in Hashes |-> {}]
  /\ fetching = [h \in Hashes |-> None] /\ alternates = [h \in Hashes |-> {}]
  /\ requests = [p \in Peers |-> None]
  /\ waitTimer = FALSE /\ waitTrigger = FALSE
  /\ timeoutTimer = FALSE /\ timeoutTrigger = FALSE
  /\ panicked = FALSE

Requested == {p \in Peers : requests[p] # None}

Next ==
  \/ \E p \in Peers, hs \in SUBSET Hashes \ {{}} : Notify(p, hs)
  \/ \E expired \in SUBSET Waiting : WaitTrigger(expired)
  \/ \E expired \in SUBSET Requested : TimeoutTrigger(expired)
  \/ \E p \in Peers, hs \in SUBSET Hashes, direct \in BOOLEAN : Cleanup(p, hs, direct)
  \/ \E p \in Peers : Drop(p)
  \/ WaitTimerFires
  \/ TimeoutTimerFires

Spec == Init /\ [][Next]_vars
------------------------------------------------------------------------------
(* Types; a request holds at most maxTxRetrievals hashes.                     *)
TypeOK ==
  /\ waitlist \in [Hashes -> SUBSET Peers] /\ waitslots \in [Peers -> SUBSET Hashes]
  /\ announces \in [Peers -> SUBSET Hashes] /\ announced \in [Hashes -> SUBSET Peers]
  /\ fetching \in [Hashes -> Peers \cup {None}] /\ alternates \in [Hashes -> SUBSET Peers]
  /\ requests \in [Peers -> Requests \cup {None}]
  /\ \A p \in Requested : Cardinality(requests[p].hashes) <= MaxRetrievals
  /\ {waitTimer, waitTrigger, timeoutTimer, timeoutTrigger, panicked} \subseteq BOOLEAN

(* None of the loop's panics (lines 447, 494, 602, 779), nor the use of a     *)
(* request that is gone (line 548), is ever reached, whatever order the       *)
(* announcements, deliveries, drops and timeouts come in.                     *)
NeverPanics == ~panicked

(* Each tracked hash is in exactly one of the three stages, the first         *)
(* invariant the type's comment states (lines 139-141): waiting, queued, or   *)
(* being fetched with its alternates.                                         *)
OneStage ==
  \A h \in Hashes :
    /\ waitlist[h] = {} \/ (announced[h] = {} /\ fetching[h] = None)
    /\ announced[h] = {} \/ fetching[h] = None
    /\ (alternates[h] # {}) <=> (fetching[h] # None)

(* The views by peer agree with the views by hash: what a peer is charged for *)
(* in waitslots and announces is what the hash lists know it announced, and a *)
(* hash is being fetched from a peer exactly while that peer's request owes   *)
(* it, so nothing requested is forgotten or asked of two peers at once (the   *)
(* second invariant of the comment, lines 142-144).                           *)
IndexesAgree ==
  /\ \A p \in Peers, h \in Hashes : (h \in waitslots[p]) <=> (p \in waitlist[h])
  /\ \A p \in Peers : \A h \in announces[p] : p \in announced[h] \cup alternates[h]
  /\ \A p \in Peers, h \in Hashes : (fetching[h] = p) <=> (h \in Owed(requests[p]))

(* While anything waits, or a request is out, a tick of the timer that ends   *)
(* the wait is still to come (lines 430, 467, 519, 625, 664, 808).            *)
TimersArmed ==
  /\ Waiting # {} => waitTimer \/ waitTrigger
  /\ Requested # {} => timeoutTimer \/ timeoutTrigger

(* With no request out, no peer is left with announcements to fetch: every    *)
(* handler that frees a peer or a hash schedules (lines 436, 472, 515, 611,   *)
(* 663), so the fetcher never sits idle on work it could do.                  *)
NeverIdleWithWork ==
  Requested = {} => \A p \in Peers : announces[p] = {}
==============================================================================
