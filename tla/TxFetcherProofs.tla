-------------------------- MODULE TxFetcherProofs --------------------------
(* The fetcher's loop never panics, and its stages and indexes agree, for any *)
(* set of peers, any finite set of hashes and any limits.                     *)
(*                                                                            *)
(* Every handler computes stages 2 and 3 as one record q and passes it to     *)
(* scheduleFetches or Settle.  StageInv states the invariant of such a        *)
(* record: the handlers establish it, and the two lemmas ScheduleKeeps and    *)
(* SettleKeeps carry it over to the next state.                               *)
EXTENDS TxFetcher, FiniteSetTheorems, TLAPS

USE ZenonT(10), SMTT(60)

Small(req) == req # None => Cardinality(req.hashes) <= MaxRetrievals

StageTypes(q) ==
  /\ q.announces \in [Peers -> SUBSET Hashes] /\ q.announced \in [Hashes -> SUBSET Peers]
  /\ q.fetching \in [Hashes -> Peers \cup {None}] /\ q.alternates \in [Hashes -> SUBSET Peers]
  /\ q.requests \in [Peers -> Requests \cup {None}]
  /\ \A p \in Peers : Small(q.requests[p])

Apart(q, waits) ==
  \A h \in Hashes :
    /\ waits[h] = {} \/ (q.announced[h] = {} /\ q.fetching[h] = None)
    /\ q.announced[h] = {} \/ q.fetching[h] = None
    /\ (q.alternates[h] # {}) <=> (q.fetching[h] # None)

Charged(q) == \A p \in Peers : \A h \in q.announces[p] : p \in q.announced[h] \cup q.alternates[h]

Matched(q) == \A p \in Peers, h \in Hashes : (q.fetching[h] = p) <=> (h \in Owed(q.requests[p]))

StageInv(q, waits) == StageTypes(q) /\ Apart(q, waits) /\ Charged(q) /\ Matched(q)

Stages == [announces |-> announces, announced |-> announced, fetching |-> fetching,
           requests |-> requests, alternates |-> alternates]

(* Stage 1: its two indexes and the types of the rest.                        *)
WaitInv ==
  /\ waitlist \in [Hashes -> SUBSET Peers] /\ waitslots \in [Peers -> SUBSET Hashes]
  /\ \A p \in Peers, h \in Hashes : (h \in waitslots[p]) <=> (p \in waitlist[h])

TimerTypes ==
  /\ waitTimer \in BOOLEAN /\ waitTrigger \in BOOLEAN
  /\ timeoutTimer \in BOOLEAN /\ timeoutTrigger \in BOOLEAN

IInv == /\ WaitInv /\ TimerTypes /\ panicked = FALSE
        /\ StageInv(Stages, waitlist)

----------------------------------------------------------------------------
(* The limit of a request: AtLimit is at most maxTxRetrievals.                *)
LEMMA LimitFacts == ASSUME NEW n \in Nat PROVE AtLimit(n) <= MaxRetrievals
  BY LimitsAssumption DEF AtLimit

(* What scheduleFetches hands out: each hash to one peer only, a peer that    *)
(* announced it and has no request, at most maxTxRetrievals at once, and only *)
(* hashes that nobody fetches.                                                *)
LEMMA AllotmentFacts ==
  ASSUME NEW q, NEW actives \in SUBSET Peers, StageTypes(q),
         NEW get \in Allotments(q, actives)
  PROVE  /\ DOMAIN get \subseteq Peers
         /\ \A p \in DOMAIN get : /\ q.requests[p] = None
                                  /\ get[p] \subseteq q.announces[p]
                                  /\ get[p] \subseteq Free(q)
                                  /\ Cardinality(get[p]) <= MaxRetrievals
         /\ \A p, o \in DOMAIN get : p # o => get[p] \cap get[o] = {}
<1> DEFINE S == Servable(q, actives)
<1> DEFINE Left(rank, p) == (q.announces[p] \cap Free(q))
                               \ UNION {get[o] : o \in {o \in S : rank[o] < rank[p]}}
<1>1. /\ get \in [S -> SUBSET Free(q)]
      /\ \E rank \in Ranks(S) : \A p \in S :
           /\ get[p] \subseteq Left(rank, p)
           /\ Cardinality(get[p]) = AtLimit(Cardinality(Left(rank, p)))
  BY ZenonT(60) DEF Allotments
<1>2. PICK rank \in Ranks(S) : \A p \in S :
           /\ get[p] \subseteq Left(rank, p)
           /\ Cardinality(get[p]) = AtLimit(Cardinality(Left(rank, p)))
  BY <1>1
<1>3. S \subseteq Peers /\ DOMAIN get = S /\ \A p \in S : q.requests[p] = None
  BY <1>1 DEF Servable, IdlePeer
<1>4. ASSUME NEW p \in S
      PROVE  get[p] \subseteq q.announces[p] /\ get[p] \subseteq Free(q)
  BY <1>2, ZenonT(60)
<1>5. ASSUME NEW p \in S
      PROVE  Cardinality(get[p]) <= MaxRetrievals
  <2>1. IsFiniteSet(Left(rank, p))
    <3>1. Left(rank, p) \subseteq Hashes
      BY DEF Free
    <3> QED BY <3>1, FiniteAssumption, FS_Subset
  <2>2. Cardinality(Left(rank, p)) \in Nat
    BY <2>1, FS_CardinalityType
  <2> HIDE DEF Left
  <2> QED BY <1>2, <2>2, LimitFacts
<1>6. ASSUME NEW p \in S, NEW o \in S, p # o
      PROVE  get[p] \cap get[o] = {}
  <2>1. /\ rank[p] \in Int /\ rank[o] \in Int /\ rank[p] # rank[o]
    <3>1. rank \in [S -> 1..Cardinality(S)]
      BY DEF Ranks
    <3>2. rank[p] # rank[o]
      BY <1>6 DEF Ranks
    <3> QED BY <3>1, <3>2
  <2>2. CASE rank[p] < rank[o]
    <3>1. get[o] \subseteq Left(rank, o)
      BY <1>2, ZenonT(60)
    <3>2. get[p] \cap Left(rank, o) = {}
      BY <2>2
    <3> QED BY <3>1, <3>2
  <2>3. CASE rank[o] < rank[p]
    <3>1. get[p] \subseteq Left(rank, p)
      BY <1>2, ZenonT(60)
    <3>2. get[o] \cap Left(rank, p) = {}
      BY <2>3
    <3> QED BY <3>1, <3>2
  <2> QED BY <2>1, <2>2, <2>3
<1> QED BY <1>3, <1>4, <1>5, <1>6

(* scheduleFetches keeps the invariant of the stages and does not panic:      *)
(* what it hands out is queued, so it has announcers and no alternates yet.   *)
LEMMA ScheduleKeeps ==
  ASSUME NEW q, NEW actives \in SUBSET Peers, NEW armed \in BOOLEAN, NEW panic \in BOOLEAN,
         NEW waits, StageInv(q, waits), ~panic, panicked = FALSE,
         scheduleFetches(q, actives, armed, panic)
  PROVE  /\ StageInv(Stages', waits)
         /\ panicked' = FALSE
         /\ timeoutTimer' \in BOOLEAN
<1>1. PICK get \in Allotments(q, actives) :
        LET taken == UNION {get[p] : p \in DOMAIN get} IN
        /\ announces' = q.announces
        /\ announced' = [h \in Hashes |-> IF h \in taken THEN {} ELSE q.announced[h]]
        /\ fetching' = [h \in Hashes |-> IF h \in taken THEN CHOOSE p \in DOMAIN get : h \in get[p]
                                                        ELSE q.fetching[h]]
        /\ alternates' = [h \in Hashes |-> IF h \in taken THEN q.announced[h] ELSE q.alternates[h]]
        /\ requests' = [p \in Peers |-> IF p \in DOMAIN get /\ get[p] # {}
                                       THEN [hashes |-> get[p], stolen |-> {}]
                                       ELSE q.requests[p]]
        /\ timeoutTimer' = (armed \/ ArmIfIdle(q, get))
        /\ panicked' = (panicked \/ panic \/ \E h \in taken : q.alternates[h] # {})
  BY ZenonT(60) DEF scheduleFetches
<1> DEFINE taken == UNION {get[p] : p \in DOMAIN get}
<1>2. StageTypes(q) /\ Apart(q, waits) /\ Charged(q) /\ Matched(q)
  BY DEF StageInv
<1>3. /\ DOMAIN get \subseteq Peers
      /\ \A p \in DOMAIN get : /\ q.requests[p] = None
                               /\ get[p] \subseteq q.announces[p]
                               /\ get[p] \subseteq Free(q)
                               /\ Cardinality(get[p]) <= MaxRetrievals
      /\ \A p, o \in DOMAIN get : p # o => get[p] \cap get[o] = {}
  BY <1>2, AllotmentFacts
<1>4. ASSUME NEW h \in taken
      PROVE  /\ h \in Hashes /\ q.fetching[h] = None /\ q.alternates[h] = {}
             /\ q.announced[h] # {} /\ waits[h] = {}
  <2>1. PICK p \in DOMAIN get : h \in get[p]
    OBVIOUS
  <2>2. h \in Hashes /\ q.fetching[h] = None /\ p \in Peers /\ h \in q.announces[p]
    BY <1>3, <2>1 DEF Free
  <2>3. q.alternates[h] = {}
    BY <1>2, <2>2 DEF Apart
  <2>4. p \in q.announced[h]
    BY <1>2, <2>2, <2>3 DEF Charged
  <2> QED BY <1>2, <2>2, <2>3, <2>4 DEF Apart
<1>5. ASSUME NEW h \in taken, NEW p \in DOMAIN get, h \in get[p]
      PROVE  fetching'[h] = p
  <2>1. \A o \in DOMAIN get : h \in get[o] => o = p
    BY <1>3, <1>5
  <2>2. (CHOOSE o \in DOMAIN get : h \in get[o]) = p
    BY <1>5, <2>1
  <2> QED BY <1>1, <1>4, <2>2
<1>6. \A h \in Hashes : h \notin taken => fetching'[h] = q.fetching[h]
  BY <1>1
<1>7. \A h \in taken : fetching'[h] \in Peers
  <2> SUFFICES ASSUME NEW h \in taken PROVE fetching'[h] \in Peers
    OBVIOUS
  <2>1. PICK p \in DOMAIN get : h \in get[p]
    OBVIOUS
  <2> QED BY <1>3, <1>5, <2>1
<1> HIDE DEF taken
<1>8. /\ announces' = q.announces
      /\ announced' = [h \in Hashes |-> IF h \in taken THEN {} ELSE q.announced[h]]
      /\ alternates' = [h \in Hashes |-> IF h \in taken THEN q.announced[h] ELSE q.alternates[h]]
      /\ requests' = [p \in Peers |-> IF p \in DOMAIN get /\ get[p] # {}
                                     THEN [hashes |-> get[p], stolen |-> {}]
                                     ELSE q.requests[p]]
      /\ DOMAIN fetching' = Hashes /\ fetching' = [h \in Hashes |-> fetching'[h]]
  BY <1>1 DEF taken
<1>9. StageTypes(Stages')
  <2>1. fetching' \in [Hashes -> Peers \cup {None}]
    BY <1>2, <1>6, <1>7, <1>8 DEF StageTypes
  <2>2. /\ announces' \in [Peers -> SUBSET Hashes] /\ announced' \in [Hashes -> SUBSET Peers]
        /\ alternates' \in [Hashes -> SUBSET Peers]
    BY <1>2, <1>8 DEF StageTypes
  <2>3. ASSUME NEW p \in Peers
        PROVE  requests'[p] \in Requests \cup {None} /\ Small(requests'[p])
    <3>1. CASE p \in DOMAIN get /\ get[p] # {}
      <4>1. requests'[p] = [hashes |-> get[p], stolen |-> {}]
        BY <1>8, <3>1
      <4>2. get[p] \subseteq Hashes /\ Cardinality(get[p]) <= MaxRetrievals
        BY <1>3, <3>1 DEF Free
      <4> QED BY <4>1, <4>2 DEF Requests, Small
    <3>2. CASE ~(p \in DOMAIN get /\ get[p] # {})
      BY <1>2, <1>8, <3>2 DEF StageTypes
    <3> QED BY <3>1, <3>2
  <2>4. requests' \in [Peers -> Requests \cup {None}]
    BY <1>8, <2>3
  <2> QED BY <2>1, <2>2, <2>3, <2>4 DEF StageTypes, Stages
<1>10. Apart(Stages', waits)
  <2> SUFFICES ASSUME NEW h \in Hashes
               PROVE  /\ waits[h] = {} \/ (announced'[h] = {} /\ fetching'[h] = None)
                      /\ announced'[h] = {} \/ fetching'[h] = None
                      /\ (alternates'[h] # {}) <=> (fetching'[h] # None)
    BY DEF Apart, Stages
  <2>1. CASE h \in taken
    BY <1>4, <1>7, <1>8, <2>1, NoneAssumption
  <2>2. CASE h \notin taken
    BY <1>2, <1>6, <1>8, <2>2 DEF Apart
  <2> QED BY <2>1, <2>2
<1>11. Charged(Stages')
  BY <1>2, <1>4, <1>8 DEF Charged, Stages, StageTypes
<1>12. Matched(Stages')
  <2> SUFFICES ASSUME NEW p \in Peers, NEW h \in Hashes
               PROVE  (fetching'[h] = p) <=> (h \in Owed(requests'[p]))
    BY DEF Matched, Stages
  <2>1. CASE p \in DOMAIN get /\ get[p] # {}
    <3>1. requests'[p] = [hashes |-> get[p], stolen |-> {}]
      BY <1>8, <2>1
    <3>2. get[p] \subseteq Hashes
      BY <1>3, <2>1 DEF Free
    <3>3. requests'[p] # None
      BY <3>1, <3>2, NoneAssumption
    <3>4. Owed(requests'[p]) = get[p]
      BY <3>1, <3>3 DEF Owed
    <3>5. h \in get[p] => fetching'[h] = p
      BY <1>5, <2>1 DEF taken
    <3>6. ASSUME fetching'[h] = p PROVE h \in get[p]
      <4>1. h \in taken
        <5> SUFFICES ASSUME h \notin taken PROVE FALSE
          OBVIOUS
        <5>1. q.fetching[h] = p /\ q.requests[p] = None
          BY <1>3, <1>6, <2>1, <3>6
        <5> QED BY <1>2, <5>1 DEF Matched, Owed
      <4>2. PICK o \in DOMAIN get : h \in get[o]
        BY <4>1 DEF taken
      <4> QED BY <1>5, <3>6, <4>1, <4>2
    <3> QED BY <3>4, <3>5, <3>6
  <2>2. CASE ~(p \in DOMAIN get /\ get[p] # {})
    <3>1. requests'[p] = q.requests[p]
      BY <1>8, <2>2
    <3>2. CASE h \in taken
      <4>1. PICK o \in DOMAIN get : h \in get[o]
        BY <3>2 DEF taken
      <4>2. fetching'[h] = o /\ o # p
        BY <1>5, <2>2, <3>2, <4>1
      <4>3. q.fetching[h] # p
        BY <1>4, <3>2, NoneAssumption
      <4> QED BY <1>2, <3>1, <4>2, <4>3 DEF Matched
    <3>3. CASE h \notin taken
      BY <1>2, <1>6, <3>1, <3>3 DEF Matched
    <3> QED BY <3>2, <3>3
  <2> QED BY <2>1, <2>2
<1>13. panicked' = FALSE
  BY <1>1, <1>4 DEF taken
<1>14. timeoutTimer' \in BOOLEAN
  BY <1>1 DEF ArmIfIdle
<1> QED BY <1>9, <1>10, <1>11, <1>12, <1>13, <1>14 DEF StageInv

(* Settle hands the stages over as they are.                                  *)
LEMMA SettleKeeps ==
  ASSUME NEW q, NEW panic \in BOOLEAN, NEW waits, StageInv(q, waits), ~panic,
         panicked = FALSE, timeoutTimer \in BOOLEAN, Settle(q, panic)
  PROVE  /\ StageInv(Stages', waits)
         /\ panicked' = FALSE
         /\ timeoutTimer' \in BOOLEAN
<1>1. /\ announces' = q.announces /\ announced' = q.announced /\ fetching' = q.fetching
      /\ requests' = q.requests /\ alternates' = q.alternates
  BY DEF Settle
<1>2. StageTypes(Stages') /\ Apart(Stages', waits) /\ Charged(Stages') /\ Matched(Stages')
  BY <1>1 DEF StageInv, StageTypes, Apart, Charged, Matched, Stages
<1> QED BY <1>2 DEF StageInv, Settle
----------------------------------------------------------------------------
(* The invariant of the current stages, spelled out.                          *)
LEMMA Unfold ==
  ASSUME IInv
  PROVE  /\ announces \in [Peers -> SUBSET Hashes] /\ announced \in [Hashes -> SUBSET Peers]
         /\ fetching \in [Hashes -> Peers \cup {None}] /\ alternates \in [Hashes -> SUBSET Peers]
         /\ requests \in [Peers -> Requests \cup {None}]
         /\ \A p \in Peers : Small(requests[p])
         /\ \A h \in Hashes :
              /\ waitlist[h] = {} \/ (announced[h] = {} /\ fetching[h] = None)
              /\ announced[h] = {} \/ fetching[h] = None
              /\ (alternates[h] # {}) <=> (fetching[h] # None)
         /\ \A p \in Peers : \A h \in announces[p] : p \in announced[h] \cup alternates[h]
         /\ \A p \in Peers, h \in Hashes : (fetching[h] = p) <=> (h \in Owed(requests[p]))
BY DEF IInv, StageInv, StageTypes, Apart, Charged, Matched, Stages

(* An announcement adds its origin to the lists of hashes in any stage.       *)
LEMMA NotifyKeeps ==
  ASSUME IInv, NEW p \in Peers, NEW hs \in SUBSET Hashes, Notify(p, hs)
  PROVE  IInv'
<1> DEFINE used == Cardinality(waitslots[p]) + Cardinality(announces[p])
<1> USE Unfold
<1>1. PICK kept \in Kept(used, hs) :
        LET unknown == (kept \ Downloading(kept)) \ Queued(kept)
            q == NotifyStages(p, kept)
        IN  /\ waitlist' = Join(waitlist, unknown, p)
            /\ waitslots' = [waitslots EXCEPT ![p] = @ \cup unknown]
            /\ waitTimer' = (waitTimer \/ (IdleWait /\ unknown # {}))
            /\ IF announces[p] = {} /\ q.announces[p] # {}
               THEN scheduleFetches(q, {p}, timeoutTimer, FALSE)
               ELSE Settle(q, FALSE)
  BY ZenonT(60) DEF Notify
<1>2. kept \subseteq Hashes
  BY DEF Kept
<1> DEFINE unknown == (kept \ Downloading(kept)) \ Queued(kept)
<1> DEFINE q == NotifyStages(p, kept)
<1>3. WaitInv'
  BY <1>1, <1>2 DEF WaitInv, IInv, Join
<1>4. StageTypes(q)
  BY <1>2 DEF StageTypes, NotifyStages, Join, Downloading, Queued
<1>5. Apart(q, waitlist')
  <2> SUFFICES ASSUME NEW h \in Hashes
               PROVE  /\ waitlist'[h] = {} \/ (q.announced[h] = {} /\ q.fetching[h] = None)
                      /\ q.announced[h] = {} \/ q.fetching[h] = None
                      /\ (q.alternates[h] # {}) <=> (q.fetching[h] # None)
    BY DEF Apart
  <2>1. /\ q.announced[h] = IF h \in Queued(kept) THEN announced[h] \cup {p} ELSE announced[h]
        /\ q.alternates[h] = IF h \in Downloading(kept) THEN alternates[h] \cup {p} ELSE alternates[h]
        /\ q.fetching = fetching
        /\ waitlist'[h] = IF h \in unknown THEN waitlist[h] \cup {p} ELSE waitlist[h]
    BY <1>1, <1>2 DEF NotifyStages, Join
  <2>2. /\ h \in Downloading(kept) => alternates[h] # {}
        /\ h \in Queued(kept) => announced[h] # {}
        /\ h \in unknown => alternates[h] = {} /\ announced[h] = {}
    BY DEF Downloading, Queued
  <2> HIDE DEF q, unknown
  <2> QED BY <2>1, <2>2
<1>6. Charged(q)
  <2> SUFFICES ASSUME NEW o \in Peers, NEW h \in q.announces[o]
               PROVE  o \in q.announced[h] \cup q.alternates[h]
    BY DEF Charged
  <2> QED BY <1>2 DEF NotifyStages, Join, Downloading, Queued
<1>7. Matched(q)
  BY DEF Matched, NotifyStages
<1>8. StageInv(q, waitlist')
  BY <1>4, <1>5, <1>6, <1>7 DEF StageInv
<1>9. scheduleFetches(q, {p}, timeoutTimer, FALSE) \/ Settle(q, FALSE)
  BY <1>1, ZenonT(60)
<1>10. panicked = FALSE /\ timeoutTimer \in BOOLEAN
  BY DEF IInv, TimerTypes
<1>11. StageInv(Stages', waitlist') /\ panicked' = FALSE /\ timeoutTimer' \in BOOLEAN
  <2>1. {p} \in SUBSET Peers
    OBVIOUS
  <2> HIDE Unfold
  <2> HIDE DEF q
  <2>2. CASE scheduleFetches(q, {p}, timeoutTimer, FALSE)
    BY <1>8, <1>10, <2>1, <2>2, ScheduleKeeps, ZenonT(60)
  <2>3. CASE Settle(q, FALSE)
    BY <1>8, <1>10, <2>3, SettleKeeps, ZenonT(60)
  <2> QED BY <1>9, <2>2, <2>3, ZenonT(60)
<1>12. TimerTypes'
  BY <1>1, <1>11 DEF TimerTypes, Notify, IInv, IdleWait
<1> QED BY <1>3, <1>11, <1>12 DEF IInv

(* The expired hashes were waiting, so they are neither queued nor fetched.   *)
LEMMA WaitTriggerKeeps ==
  ASSUME IInv, NEW expired \in SUBSET Waiting, WaitTrigger(expired)
  PROVE  IInv'
<1> DEFINE q == WaitStages(expired)
<1> DEFINE actives == UNION {waitlist[h] : h \in expired}
<1> USE Unfold
<1>1. expired \subseteq Hashes /\ \A h \in expired : waitlist[h] # {}
  BY DEF Waiting
<1>2. /\ waitlist' = [h \in Hashes |-> IF h \in expired THEN {} ELSE waitlist[h]]
      /\ waitslots' = [p \in Peers |-> waitslots[p] \ {h \in expired : p \in waitlist[h]}]
      /\ scheduleFetches(q, actives, timeoutTimer, \E h \in expired : announced[h] # {})
  BY ZenonT(60) DEF WaitTrigger
<1>3. WaitInv'
  BY <1>1, <1>2 DEF WaitInv, IInv
<1>4. waitlist \in [Hashes -> SUBSET Peers]
  BY DEF IInv, WaitInv
<1>5. StageTypes(q)
  BY <1>1, <1>4 DEF StageTypes, WaitStages
<1>6. Apart(q, waitlist')
  BY <1>1, <1>2, <1>4 DEF Apart, WaitStages
<1>7. Charged(q)
  <2> SUFFICES ASSUME NEW o \in Peers, NEW h \in q.announces[o]
               PROVE  o \in q.announced[h] \cup q.alternates[h]
    BY DEF Charged
  <2> QED BY <1>1, <1>4 DEF WaitStages
<1>8. Matched(q)
  BY DEF Matched, WaitStages
<1>9. StageInv(q, waitlist')
  BY <1>5, <1>6, <1>7, <1>8 DEF StageInv
<1>10. ~(\E h \in expired : announced[h] # {})
  BY <1>1
<1>11. actives \in SUBSET Peers
  BY <1>1, <1>4
<1>12. panicked = FALSE /\ timeoutTimer \in BOOLEAN
  BY DEF IInv, TimerTypes
<1>13. StageInv(Stages', waitlist') /\ panicked' = FALSE /\ timeoutTimer' \in BOOLEAN
  <2> DEFINE panic == \E h \in expired : announced[h] # {}
  <2>1. scheduleFetches(q, actives, timeoutTimer, panic) /\ ~panic /\ panic \in BOOLEAN
    BY <1>2, <1>10, ZenonT(60)
  <2> HIDE Unfold
  <2> HIDE DEF q, actives, panic
  <2> QED BY <1>9, <1>11, <1>12, <2>1, ScheduleKeeps, ZenonT(60)
<1>14. TimerTypes'
  BY <1>13, ZenonT(60) DEF TimerTypes, WaitTrigger, IInv, Rearm
<1> QED BY <1>3, <1>13, <1>14 DEF IInv

(* A request that timed out owed exactly what was being fetched from its      *)
(* peer; a hash with another announcer goes back to the queue.                *)
LEMMA TimeoutTriggerKeeps ==
  ASSUME IInv, NEW expired \in SUBSET Requested, TimeoutTrigger(expired)
  PROVE  IInv'
<1> DEFINE q == TimeoutStages(expired)
<1> USE Unfold
<1>1. expired \subseteq Peers /\ \A p \in expired : requests[p] \in Requests
  BY DEF Requested
<1>2. /\ scheduleFetches(q, WithAnnounces(q), TRUE, \E h \in Lost(expired) : announced[h] # {})
      /\ waitlist' = waitlist /\ waitslots' = waitslots
  BY ZenonT(60) DEF TimeoutTrigger, waitVars
<1>3. WaitInv'
  BY <1>2 DEF WaitInv, IInv
<1>4. ASSUME NEW h \in Hashes
      PROVE  /\ h \in Lost(expired) => /\ fetching[h] \in expired
                                       /\ Silent(expired, h) = {fetching[h]}
             /\ h \notin Lost(expired) => fetching[h] \notin expired
  <2>1. \A p \in expired : (h \in Owed(requests[p])) <=> (fetching[h] = p)
    BY <1>1
  <2> QED BY <2>1 DEF Lost, Silent
<1>5. Lost(expired) \subseteq Hashes
  BY DEF Lost
<1>6. /\ q.announces = [p \in Peers |-> IF p \in expired THEN announces[p] \ Owed(requests[p])
                                                        ELSE announces[p]]
      /\ q.announced = [h \in Hashes |-> IF h \in Lost(expired)
                            THEN alternates[h] \ Silent(expired, h) ELSE announced[h]]
      /\ q.alternates = [h \in Hashes |-> IF h \in Lost(expired) THEN {} ELSE alternates[h]]
      /\ q.fetching = [h \in Hashes |-> IF h \in Lost(expired) THEN None ELSE fetching[h]]
      /\ q.requests = [p \in Peers |-> IF p \in expired
                            THEN [hashes |-> {}, stolen |-> requests[p].stolen]
                            ELSE requests[p]]
  BY ZenonT(60) DEF TimeoutStages
<1>7. StageTypes(q)
  <2>1. Cardinality({}) = 0
    BY FS_EmptySet
  <2>2. ASSUME NEW p \in Peers
        PROVE  q.requests[p] \in Requests \cup {None} /\ Small(q.requests[p])
    <3>1. CASE p \in expired
      <4>1. q.requests[p] = [hashes |-> {}, stolen |-> requests[p].stolen]
        BY <1>6, <3>1
      <4>2. requests[p].stolen \subseteq Hashes
        BY <1>1, <3>1 DEF Requests
      <4> QED BY <4>1, <4>2, <2>1, LimitsAssumption DEF Requests, Small
    <3>2. CASE p \notin expired
      BY <1>6, <3>2
    <3> QED BY <3>1, <3>2
  <2>3. q.requests \in [Peers -> Requests \cup {None}]
    BY <1>6, <2>2
  <2> HIDE DEF q
  <2>4. /\ q.announces \in [Peers -> SUBSET Hashes] /\ q.announced \in [Hashes -> SUBSET Peers]
        /\ q.fetching \in [Hashes -> Peers \cup {None}] /\ q.alternates \in [Hashes -> SUBSET Peers]
    BY <1>6
  <2> QED BY <2>2, <2>3, <2>4 DEF StageTypes
<1> HIDE DEF q
<1>8. Apart(q, waitlist')
  <2> SUFFICES ASSUME NEW h \in Hashes
               PROVE  /\ waitlist[h] = {} \/ (q.announced[h] = {} /\ q.fetching[h] = None)
                      /\ q.announced[h] = {} \/ q.fetching[h] = None
                      /\ (q.alternates[h] # {}) <=> (q.fetching[h] # None)
    BY <1>2 DEF Apart
  <2>1. CASE h \in Lost(expired)
    BY <1>1, <1>4, <1>6, <2>1, NoneAssumption
  <2>2. CASE h \notin Lost(expired)
    BY <1>6, <2>2
  <2> QED BY <2>1, <2>2
<1>9. Charged(q)
  <2> SUFFICES ASSUME NEW o \in Peers, NEW h \in q.announces[o]
               PROVE  o \in q.announced[h] \cup q.alternates[h]
    BY DEF Charged
  <2>1. h \in announces[o] /\ h \in Hashes /\ (o \in expired => h \notin Owed(requests[o]))
    BY <1>6
  <2>2. o \in announced[h] \cup alternates[h]
    BY <2>1
  <2>3. CASE h \in Lost(expired)
    <3>1. fetching[h] # o
      BY <1>4, <2>1, <2>3
    <3>2. announced[h] = {}
      BY <1>1, <1>4, <2>1, <2>3, NoneAssumption
    <3> QED BY <1>4, <1>6, <2>1, <2>2, <2>3, <3>1, <3>2
  <2>4. CASE h \notin Lost(expired)
    BY <1>6, <2>1, <2>2, <2>4
  <2> QED BY <2>3, <2>4
<1>10. Matched(q)
  <2> SUFFICES ASSUME NEW p \in Peers, NEW h \in Hashes
               PROVE  (q.fetching[h] = p) <=> (h \in Owed(q.requests[p]))
    BY DEF Matched
  <2>1. CASE p \in expired
    <3>1. Owed(q.requests[p]) = {}
      BY <1>6, <2>1 DEF Owed
    <3>2. q.fetching[h] # p
      BY <1>4, <1>6, <2>1, NoneAssumption
    <3> QED BY <3>1, <3>2
  <2>2. CASE p \notin expired
    <3>1. q.requests[p] = requests[p]
      BY <1>6, <2>2
    <3>2. (q.fetching[h] = p) <=> (fetching[h] = p)
      BY <1>4, <1>6, <2>2, NoneAssumption
    <3> QED BY <3>1, <3>2
  <2> QED BY <2>1, <2>2
<1>11. StageInv(q, waitlist')
  BY <1>7, <1>8, <1>9, <1>10 DEF StageInv
<1>12. ~(\E h \in Lost(expired) : announced[h] # {})
  BY <1>1, <1>4, <1>5, NoneAssumption
<1>13. panicked = FALSE /\ timeoutTimer \in BOOLEAN /\ WithAnnounces(q) \in SUBSET Peers
  BY DEF IInv, TimerTypes, WithAnnounces
<1>14. StageInv(Stages', waitlist') /\ panicked' = FALSE /\ timeoutTimer' \in BOOLEAN
  <2> DEFINE panic == \E h \in Lost(expired) : announced[h] # {}
  <2>1. scheduleFetches(q, WithAnnounces(q), TRUE, panic) /\ ~panic /\ panic \in BOOLEAN
    BY <1>2, <1>12, ZenonT(60)
  <2> HIDE Unfold
  <2> HIDE DEF panic
  <2> QED BY <1>11, <1>13, <2>1, ScheduleKeeps, ZenonT(60)
<1>15. TimerTypes'
  BY <1>14, ZenonT(60) DEF TimerTypes, TimeoutTrigger, IInv
<1> QED BY <1>3, <1>14, <1>15 DEF IInv

(* A peer that leaves gives back what was being fetched from it.              *)
LEMMA DropKeeps ==
  ASSUME IInv, NEW p \in Peers, Drop(p)
  PROVE  IInv'
<1> DEFINE q == DropStages(p)
<1> DEFINE owed == Owed(requests[p])
<1> USE Unfold
<1>1. /\ waitlist' = [h \in Hashes |-> IF h \in waitslots[p] THEN waitlist[h] \ {p} ELSE waitlist[h]]
      /\ waitslots' = [waitslots EXCEPT ![p] = {}]
      /\ \/ scheduleFetches(q, WithAnnounces(q), TRUE, FALSE)
         \/ Settle(q, FALSE)
  BY ZenonT(60) DEF Drop
<1>2. WaitInv'
  BY <1>1 DEF WaitInv, IInv
<1>3. /\ q.announces = [announces EXCEPT ![p] = {}]
      /\ q.announced = [h \in Hashes |->
            (IF h \in owed /\ alternates[h] \ {p} # {} THEN alternates[h] \ {p} ELSE announced[h])
               \ (IF h \in announces[p] THEN {p} ELSE {})]
      /\ q.alternates = [h \in Hashes |-> IF h \in owed THEN {} ELSE alternates[h]]
      /\ q.fetching = [h \in Hashes |-> IF h \in owed THEN None ELSE fetching[h]]
      /\ q.requests = [requests EXCEPT ![p] = None]
  BY ZenonT(60) DEF DropStages, ForgetAnnounces
<1>4. \A h \in Hashes : (h \in owed) <=> (fetching[h] = p)
  OBVIOUS
<1> HIDE DEF q, owed
<1>5. StageTypes(q)
  <2>1. /\ q.announces \in [Peers -> SUBSET Hashes] /\ q.announced \in [Hashes -> SUBSET Peers]
        /\ q.fetching \in [Hashes -> Peers \cup {None}] /\ q.alternates \in [Hashes -> SUBSET Peers]
        /\ q.requests \in [Peers -> Requests \cup {None}]
    BY <1>3
  <2>2. \A o \in Peers : Small(q.requests[o])
    BY <1>3 DEF Small
  <2> QED BY <2>1, <2>2 DEF StageTypes
<1>6. Apart(q, waitlist')
  <2> SUFFICES ASSUME NEW h \in Hashes
               PROVE  /\ waitlist'[h] = {} \/ (q.announced[h] = {} /\ q.fetching[h] = None)
                      /\ q.announced[h] = {} \/ q.fetching[h] = None
                      /\ (q.alternates[h] # {}) <=> (q.fetching[h] # None)
    BY DEF Apart
  <2>1. waitlist'[h] \subseteq waitlist[h]
    BY <1>1
  <2>2. CASE h \in owed
    BY <1>3, <1>4, <2>1, <2>2, NoneAssumption
  <2>3. CASE h \notin owed
    <3>1. q.announced[h] \subseteq announced[h] /\ q.fetching[h] = fetching[h] /\ q.alternates[h] = alternates[h]
      BY <1>3, <2>3
    <3> QED BY <2>1, <3>1
  <2> QED BY <2>2, <2>3
<1>7. Charged(q)
  <2> SUFFICES ASSUME NEW o \in Peers, NEW h \in q.announces[o]
               PROVE  o \in q.announced[h] \cup q.alternates[h]
    BY DEF Charged
  <2>1. o # p /\ h \in announces[o] /\ h \in Hashes
    BY <1>3
  <2>2. o \in announced[h] \cup alternates[h]
    BY <2>1
  <2>3. CASE h \in owed
    <3>1. announced[h] = {}
      BY <1>4, <2>1, <2>3, NoneAssumption
    <3> QED BY <1>3, <2>1, <2>2, <2>3, <3>1
  <2>4. CASE h \notin owed
    BY <1>3, <2>1, <2>2, <2>4
  <2> QED BY <2>3, <2>4
<1>8. Matched(q)
  <2> SUFFICES ASSUME NEW o \in Peers, NEW h \in Hashes
               PROVE  (q.fetching[h] = o) <=> (h \in Owed(q.requests[o]))
    BY DEF Matched
  <2>1. CASE o = p
    BY <1>3, <1>4, <2>1, NoneAssumption DEF Owed
  <2>2. CASE o # p
    <3>1. q.requests[o] = requests[o]
      BY <1>3, <2>2
    <3>2. (q.fetching[h] = o) <=> (fetching[h] = o)
      BY <1>3, <1>4, <2>2, NoneAssumption
    <3> QED BY <3>1, <3>2
  <2> QED BY <2>1, <2>2
<1>9. StageInv(q, waitlist')
  BY <1>5, <1>6, <1>7, <1>8 DEF StageInv
<1>10. panicked = FALSE /\ timeoutTimer \in BOOLEAN /\ WithAnnounces(q) \in SUBSET Peers
  BY DEF IInv, TimerTypes, WithAnnounces
<1>11. StageInv(Stages', waitlist') /\ panicked' = FALSE /\ timeoutTimer' \in BOOLEAN
  BY <1>1, <1>9, <1>10, ScheduleKeeps, SettleKeeps, ZenonT(60)
<1>12. TimerTypes'
  BY <1>11 DEF TimerTypes, Drop, IInv
<1> QED BY <1>2, <1>11, <1>12 DEF IInv

(* Removing the delivered hashes keeps all but the match of fetching and      *)
(* requests, which a direct reply restores by ending its sender's request.    *)
UntrackInv(q, o, direct) ==
  /\ StageTypes(q) /\ Apart(q, waitlist) /\ Charged(q)
  /\ \A p \in Peers, h \in Hashes : p # o \/ ~direct =>
       (q.fetching[h] = p) <=> (h \in Owed(q.requests[p]))
  /\ \A h \in Hashes : direct => (fetching[h] = o) <=> (h \in Owed(q.requests[o]))
  /\ \A p \in Peers : (q.requests[p] = None) <=> (requests[p] = None)

\* A delivery takes its hashes out of the queued and fetching stages of all peers
\* and leaves what stays there in agreement.
LEMMA UntrackFacts ==
  ASSUME IInv, NEW o \in Peers, NEW hs \in SUBSET Hashes, NEW direct \in BOOLEAN
  PROVE  UntrackInv(Untrack(o, hs, direct), o, direct)
<1> DEFINE q == Untrack(o, hs, direct)
<1> USE Unfold
<1>1. /\ q.announces = [p \in Peers |-> announces[p] \ hs]
      /\ q.announced = [h \in Hashes |-> IF h \in hs THEN {} ELSE announced[h]]
      /\ q.alternates = [h \in Hashes |-> IF h \in hs THEN {} ELSE alternates[h]]
      /\ q.fetching = [h \in Hashes |-> IF h \in hs THEN None ELSE fetching[h]]
      /\ q.requests = [p \in Peers |-> IF requests[p] = None THEN None
           ELSE [hashes |-> requests[p].hashes,
                 stolen |-> requests[p].stolen
                              \cup {h \in hs : fetching[h] = p /\ Stolen(h, o, direct)}]]
  BY ZenonT(60) DEF Untrack
<1> HIDE DEF q
<1>2. ASSUME NEW p \in Peers, requests[p] # None
      PROVE  /\ q.requests[p] \in Requests /\ q.requests[p] # None
             /\ q.requests[p].hashes = requests[p].hashes
             /\ q.requests[p].stolen = requests[p].stolen
                          \cup {h \in hs : fetching[h] = p /\ Stolen(h, o, direct)}
  <2>1. q.requests[p] = [hashes |-> requests[p].hashes,
                 stolen |-> requests[p].stolen
                              \cup {h \in hs : fetching[h] = p /\ Stolen(h, o, direct)}]
    BY <1>1, <1>2
  <2>2. requests[p] \in Requests
    BY <1>2
  <2>3. q.requests[p] \in Requests
    BY <2>1, <2>2 DEF Requests
  <2> QED BY <2>1, <2>3, NoneAssumption DEF Requests
<1>3. \A p \in Peers : requests[p] = None => q.requests[p] = None
  BY <1>1
<1>4. StageTypes(q)
  <2>1. /\ q.announces \in [Peers -> SUBSET Hashes] /\ q.announced \in [Hashes -> SUBSET Peers]
        /\ q.fetching \in [Hashes -> Peers \cup {None}] /\ q.alternates \in [Hashes -> SUBSET Peers]
    BY <1>1
  <2>2. q.requests \in [Peers -> Requests \cup {None}]
    <3>1. \A p \in Peers : q.requests[p] \in Requests \cup {None}
      BY <1>2, <1>3
    <3>2. q.requests = [p \in Peers |-> q.requests[p]]
      BY <1>1
    <3> QED BY <3>1, <3>2
  <2>3. \A p \in Peers : Small(q.requests[p])
    BY <1>2, <1>3 DEF Small
  <2> QED BY <2>1, <2>2, <2>3 DEF StageTypes
<1>5. Apart(q, waitlist)
  <2> SUFFICES ASSUME NEW h \in Hashes
               PROVE  /\ waitlist[h] = {} \/ (q.announced[h] = {} /\ q.fetching[h] = None)
                      /\ q.announced[h] = {} \/ q.fetching[h] = None
                      /\ (q.alternates[h] # {}) <=> (q.fetching[h] # None)
    BY DEF Apart
  <2>1. CASE h \in hs
    BY <1>1, <2>1
  <2>2. CASE h \notin hs
    <3>1. /\ q.announced[h] = announced[h] /\ q.alternates[h] = alternates[h]
          /\ q.fetching[h] = fetching[h]
      BY <1>1, <2>2
    <3> QED BY <3>1
  <2> QED BY <2>1, <2>2
<1>6. Charged(q)
  BY <1>1 DEF Charged
<1>7. ASSUME NEW p \in Peers, NEW h \in Hashes
      PROVE  /\ p # o \/ ~direct => (q.fetching[h] = p) <=> (h \in Owed(q.requests[p]))
             /\ direct => (fetching[h] = o) <=> (h \in Owed(q.requests[o]))
  <2>1. ASSUME NEW x \in Peers
        PROVE  (h \in Owed(q.requests[x]))
                 <=> (fetching[h] = x /\ ~(h \in hs /\ Stolen(h, o, direct)))
    <3>1. CASE requests[x] = None
      <4>1. fetching[h] # x
        BY <3>1 DEF Owed
      <4> QED BY <1>3, <3>1, <4>1 DEF Owed
    <3>2. CASE requests[x] # None
      <4>1. (fetching[h] = x) <=> (h \in requests[x].hashes \ requests[x].stolen)
        BY <3>2 DEF Owed
      <4>2. (h \in Owed(q.requests[x]))
              <=> (h \in requests[x].hashes /\ h \notin requests[x].stolen
                 /\ ~(h \in hs /\ fetching[h] = x /\ Stolen(h, o, direct)))
        BY <1>2, <3>2 DEF Owed
      <4> QED BY <4>1, <4>2
    <3> QED BY <3>1, <3>2
  <2>2. (q.fetching[h] = p) <=> (fetching[h] = p /\ h \notin hs)
    BY <1>1, NoneAssumption
  <2>3. p # o \/ ~direct => (fetching[h] = p => Stolen(h, o, direct))
    BY NoneAssumption DEF Stolen
  <2>4. direct => (fetching[h] = o => ~Stolen(h, o, direct))
    BY DEF Stolen
  <2> QED BY <2>1, <2>2, <2>3, <2>4
<1>8. \A p \in Peers : (q.requests[p] = None) <=> (requests[p] = None)
  BY <1>2, <1>3
<1>9. UntrackInv(q, o, direct)
  BY <1>4, <1>5, <1>6, <1>7, <1>8 DEF UntrackInv
<1> QED BY <1>9 DEF q

(* What holds of stages 2 and 3 before a direct reply of o is settled: only   *)
(* o's request is out of step, by the hashes it delivered.                    *)
Replied(q, o, hs, waits) ==
  /\ StageTypes(q) /\ Apart(q, waits) /\ Charged(q) /\ q.requests[o] # None
  /\ \A p \in Peers, h \in Hashes : p # o => (q.fetching[h] = p <=> h \in Owed(q.requests[p]))
  /\ \A h \in Hashes : q.fetching[h] = o => h \in Owed(q.requests[o])
  /\ \A h \in Owed(q.requests[o]) :
       /\ waits[h] = {}
       /\ h \in hs => q.fetching[h] = None /\ q.announced[h] = {} /\ q.alternates[h] = {}
       /\ h \notin hs => q.fetching[h] = o

(* The end of a direct reply: what its sender still owed is queued for the    *)
(* announcers left, and none of it was queued already.                        *)
LEMMA FinishKeeps ==
  ASSUME NEW o \in Peers, NEW hs \in SUBSET Hashes, NEW waits, NEW q, Replied(q, o, hs, waits),
         NEW skipped \in Skipped(q.requests[o], hs)
  PROVE  /\ StageInv(Finish(q, o, hs, skipped), waits)
         /\ ~(\E h \in Back(q, o, hs, skipped) : q.announced[h] # {})
<1> DEFINE settled == Owed(q.requests[o])
<1> DEFINE alt == Alternates(q, o, skipped)
<1> DEFINE back == Back(q, o, hs, skipped)
<1> DEFINE r == Finish(q, o, hs, skipped)
<1>1. /\ \A h \in settled : waits[h] = {}
      /\ \A h \in settled : h \in hs => q.fetching[h] = None /\ q.announced[h] = {} /\ q.alternates[h] = {}
      /\ \A h \in settled \ hs : q.fetching[h] = o
      /\ \A h \in Hashes : q.fetching[h] = o => h \in settled
  BY DEF Replied
<1>2. StageTypes(q) /\ Apart(q, waits) /\ Charged(q)
  BY DEF Replied
<1>3. settled \subseteq Hashes
  <2>1. q.requests[o] \in Requests
    BY <1>2 DEF StageTypes, Replied
  <2> QED BY <2>1 DEF Owed, Requests
<1>4. skipped \subseteq settled \ hs
  BY DEF Skipped
<1>5. /\ r.announces = [q.announces EXCEPT ![o] = @ \ skipped]
      /\ r.announced = [h \in Hashes |-> IF h \in back THEN alt[h] ELSE q.announced[h]]
      /\ r.alternates = [h \in Hashes |-> IF h \in settled THEN {} ELSE alt[h]]
      /\ r.fetching = [h \in Hashes |-> IF h \in settled THEN None ELSE q.fetching[h]]
      /\ r.requests = [q.requests EXCEPT ![o] = None]
  BY ZenonT(60) DEF Finish
<1>6. /\ alt \in [Hashes -> SUBSET Peers]
      /\ \A h \in Hashes : alt[h] = IF h \in skipped THEN q.alternates[h] \ {o} ELSE q.alternates[h]
      /\ back = {h \in settled \ hs : alt[h] # {}}
  BY <1>2 DEF Alternates, Back, StageTypes
<1>7. \A h \in settled \ hs : q.announced[h] = {} /\ q.fetching[h] = o
  BY <1>1, <1>2, <1>3, NoneAssumption DEF Apart
<1> HIDE DEF settled, alt, back, r
<1>a. /\ \A h \in Hashes : r.announced[h] = IF h \in back THEN alt[h] ELSE q.announced[h]
      /\ \A h \in Hashes : r.alternates[h] = IF h \in settled THEN {} ELSE alt[h]
  BY <1>5
<1>b. \A h \in Hashes : r.fetching[h] = IF h \in settled THEN None ELSE q.fetching[h]
  BY <1>5
<1>c. /\ r.requests[o] = None
      /\ \A p \in Peers : p # o => r.requests[p] = q.requests[p]
  BY <1>2, <1>5 DEF StageTypes
<1>8. StageTypes(r)
  <2>1. /\ r.announces \in [Peers -> SUBSET Hashes] /\ r.announced \in [Hashes -> SUBSET Peers]
        /\ r.fetching \in [Hashes -> Peers \cup {None}] /\ r.alternates \in [Hashes -> SUBSET Peers]
        /\ r.requests \in [Peers -> Requests \cup {None}]
    BY <1>2, <1>5, <1>6 DEF StageTypes
  <2>2. \A p \in Peers : Small(r.requests[p])
    BY <1>2, <1>c DEF StageTypes, Small
  <2> QED BY <2>1, <2>2 DEF StageTypes
<1>9. Apart(r, waits)
  <2> SUFFICES ASSUME NEW h \in Hashes
               PROVE  /\ waits[h] = {} \/ (r.announced[h] = {} /\ r.fetching[h] = None)
                      /\ r.announced[h] = {} \/ r.fetching[h] = None
                      /\ (r.alternates[h] # {}) <=> (r.fetching[h] # None)
    BY DEF Apart
  <2>1. CASE h \in settled
    BY <1>1, <1>a, <1>b, <2>1
  <2>2. CASE h \notin settled
    <3>1. /\ r.announced[h] = q.announced[h] /\ r.fetching[h] = q.fetching[h]
          /\ r.alternates[h] = q.alternates[h]
      BY <1>4, <1>a, <1>b, <1>6, <2>2
    <3> QED BY <1>2, <3>1 DEF Apart
  <2> QED BY <2>1, <2>2
<1>10. Charged(r)
  <2> SUFFICES ASSUME NEW p \in Peers, NEW h \in r.announces[p]
               PROVE  p \in r.announced[h] \cup r.alternates[h]
    BY DEF Charged
  <2>1. h \in Hashes /\ h \in q.announces[p] /\ (p = o => h \notin skipped)
    BY <1>2, <1>5 DEF StageTypes
  <2>2. p \in q.announced[h] \cup q.alternates[h]
    BY <1>2, <2>1 DEF Charged
  <2>3. CASE h \in settled /\ h \in hs
    BY <1>1, <2>2, <2>3
  <2>4. CASE h \in settled \ hs
    <3>1. p \in alt[h]
      BY <1>6, <1>7, <2>1, <2>2, <2>4
    <3> QED BY <1>a, <1>6, <2>1, <2>4, <3>1
  <2>5. CASE h \notin settled
    BY <1>4, <1>a, <1>6, <2>1, <2>2, <2>5
  <2> QED BY <2>3, <2>4, <2>5
<1>11. Matched(r)
  <2> SUFFICES ASSUME NEW p \in Peers, NEW h \in Hashes
               PROVE  (r.fetching[h] = p) <=> (h \in Owed(r.requests[p]))
    BY DEF Matched
  <2>1. CASE p = o
    <3>1. r.requests[p] = None
      BY <1>c, <2>1
    <3>2. r.fetching[h] # o
      BY <1>1, <1>b, NoneAssumption
    <3> QED BY <2>1, <3>1, <3>2 DEF Owed
  <2>2. CASE p # o
    <3>1. r.requests[p] = q.requests[p]
      BY <1>c, <2>2
    <3>2. (r.fetching[h] = p) <=> (q.fetching[h] = p)
      BY <1>1, <1>b, <2>2, NoneAssumption
    <3>3. (q.fetching[h] = p) <=> (h \in Owed(q.requests[p]))
      BY <2>2 DEF Replied
    <3> QED BY <3>1, <3>2, <3>3
  <2> QED BY <2>1, <2>2
<1>12. StageInv(r, waits)
  BY <1>8, <1>9, <1>10, <1>11 DEF StageInv
<1>13. ~(\E h \in back : q.announced[h] # {})
  BY <1>6, <1>7
<1> QED BY <1>12, <1>13 DEF r, back

(* A delivery, direct or broadcast.                                           *)
LEMMA CleanupKeeps ==
  ASSUME IInv, NEW o \in Peers, NEW hs \in SUBSET Hashes, NEW direct \in BOOLEAN,
         Cleanup(o, hs, direct)
  PROVE  IInv'
<1> DEFINE q == Untrack(o, hs \ Waiting, direct)
<1> DEFINE panic == \E h \in hs \ Waiting :
                      Stolen(h, o, direct) /\ requests[fetching[h]] = None
<1>1. /\ waitlist' = [h \in Hashes |-> IF h \in hs THEN {} ELSE waitlist[h]]
      /\ waitslots' = [p \in Peers |-> waitslots[p] \ (hs \cap Waiting)]
      /\ IF direct /\ requests[o] # None
         THEN \E skipped \in Skipped(q.requests[o], hs) :
                scheduleFetches(Finish(q, o, hs, skipped), WithAnnounces(Finish(q, o, hs, skipped)),
                  timeoutTimer, panic \/ \E h \in Back(q, o, hs, skipped) : q.announced[h] # {})
         ELSE Settle(q, panic)
  BY ZenonT(60) DEF Cleanup
<1>2. WaitInv'
  BY <1>1, ZenonT(60) DEF WaitInv, IInv, Waiting
<1>3. \A h \in Hashes : waitlist'[h] \subseteq waitlist[h]
  BY <1>1, ZenonT(60)
<1>4. ~panic
  <2> SUFFICES ASSUME NEW h \in hs \ Waiting, Stolen(h, o, direct) PROVE requests[fetching[h]] # None
    OBVIOUS
  <2>1. h \in Hashes /\ fetching[h] \in Peers
    BY Unfold DEF Stolen
  <2>2. h \in Owed(requests[fetching[h]])
    BY <2>1, Unfold
  <2> QED BY <2>2 DEF Owed
<1>5. panicked = FALSE /\ timeoutTimer \in BOOLEAN
  BY DEF IInv, TimerTypes
<1> HIDE DEF panic
<1>6. /\ StageTypes(q) /\ Apart(q, waitlist') /\ Charged(q)
      /\ \A p \in Peers, h \in Hashes : p # o \/ ~direct =>
           (q.fetching[h] = p) <=> (h \in Owed(q.requests[p]))
      /\ \A h \in Hashes : direct => (fetching[h] = o) <=> (h \in Owed(q.requests[o]))
      /\ \A p \in Peers : (q.requests[p] = None) <=> (requests[p] = None)
  <2>1. hs \ Waiting \in SUBSET Hashes
    OBVIOUS
  <2>2. UntrackInv(q, o, direct)
    BY <2>1, UntrackFacts
  <2> HIDE DEF q
  <2>3. Apart(q, waitlist')
    BY <1>3, <2>2 DEF UntrackInv, Apart
  <2> QED BY <2>2, <2>3 DEF UntrackInv
<1>7. StageInv(Stages', waitlist') /\ panicked' = FALSE /\ timeoutTimer' \in BOOLEAN
  <2>1. CASE direct /\ requests[o] # None
    <3>1. PICK skipped \in Skipped(q.requests[o], hs) :
            scheduleFetches(Finish(q, o, hs, skipped), WithAnnounces(Finish(q, o, hs, skipped)),
              timeoutTimer, panic \/ \E h \in Back(q, o, hs, skipped) : q.announced[h] # {})
      BY <1>1, <2>1, ZenonT(60)
    <3> DEFINE r == Finish(q, o, hs, skipped)
    <3> DEFINE fail == panic \/ \E h \in Back(q, o, hs, skipped) : q.announced[h] # {}
    <3>2. q = Untrack(o, hs \ Waiting, direct)
      OBVIOUS
    <3> HIDE DEF q
    <3>3. /\ StageInv(r, waitlist')
          /\ ~(\E h \in Back(q, o, hs, skipped) : q.announced[h] # {})
      <4>1. /\ StageTypes(q) /\ Apart(q, waitlist') /\ Charged(q)
            /\ \A p \in Peers, h \in Hashes : p # o =>
                 (q.fetching[h] = p <=> h \in Owed(q.requests[p]))
            /\ \A h \in Hashes : (fetching[h] = o) <=> (h \in Owed(q.requests[o]))
            /\ q.requests[o] # None
        BY <1>6, <2>1, ZenonT(60)
      <4>2. /\ \A h \in Hashes : q.fetching[h] = IF h \in hs \ Waiting THEN None ELSE fetching[h]
            /\ \A h \in hs \ Waiting : q.announced[h] = {} /\ q.alternates[h] = {}
        BY <3>2, ZenonT(60) DEF Untrack
      <4>3. Owed(q.requests[o]) \subseteq Hashes
        <5>1. StageTypes(q) /\ q.requests[o] # None
          BY <4>1
        <5>2. q.requests[o] \in Requests
          BY <5>1 DEF StageTypes
        <5> QED BY <5>2 DEF Requests, Owed
      <4>4. \A h \in Hashes : q.fetching[h] = o => h \in Owed(q.requests[o])
        BY <4>1, <4>2, NoneAssumption
      <4>5. ASSUME NEW h \in Owed(q.requests[o])
            PROVE  /\ waitlist'[h] = {}
                   /\ h \in hs => q.fetching[h] = None /\ q.announced[h] = {} /\ q.alternates[h] = {}
                   /\ h \notin hs => q.fetching[h] = o
        <5>1. h \in Hashes /\ fetching[h] = o
          BY <4>1, <4>3
        <5>2. waitlist[h] = {}
          BY <5>1, Unfold, NoneAssumption
        <5>3. h \notin Waiting /\ waitlist'[h] = {}
          BY <1>3, <5>1, <5>2 DEF Waiting
        <5> QED BY <4>2, <5>1, <5>3, ZenonT(60)
      <4>6. Replied(q, o, hs, waitlist')
        BY <4>1, <4>4, <4>5, ZenonT(60) DEF Replied
      <4> QED BY <4>6, FinishKeeps, ZenonT(60)
    <3>4. ~fail /\ fail \in BOOLEAN
      BY <1>4, <3>3, ZenonT(60) DEF panic
    <3>5. WithAnnounces(r) \in SUBSET Peers
      BY DEF WithAnnounces
    <3>6. scheduleFetches(r, WithAnnounces(r), timeoutTimer, fail)
      BY <3>1
    <3> HIDE DEF r, fail
    <3> QED BY <1>5, <3>3, <3>4, <3>5, <3>6, ScheduleKeeps, ZenonT(60)
  <2>2. CASE ~(direct /\ requests[o] # None)
    <3>1. Settle(q, panic) /\ panic \in BOOLEAN
      BY <1>1, <2>2, ZenonT(60) DEF panic
    <3>3. ASSUME NEW h \in Hashes, direct
          PROVE  (q.fetching[h] = o) <=> (h \in Owed(q.requests[o]))
      <4>1. requests[o] = None /\ q.requests[o] = None
        BY <1>6, <2>2, <3>3, ZenonT(60)
      <4>2. fetching[h] # o
        BY <4>1, Unfold DEF Owed
      <4>3. q.fetching[h] = None \/ q.fetching[h] = fetching[h]
        BY ZenonT(60) DEF Untrack
      <4> QED BY <4>1, <4>2, <4>3, NoneAssumption DEF Owed
    <3>4. Matched(q)
      BY <1>6, <3>3, ZenonT(60) DEF Matched
    <3>5. StageInv(q, waitlist')
      BY <1>6, <3>4, ZenonT(60) DEF StageInv
    <3> HIDE DEF q
    <3> QED BY <1>4, <1>5, <3>1, <3>5, SettleKeeps, ZenonT(60)
  <2> QED BY <2>1, <2>2, ZenonT(60)
<1>8. TimerTypes'
  BY <1>7, ZenonT(60) DEF TimerTypes, Cleanup, IInv
<1> QED BY <1>2, <1>7, <1>8 DEF IInv
----------------------------------------------------------------------------
(* The invariant holds at the start.                                          *)
LEMMA InitInv == Init => IInv
<1> SUFFICES ASSUME Init PROVE IInv
  OBVIOUS
<1>1. WaitInv /\ TimerTypes /\ panicked = FALSE
  BY ZenonT(60) DEF Init, WaitInv, TimerTypes
<1>2. StageTypes(Stages) /\ Apart(Stages, waitlist) /\ Charged(Stages)
  BY ZenonT(60) DEF Init, Stages, StageTypes, Apart, Charged, Small
<1>3. Matched(Stages)
  BY NoneAssumption DEF Init, Stages, Matched, Owed
<1> QED BY <1>1, <1>2, <1>3 DEF IInv, StageInv

(* Every step of the fetcher keeps it.                                        *)
LEMMA NextInv == IInv /\ [Next]_vars => IInv'
<1> SUFFICES ASSUME IInv, [Next]_vars PROVE IInv'
  OBVIOUS
<1>1. CASE \E p \in Peers, hs \in SUBSET Hashes \ {{}} : Notify(p, hs)
  BY <1>1, NotifyKeeps
<1>2. CASE \E expired \in SUBSET Waiting : WaitTrigger(expired)
  BY <1>2, WaitTriggerKeeps
<1>3. CASE \E expired \in SUBSET Requested : TimeoutTrigger(expired)
  BY <1>3, TimeoutTriggerKeeps
<1>4. CASE \E p \in Peers, hs \in SUBSET Hashes, direct \in BOOLEAN : Cleanup(p, hs, direct)
  BY <1>4, CleanupKeeps
<1>5. CASE \E p \in Peers : Drop(p)
  BY <1>5, DropKeeps
<1>6. ASSUME UNCHANGED <<waitVars, stageVars, panicked>>, TimerTypes' PROVE IInv'
  BY <1>6, ZenonT(60) DEF waitVars, stageVars, IInv, WaitInv, StageInv, StageTypes, Apart, Charged, Matched, Stages
<1>7. CASE WaitTimerFires
  <2>1. UNCHANGED <<waitVars, stageVars, panicked>> /\ TimerTypes'
    BY <1>7, ZenonT(60) DEF WaitTimerFires, IInv, TimerTypes
  <2> QED BY <1>6, <2>1
<1>8. CASE TimeoutTimerFires
  <2>1. UNCHANGED <<waitVars, stageVars, panicked>> /\ TimerTypes'
    BY <1>8, ZenonT(60) DEF TimeoutTimerFires, IInv, TimerTypes
  <2> QED BY <1>6, <2>1
<1>9. CASE UNCHANGED vars
  <2>1. UNCHANGED <<waitVars, stageVars, panicked>> /\ TimerTypes'
    BY <1>9 DEF vars, timerVars, IInv, TimerTypes
  <2> QED BY <1>6, <2>1
<1> QED BY <1>1, <1>2, <1>3, <1>4, <1>5, <1>7, <1>8, <1>9 DEF Next

\* Whatever case the loop takes, the invariant holds.
LEMMA Invariance == Spec => []IInv
  BY InitInv, NextInv, PTL DEF Spec

(* Types, and at most maxTxRetrievals hashes to a request: the handlers and   *)
(* scheduleFetches keep them for any peers, hashes and limits.                *)
THEOREM TypeCorrect == Spec => []TypeOK
<1>1. IInv => TypeOK
  <2> SUFFICES ASSUME IInv PROVE TypeOK
    OBVIOUS
  <2>1. \A p \in Requested : Cardinality(requests[p].hashes) <= MaxRetrievals
    BY Unfold DEF Requested, Small
  <2> QED BY <2>1, Unfold, ZenonT(60) DEF TypeOK, IInv, WaitInv, TimerTypes
<1> QED BY <1>1, Invariance, PTL

(* The loop reaches none of its panics, whatever the order of announcements,  *)
(* deliveries, drops and timeouts.                                            *)
THEOREM LoopNeverPanics == Spec => []NeverPanics
<1>1. IInv => NeverPanics
  BY DEF IInv, NeverPanics
<1> QED BY <1>1, Invariance, PTL

(* The first invariant the fetcher's comment states: a hash is in one stage. *)
THEOREM StagesExclusive == Spec => []OneStage
<1>1. IInv => OneStage
  BY Unfold DEF OneStage
<1> QED BY <1>1, Invariance, PTL

(* The second one: the indexes by peer and by hash say the same, and each    *)
(* peer is asked exactly for what is being fetched from it.                  *)
THEOREM StagesAgree == Spec => []IndexesAgree
<1>1. IInv => IndexesAgree
  <2> SUFFICES ASSUME IInv PROVE IndexesAgree
    OBVIOUS
  <2>1. \A p \in Peers, h \in Hashes : (h \in waitslots[p]) <=> (p \in waitlist[h])
    BY Unfold, ZenonT(60) DEF IInv, WaitInv
  <2>2. \A p \in Peers : \A h \in announces[p] : p \in announced[h] \cup alternates[h]
    BY Unfold, ZenonT(60)
  <2>3. \A p \in Peers, h \in Hashes : (fetching[h] = p) <=> (h \in Owed(requests[p]))
    BY Unfold
  <2> QED BY <2>1, <2>2, <2>3 DEF IndexesAgree
<1> QED BY <1>1, Invariance, PTL
----------------------------------------------------------------------------
(* scheduleFetches leaves its timer armed if it was asked to, or if it sent   *)
(* the first request, and it takes no request back.                           *)
LEMMA ScheduleArms ==
  ASSUME NEW q, NEW actives \in SUBSET Peers, NEW armed \in BOOLEAN, NEW panic \in BOOLEAN,
         scheduleFetches(q, actives, armed, panic)
  PROVE  /\ armed => timeoutTimer'
         /\ Requested' # {} => timeoutTimer' \/ \E p \in Peers : q.requests[p] # None
<1>1. PICK get \in Allotments(q, actives) :
        /\ requests' = [p \in Peers |-> IF p \in DOMAIN get /\ get[p] # {}
                                       THEN [hashes |-> get[p], stolen |-> {}]
                                       ELSE q.requests[p]]
        /\ timeoutTimer' = (armed \/ ArmIfIdle(q, get))
  BY ZenonT(60) DEF scheduleFetches
<1>2. ASSUME Requested' # {}, \A p \in Peers : q.requests[p] = None
      PROVE  ArmIfIdle(q, get)
  <2>1. PICK p \in Peers : requests'[p] # None
    BY <1>2 DEF Requested
  <2>2. p \in DOMAIN get /\ get[p] # {}
    BY <1>1, <1>2, <2>1, ZenonT(60)
  <2> QED BY <1>2, <2>2 DEF ArmIfIdle
<1> QED BY <1>1, <1>2, ZenonT(60)

(* Which timer still has to fire is known after every handler: the wait timer *)
(* is rearmed by whatever adds to or shrinks the waiting hashes, the timeout  *)
(* timer by whatever sends the first request or has used the tick up.         *)
LEMMA TimersStep == IInv /\ TimersArmed /\ [Next]_vars => TimersArmed'
<1> SUFFICES ASSUME IInv, TimersArmed, [Next]_vars PROVE TimersArmed'
  OBVIOUS
<1>1. /\ waitTimer \in BOOLEAN /\ waitTrigger \in BOOLEAN
      /\ timeoutTimer \in BOOLEAN /\ timeoutTrigger \in BOOLEAN
      /\ announces \in [Peers -> SUBSET Hashes] /\ waitlist \in [Hashes -> SUBSET Peers]
      /\ waitslots \in [Peers -> SUBSET Hashes] /\ requests \in [Peers -> Requests \cup {None}]
  BY Unfold, ZenonT(60) DEF IInv, TimerTypes, WaitInv
<1> DEFINE Waits == Waiting' # {} => waitTimer' \/ waitTrigger'
<1> DEFINE Out == Requested' # {} => timeoutTimer' \/ timeoutTrigger'
<1>2. ASSUME NEW q, NEW actives \in SUBSET Peers, NEW panic \in BOOLEAN,
             scheduleFetches(q, actives, timeoutTimer, panic), UNCHANGED timeoutTrigger,
             \A p \in Peers : q.requests[p] # None => requests[p] # None
      PROVE  Out
  <2>1. /\ timeoutTimer => timeoutTimer'
        /\ Requested' # {} => timeoutTimer' \/ \E p \in Peers : q.requests[p] # None
    BY <1>1, <1>2, ScheduleArms
  <2>2. (\E p \in Peers : q.requests[p] # None) => timeoutTimer \/ timeoutTrigger
    BY <1>2 DEF TimersArmed, Requested
  <2> QED BY <1>2, <2>1, <2>2, ZenonT(60)
<1>3. ASSUME NEW q, NEW panic, Settle(q, panic), UNCHANGED timeoutTrigger,
             \A p \in Peers : q.requests[p] # None => requests[p] # None
      PROVE  Out
  BY <1>3, ZenonT(60) DEF Settle, TimersArmed, Requested
<1>4. ASSUME NEW p \in Peers, NEW hs \in SUBSET Hashes, Notify(p, hs)
      PROVE  Waits /\ Out
  <2>1. PICK kept \in Kept(Cardinality(waitslots[p]) + Cardinality(announces[p]), hs) :
          LET unknown == (kept \ Downloading(kept)) \ Queued(kept)
              q == NotifyStages(p, kept)
          IN  /\ waitlist' = Join(waitlist, unknown, p)
              /\ waitTimer' = (waitTimer \/ (IdleWait /\ unknown # {}))
              /\ IF announces[p] = {} /\ q.announces[p] # {}
                 THEN scheduleFetches(q, {p}, timeoutTimer, FALSE)
                 ELSE Settle(q, FALSE)
    BY <1>4, ZenonT(60) DEF Notify
  <2> DEFINE unknown == (kept \ Downloading(kept)) \ Queued(kept)
  <2> DEFINE q == NotifyStages(p, kept)
  <2>2. UNCHANGED <<waitTrigger, timeoutTrigger>>
    BY <1>4, ZenonT(60) DEF Notify
  <2>3. Waits
    <3>1. Waiting' # {} => Waiting # {} \/ unknown # {}
      BY <2>1 DEF Waiting, Join
    <3>2. waitTimer' = (waitTimer \/ (Waiting = {} /\ unknown # {}))
      BY <2>1 DEF IdleWait
    <3> HIDE DEF unknown
    <3> QED BY <2>2, <3>1, <3>2, ZenonT(60) DEF TimersArmed
  <2>4. q.requests = requests
    BY ZenonT(60) DEF NotifyStages
  <2>5. scheduleFetches(q, {p}, timeoutTimer, FALSE) \/ Settle(q, FALSE)
    BY <2>1, ZenonT(60)
  <2> HIDE DEF q
  <2>6. Out
    BY <1>2, <1>3, <2>2, <2>4, <2>5, ZenonT(60)
  <2> QED BY <2>3, <2>6
<1>5. ASSUME NEW expired \in SUBSET Waiting, WaitTrigger(expired)
      PROVE  Waits /\ Out
  <2>1. /\ waitlist' = [h \in Hashes |-> IF h \in expired THEN {} ELSE waitlist[h]]
        /\ waitTimer' = (waitTimer \/ Rearm(Waiting \ expired))
        /\ UNCHANGED timeoutTrigger
    BY <1>5, ZenonT(60) DEF WaitTrigger
  <2>2. Waits
    <3>1. Waiting' # {} => Waiting \ expired # {}
      BY <2>1 DEF Waiting
    <3> QED BY <2>1, <3>1, ZenonT(60) DEF Rearm
  <2>3. Out
    <3>1. UNION {waitlist[h] : h \in expired} \in SUBSET Peers
      BY <1>1 DEF Waiting
    <3>2. (\E h \in expired : announced[h] # {}) \in BOOLEAN
      OBVIOUS
    <3>3. WaitStages(expired).requests = requests
      BY DEF WaitStages
    <3>4. scheduleFetches(WaitStages(expired), UNION {waitlist[h] : h \in expired}, timeoutTimer,
                          \E h \in expired : announced[h] # {})
      BY <1>5, ZenonT(60) DEF WaitTrigger
    <3> QED BY <1>2, <2>1, <3>1, <3>2, <3>3, <3>4, ZenonT(60)
  <2> QED BY <2>2, <2>3
<1>6. ASSUME NEW expired \in SUBSET Requested, TimeoutTrigger(expired)
      PROVE  Waits /\ Out
  <2> DEFINE q == TimeoutStages(expired)
  <2>1. /\ UNCHANGED <<waitVars, waitTimer, waitTrigger>>
        /\ scheduleFetches(q, WithAnnounces(q), TRUE, \E h \in Lost(expired) : announced[h] # {})
    BY <1>6, ZenonT(60) DEF TimeoutTrigger
  <2>2. Waits
    BY <2>1 DEF TimersArmed, waitVars, Waiting
  <2> HIDE DEF q
  <2>3. WithAnnounces(q) \in SUBSET Peers
    BY DEF WithAnnounces
  <2>4. timeoutTimer'
    BY <2>1, <2>3, ScheduleArms, ZenonT(60)
  <2> QED BY <2>2, <2>4
<1>7. ASSUME NEW o \in Peers, NEW hs \in SUBSET Hashes, NEW direct \in BOOLEAN,
             Cleanup(o, hs, direct)
      PROVE  Waits /\ Out
  <2> DEFINE q == Untrack(o, hs \ Waiting, direct)
  <2> DEFINE panic == \E h \in hs \ Waiting : Stolen(h, o, direct) /\ requests[fetching[h]] = None
  <2>1. /\ waitlist' = [h \in Hashes |-> IF h \in hs THEN {} ELSE waitlist[h]]
        /\ UNCHANGED <<waitTimer, waitTrigger, timeoutTrigger>>
        /\ \/ \E skipped \in Skipped(q.requests[o], hs) :
                LET r == Finish(q, o, hs, skipped)
                IN  scheduleFetches(r, WithAnnounces(r), timeoutTimer,
                      panic \/ \E h \in Back(q, o, hs, skipped) : q.announced[h] # {})
           \/ Settle(q, panic)
    BY <1>7, ZenonT(60) DEF Cleanup
  <2>2. Waits
    <3>1. Waiting' # {} => Waiting # {}
      BY <2>1, ZenonT(60) DEF Waiting
    <3> QED BY <2>1, <3>1, ZenonT(60) DEF TimersArmed
  <2>3. /\ DOMAIN q.requests = Peers
        /\ \A p \in Peers : q.requests[p] # None => requests[p] # None
    <3>1. q.requests = [p \in Peers |-> IF requests[p] = None THEN None
             ELSE [hashes |-> requests[p].hashes,
                   stolen |-> requests[p].stolen \cup
                     {h \in hs \ Waiting : fetching[h] = p /\ Stolen(h, o, direct)}]]
      BY ZenonT(60) DEF Untrack
    <3> HIDE DEF q
    <3> QED BY <1>1, <3>1, ZenonT(60)
  <2> HIDE DEF q, panic
  <2>4. CASE Settle(q, panic)
    BY <1>3, <2>1, <2>2, <2>3, <2>4, ZenonT(60)
  <2>5. ASSUME NEW skipped, NEW lost \in BOOLEAN,
               scheduleFetches(Finish(q, o, hs, skipped), WithAnnounces(Finish(q, o, hs, skipped)),
                               timeoutTimer, lost)
        PROVE  Out
    <3> DEFINE r == Finish(q, o, hs, skipped)
    <3>1. r.requests = [q.requests EXCEPT ![o] = None]
      BY DEF Finish
    <3>2. \A p \in Peers : r.requests[p] # None => requests[p] # None
      BY <2>3, <3>1
    <3>3. WithAnnounces(r) \in SUBSET Peers
      BY DEF WithAnnounces
    <3> HIDE DEF r
    <3> QED BY <1>2, <2>1, <2>5, <3>2, <3>3, ZenonT(60) DEF r
  <2>6. \A skipped : (panic \/ \E h \in Back(q, o, hs, skipped) : q.announced[h] # {}) \in BOOLEAN
    OBVIOUS
  <2>7. Out
    BY <2>1, <2>4, <2>5, <2>6, ZenonT(60)
  <2> QED BY <2>2, <2>7
<1>8. ASSUME NEW p \in Peers, Drop(p)
      PROVE  Waits /\ Out
  <2> DEFINE q == DropStages(p)
  <2>1. /\ waitlist' = [h \in Hashes |-> IF h \in waitslots[p] THEN waitlist[h] \ {p} ELSE waitlist[h]]
        /\ waitTimer' = (waitTimer \/ (waitslots[p] # {} /\ \E h \in Hashes : waitlist'[h] # {}))
        /\ scheduleFetches(q, WithAnnounces(q), TRUE, FALSE) \/ Settle(q, FALSE)
        /\ UNCHANGED <<waitTrigger, timeoutTrigger>>
    BY <1>8, ZenonT(60) DEF Drop
  <2>2. Waits
    <3>1. Waiting' # {} => Waiting # {}
      BY <2>1 DEF Waiting
    <3> QED BY <2>1, <3>1, ZenonT(60) DEF TimersArmed
  <2>3. \A o \in Peers : q.requests[o] # None => requests[o] # None
    <3>1. q.requests = [requests EXCEPT ![p] = None]
      BY DEF DropStages
    <3> QED BY <1>1, <3>1
  <2> HIDE DEF q
  <2>4. WithAnnounces(q) \in SUBSET Peers
    BY DEF WithAnnounces
  <2>5. CASE scheduleFetches(q, WithAnnounces(q), TRUE, FALSE)
    BY <2>2, <2>4, <2>5, ScheduleArms, ZenonT(60)
  <2>6. CASE Settle(q, FALSE)
    BY <1>3, <2>1, <2>2, <2>3, <2>6, ZenonT(60)
  <2> QED BY <2>1, <2>2, <2>5, <2>6, ZenonT(60)
<1>9. CASE WaitTimerFires
  BY <1>9, ZenonT(60) DEF WaitTimerFires, TimersArmed, waitVars, stageVars, Waiting, Requested
<1>10. CASE TimeoutTimerFires
  BY <1>10, ZenonT(60) DEF TimeoutTimerFires, TimersArmed, waitVars, stageVars, Waiting, Requested
<1>11. CASE UNCHANGED vars
  BY <1>11, ZenonT(60) DEF vars, TimersArmed, waitVars, stageVars, timerVars, Waiting, Requested
<1>12. CASE Next
  <2>1. Waits /\ Out => TimersArmed'
    BY ZenonT(60) DEF TimersArmed
  <2> HIDE DEF Waits, Out
  <2> QED BY <1>4, <1>5, <1>6, <1>7, <1>8, <1>9, <1>10, <1>12, <2>1 DEF Next
<1> QED BY <1>11, <1>12

(* While a hash waits for its broadcast, or a request is out, a tick of the   *)
(* timer that ends the wait is still to come, for any peers, hashes and       *)
(* limits: rescheduleWait and rescheduleTimeout are called wherever needed.   *)
THEOREM TimersStayArmed == Spec => []TimersArmed
<1>1. Init => TimersArmed
  BY DEF Init, TimersArmed, Waiting, Requested
<1> QED BY <1>1, TimersStep, Invariance, PTL DEF Spec
----------------------------------------------------------------------------
(* If scheduleFetches leaves no request out, none of the peers it looked at   *)
(* has anything to fetch: with nobody fetching every hash is free, and the    *)
(* limit lets a peer have at least one.                                       *)
LEMMA ScheduleServes ==
  ASSUME NEW q, NEW actives \in SUBSET Peers, NEW armed, NEW panic,
         scheduleFetches(q, actives, armed, panic), IInv', Requested' = {}
  PROVE  /\ announces' = q.announces
         /\ \A p \in Peers : q.requests[p] = None
         /\ \A p \in actives : announces'[p] = {}
<1>1. PICK get \in Allotments(q, actives) :
        LET taken == UNION {get[p] : p \in DOMAIN get} IN
        /\ announces' = q.announces
        /\ fetching' = [h \in Hashes |-> IF h \in taken THEN CHOOSE p \in DOMAIN get : h \in get[p]
                                                        ELSE q.fetching[h]]
        /\ requests' = [p \in Peers |-> IF p \in DOMAIN get /\ get[p] # {}
                                       THEN [hashes |-> get[p], stolen |-> {}]
                                       ELSE q.requests[p]]
  BY ZenonT(60) DEF scheduleFetches
<1> DEFINE taken == UNION {get[p] : p \in DOMAIN get}
<1> DEFINE S == Servable(q, actives)
<1> DEFINE Left(rank, p) == (q.announces[p] \cap Free(q))
                               \ UNION {get[o] : o \in {o \in S : rank[o] < rank[p]}}
<1>2. /\ get \in [S -> SUBSET Free(q)]
      /\ \E rank \in Ranks(S) : \A p \in S :
           /\ get[p] \subseteq Left(rank, p)
           /\ Cardinality(get[p]) = AtLimit(Cardinality(Left(rank, p)))
  BY ZenonT(60) DEF Allotments
<1>3. PICK rank \in Ranks(S) : \A p \in S : Cardinality(get[p]) = AtLimit(Cardinality(Left(rank, p)))
  BY <1>2
<1>4. S \subseteq Peers /\ DOMAIN get = S /\ Free(q) \subseteq Hashes
  BY <1>2 DEF Servable, Free
<1>5. \A p \in Peers : requests'[p] = None
  BY DEF Requested
<1>6. ASSUME NEW p \in S PROVE get[p] = {}
  <2>1. [hashes |-> get[p], stolen |-> {}] \in [hashes : SUBSET Hashes, stolen : SUBSET Hashes]
    BY <1>2, <1>4
  <2>2. [hashes |-> get[p], stolen |-> {}] # None
    BY <2>1, NoneAssumption, ZenonT(60)
  <2> QED BY <1>1, <1>4, <1>5, <2>2, ZenonT(60)
<1>7. \A p \in Peers : q.requests[p] = None
  BY <1>1, <1>4, <1>5, <1>6, ZenonT(60)
<1>8. taken = {}
  BY <1>4, <1>6, ZenonT(60)
<1>9. \A h \in Hashes : q.fetching[h] = None
  <2>1. \A h \in Hashes : fetching'[h] = q.fetching[h]
    BY <1>1, <1>8, ZenonT(60)
  <2>2. fetching' \in [Hashes -> Peers \cup {None}]
    BY DEF IInv, StageInv, StageTypes, Stages
  <2>3. Matched(Stages)'
    BY ZenonT(60) DEF IInv, StageInv
  <2>4. ASSUME NEW h \in Hashes, NEW p \in Peers PROVE fetching'[h] # p
    BY <1>5, <2>3, ZenonT(60) DEF Matched, Stages, Owed
  <2> QED BY <2>1, <2>2, <2>4
<1>10. announces' = q.announces /\ announces' \in [Peers -> SUBSET Hashes]
  BY <1>1, ZenonT(60) DEF IInv, StageInv, StageTypes, Stages
<1>11. ASSUME NEW p \in actives, q.announces[p] # {} PROVE FALSE
  <2>1. p \in S
    BY <1>7, <1>11 DEF Servable, IdlePeer
  <2>2. Left(rank, p) = q.announces[p]
    <3>1. UNION {get[o] : o \in {o \in S : rank[o] < rank[p]}} = {}
      BY <1>6, ZenonT(60)
    <3>2. q.announces[p] \subseteq Free(q)
      BY <1>9, <1>10 DEF Free
    <3> HIDE DEF S
    <3> QED BY <3>1, <3>2
  <2>3. IsFiniteSet(q.announces[p])
    BY <1>10, FiniteAssumption, FS_Subset
  <2>4. Cardinality(q.announces[p]) \in Nat \ {0}
    BY <1>11, <2>3, FS_CardinalityType, FS_EmptySet
  <2>5. Cardinality(get[p]) = AtLimit(Cardinality(q.announces[p]))
    BY <1>3, <2>1, <2>2, ZenonT(60)
  <2>6. Cardinality(get[p]) = 0
    BY <1>6, <2>1, FS_EmptySet
  <2> QED BY <2>4, <2>5, <2>6, LimitsAssumption DEF AtLimit
<1> QED BY <1>7, <1>10, <1>11

(* Every handler either schedules with all the peers that may have work, or   *)
(* gives no peer new work while none is being served.                         *)
LEMMA BusyStep == IInv /\ IInv' /\ NeverIdleWithWork /\ [Next]_vars => NeverIdleWithWork'
<1> SUFFICES ASSUME IInv, IInv', NeverIdleWithWork, [Next]_vars, Requested' = {},
                    NEW p \in Peers
             PROVE  announces'[p] = {}
  BY DEF NeverIdleWithWork
<1>1. /\ announces \in [Peers -> SUBSET Hashes] /\ waitlist \in [Hashes -> SUBSET Peers]
      /\ requests \in [Peers -> Requests \cup {None}]
  BY Unfold, ZenonT(60) DEF IInv, WaitInv
<1>2. (\A o \in Peers : requests[o] = None) => \A o \in Peers : announces[o] = {}
  BY DEF NeverIdleWithWork, Requested
<1>3. \A o \in Peers : requests'[o] = None
  BY DEF Requested
<1>4. ASSUME NEW q, NEW armed, NEW panic,
             scheduleFetches(q, WithAnnounces(q), armed, panic)
      PROVE  announces'[p] = {}
  <2>1. WithAnnounces(q) \in SUBSET Peers
    BY DEF WithAnnounces
  <2>2. \A o \in WithAnnounces(q) : announces'[o] = {}
    BY <1>4, <2>1, ScheduleServes, ZenonT(60)
  <2>3. announces' = q.announces
    BY <1>4, <2>1, ScheduleServes, ZenonT(60)
  <2> QED BY <2>2, <2>3 DEF WithAnnounces
<1>5. ASSUME NEW o \in Peers, NEW hs \in SUBSET Hashes, Notify(o, hs)
      PROVE  announces'[p] = {}
  <2>1. PICK kept \in Kept(Cardinality(waitslots[o]) + Cardinality(announces[o]), hs) :
          LET q == NotifyStages(o, kept)
          IN  IF announces[o] = {} /\ q.announces[o] # {}
              THEN scheduleFetches(q, {o}, timeoutTimer, FALSE)
              ELSE Settle(q, FALSE)
    BY <1>5, ZenonT(60) DEF Notify
  <2> DEFINE q == NotifyStages(o, kept)
  <2>2. q.requests = requests /\ q.announces = [announces EXCEPT ![o] = q.announces[o]]
    BY <1>1, ZenonT(60) DEF NotifyStages
  <2> HIDE DEF q
  <2>3. CASE announces[o] = {} /\ q.announces[o] # {} /\ scheduleFetches(q, {o}, timeoutTimer, FALSE)
    <3>1. {o} \in SUBSET Peers /\ o \in {o}
      BY ZenonT(60)
    <3>2. announces' = q.announces /\ announces'[o] = {}
      BY <2>3, <3>1, ScheduleServes, ZenonT(60)
    <3> QED BY <2>3, <3>2, ZenonT(60)
  <2>4. CASE ~(announces[o] = {} /\ q.announces[o] # {}) /\ Settle(q, FALSE)
    <3>1. requests' = requests /\ announces' = q.announces
      BY <2>2, <2>4 DEF Settle
    <3>2. \A a \in Peers : announces[a] = {}
      BY <1>2, <1>3, <3>1
    <3> QED BY <1>1, <2>2, <2>4, <3>1, <3>2, ZenonT(60)
  <2> QED BY <2>1, <2>3, <2>4, ZenonT(60) DEF q
<1>6. ASSUME NEW expired \in SUBSET Waiting, WaitTrigger(expired)
      PROVE  announces'[p] = {}
  <2> DEFINE q == WaitStages(expired)
  <2> DEFINE actives == UNION {waitlist[h] : h \in expired}
  <2>1. actives \in SUBSET Peers
    BY <1>1 DEF Waiting
  <2>2. scheduleFetches(q, actives, timeoutTimer, \E h \in expired : announced[h] # {})
    BY <1>6, ZenonT(60) DEF WaitTrigger
  <2>3. /\ q.requests = requests
        /\ q.announces = [o \in Peers |-> announces[o] \cup {h \in expired : o \in waitlist[h]}]
    BY DEF WaitStages
  <2> HIDE DEF q, actives
  <2>4. announces' = q.announces /\ \A o \in Peers : q.requests[o] = None
    BY <2>1, <2>2, ScheduleServes, ZenonT(60)
  <2>5. announces[p] = {}
    BY <1>2, <2>3, <2>4
  <2>6. CASE p \in actives
    BY <2>1, <2>2, <2>6, ScheduleServes, ZenonT(60)
  <2>7. CASE p \notin actives
    <3>1. {h \in expired : p \in waitlist[h]} = {}
      BY <2>7 DEF actives
    <3> QED BY <2>3, <2>4, <2>5, <3>1
  <2> QED BY <2>6, <2>7
<1>7. ASSUME NEW expired \in SUBSET Requested, TimeoutTrigger(expired)
      PROVE  announces'[p] = {}
  <2> DEFINE q == TimeoutStages(expired)
  <2>1. scheduleFetches(q, WithAnnounces(q), TRUE, \E h \in Lost(expired) : announced[h] # {})
    BY <1>7, ZenonT(60) DEF TimeoutTrigger
  <2> HIDE DEF q
  <2> QED BY <1>4, <2>1, ZenonT(60)
<1>8. ASSUME NEW o \in Peers, NEW hs \in SUBSET Hashes, NEW direct \in BOOLEAN,
             Cleanup(o, hs, direct)
      PROVE  announces'[p] = {}
  <2> DEFINE q == Untrack(o, hs \ Waiting, direct)
  <2> DEFINE panic == \E h \in hs \ Waiting : Stolen(h, o, direct) /\ requests[fetching[h]] = None
  <2>1. \/ \E skipped \in Skipped(q.requests[o], hs) :
             LET r == Finish(q, o, hs, skipped)
             IN  scheduleFetches(r, WithAnnounces(r), timeoutTimer,
                   panic \/ \E h \in Back(q, o, hs, skipped) : q.announced[h] # {})
        \/ Settle(q, panic)
    BY <1>8, ZenonT(60) DEF Cleanup
  <2>2. q.announces = [a \in Peers |-> announces[a] \ (hs \ Waiting)]
    BY ZenonT(60) DEF Untrack
  <2>3. ASSUME NEW a \in Peers, q.requests[a] = None PROVE requests[a] = None
    <3> DEFINE more == {h \in hs \ Waiting : fetching[h] = a /\ Stolen(h, o, direct)}
    <3>1. requests[a] # None =>
            q.requests[a] = [hashes |-> requests[a].hashes, stolen |-> requests[a].stolen \cup more]
      BY ZenonT(60) DEF Untrack
    <3>2. more \subseteq Hashes
      OBVIOUS
    <3> HIDE DEF q, more
    <3>3. requests[a] # None => q.requests[a] \in [hashes : SUBSET Hashes, stolen : SUBSET Hashes]
      BY <1>1, <3>1, <3>2 DEF Requests
    <3> QED BY <2>3, <3>3, NoneAssumption
  <2> HIDE DEF q, panic
  <2>4. CASE Settle(q, panic)
    <3>1. requests' = q.requests /\ announces' = q.announces
      BY <2>4 DEF Settle
    <3>2. announces[p] = {}
      BY <1>2, <1>3, <2>3, <3>1
    <3> QED BY <2>2, <3>1, <3>2
  <2> QED BY <1>4, <2>1, <2>4, ZenonT(60)
<1>9. ASSUME NEW o \in Peers, Drop(o)
      PROVE  announces'[p] = {}
  <2> DEFINE q == DropStages(o)
  <2>1. \/ scheduleFetches(q, WithAnnounces(q), TRUE, FALSE)
        \/ requests[o] = None /\ Settle(q, FALSE)
    BY <1>9, ZenonT(60) DEF Drop, Reschedules
  <2>2. /\ q.requests = [requests EXCEPT ![o] = None]
        /\ q.announces = [announces EXCEPT ![o] = {}]
    BY DEF DropStages, ForgetAnnounces
  <2> HIDE DEF q
  <2>3. CASE scheduleFetches(q, WithAnnounces(q), TRUE, FALSE)
    BY <1>4, <2>3, ZenonT(60)
  <2>4. CASE requests[o] = None /\ Settle(q, FALSE)
    <3>1. requests' = requests /\ announces' = q.announces
      BY <1>1, <2>2, <2>4 DEF Settle
    <3>2. announces[p] = {}
      BY <1>2, <1>3, <3>1
    <3> QED BY <1>1, <2>2, <3>1, <3>2
  <2> QED BY <2>1, <2>3, <2>4, ZenonT(60)
<1>10. CASE UNCHANGED <<stageVars>>
  BY <1>2, <1>3, <1>10 DEF stageVars
<1>11. WaitTimerFires \/ TimeoutTimerFires \/ UNCHANGED vars => UNCHANGED <<stageVars>>
  BY ZenonT(60) DEF WaitTimerFires, TimeoutTimerFires, vars, stageVars
<1> QED BY <1>5, <1>6, <1>7, <1>8, <1>9, <1>10, <1>11 DEF Next

(* The fetcher never sits on work: with no request out, no peer has anything  *)
(* left to be fetched from it, since every handler that frees a peer or a     *)
(* hash ends in scheduleFetches.  For any peers, hashes and limits.           *)
THEOREM NeverIdle == Spec => []NeverIdleWithWork
<1>1. Init => NeverIdleWithWork
  BY DEF Init, NeverIdleWithWork
<1> QED BY <1>1, BusyStep, Invariance, PTL DEF Spec
============================================================================
