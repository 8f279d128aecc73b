-------------------------------- MODULE Feed --------------------------------
(***************************************************************************)
(* event.Feed (event/octopus_feed.go): calls of Send, one per value, and    *)
(* the subscription and removal of channels, with the inbox, the list of    *)
(* send cases whose prefix is still to be served, the send lock and the     *)
(* rendezvous on removeSub.  A channel is the subscriber that reads it.     *)
(***************************************************************************)
EXTENDS Naturals, Sequences, FiniteSets

CONSTANTS
  Subs,   \* subscribers, each with its own channel
  Sends,  \* calls of Send, each with its own value
  Cap     \* capacity of the channels

NoSend == "none"

ASSUME CapAssumption == Cap \in Nat \ {0}
ASSUME SendsAssumption == NoSend \notin Sends

VARIABLES
  sub,        \* sub[s]: where the subscription of s is
  inbox,      \* channels subscribed since the last Send
  sendCases,  \* channels of the select cases, without the removeSub case
  sendLock,   \* the Send that holds the lock, or none
  pc,         \* pc[v]: where Send(v) is
  cases,      \* length of the prefix of sendCases still to be served
  index,      \* i of the fast path
  nsent,
  buffer,     \* buffer[s]: values in the channel of s
  log         \* history: log[s], everything s was sent

subVars == <<sub, inbox>>
sendVars == <<sendLock, pc, cases, index, nsent>>
vars == <<subVars, sendCases, sendVars, buffer, log>>

In(s, list) == \E i \in 1..Len(list) : list[i] = s

\* caseList.find; 0 is not found.
find(list, s) == IF In(s, list) THEN CHOOSE i \in 1..Len(list) : list[i] = s ELSE 0

delete(list, i) == [j \in 1..Len(list) - 1 |-> IF j < i THEN list[j] ELSE list[j + 1]]

\* caseList.deactivate: the case moves behind the n cases that are left.
deactivate(list, i, n) == [list EXCEPT ![i] = list[n], ![n] = list[i]]

-----------------------------------------------------------------------------
(* Subscribe and Unsubscribe *)

Subscribe(s) ==
  /\ sub[s] = "new"
  /\ sub' = [sub EXCEPT ![s] = "on"]
  /\ inbox' = Append(inbox, s)
  /\ UNCHANGED <<sendCases, sendVars, buffer, log>>

\* remove, first half: the channel is taken from the inbox, or is a send case.
\* Mutant: the inbox is not looked at.
NotInInbox(s) == FALSE
InInbox(s) == In(s, inbox)

Unsubscribe(s) ==
  /\ sub[s] = "on"
  /\ IF InInbox(s)
     THEN /\ inbox' = delete(inbox, find(inbox, s))
          /\ sub' = [sub EXCEPT ![s] = "off"]
     ELSE /\ sub' = [sub EXCEPT ![s] = "removing"]
          /\ UNCHANGED inbox
  /\ UNCHANGED <<sendCases, sendVars, buffer, log>>

\* remove, second half: no Send is in progress.
RemoveIdle(s) ==
  /\ sub[s] = "removing" /\ sendLock = NoSend
  /\ sendCases' = delete(sendCases, find(sendCases, s))
  /\ sub' = [sub EXCEPT ![s] = "off"]
  /\ UNCHANGED <<inbox, sendVars, buffer, log>>

-----------------------------------------------------------------------------
(* Send *)

LockFree == sendLock = NoSend

\* The lock is taken and the inbox emptied into the cases.
Collect(v) ==
  /\ pc[v] = "start" /\ LockFree
  /\ sendLock' = v
  /\ sendCases' = sendCases \o inbox
  /\ inbox' = <<>>
  /\ cases' = Len(sendCases) + Len(inbox)
  /\ index' = 1
  /\ nsent' = 0
  /\ pc' = [pc EXCEPT ![v] = "try"]
  /\ UNCHANGED <<sub, buffer, log>>

HasRoom(s) == Len(buffer[s]) < Cap

\* Case i is served and leaves the prefix.
Serve(v, i) ==
  LET s == sendCases[i]
  IN /\ HasRoom(s)
     /\ buffer' = [buffer EXCEPT ![s] = Append(@, v)]
     /\ log' = [log EXCEPT ![s] = Append(@, v)]
     /\ nsent' = nsent + 1
     /\ sendCases' = deactivate(sendCases, i, cases)
     /\ cases' = cases - 1

\* The fast path tries every case once without blocking.
TrySend(v) ==
  /\ pc[v] = "try" /\ index <= cases
  /\ \/ Serve(v, index) /\ UNCHANGED index
     \/ /\ ~HasRoom(sendCases[index])
        /\ index' = index + 1
        /\ UNCHANGED <<sendCases, cases, nsent, buffer, log>>
  /\ UNCHANGED <<subVars, sendLock, pc>>

\* The fast path is through: all served, or wait.
Tried(v) ==
  /\ pc[v] = "try" /\ index > cases
  /\ pc' = [pc EXCEPT ![v] = IF cases = 0 THEN "return" ELSE "select"]
  /\ UNCHANGED <<subVars, sendCases, sendLock, cases, index, nsent, buffer, log>>

\* A receiver is ready.
SelectSend(v) ==
  /\ pc[v] = "select"
  /\ \E i \in 1..cases : Serve(v, i)
  /\ pc' = [pc EXCEPT ![v] = "try"]
  /\ index' = 1
  /\ UNCHANGED <<subVars, sendLock>>

\* The prefix shrinks if the removed case was still in it.
\* Mutant: it always shrinks.
AlwaysShrink(i) == cases - 1
ShrinkIfActive(i) == IF i <= cases THEN cases - 1 ELSE cases

\* A channel is to be removed.
\* Mutant: the select has no case for it.
NoRemoveCase(v, s) == FALSE
SelectRemove(v, s) ==
  /\ pc[v] = "select" /\ sub[s] = "removing"
  /\ LET i == find(sendCases, s)
     IN /\ sendCases' = delete(sendCases, i)
        /\ cases' = ShrinkIfActive(i)
  /\ sub' = [sub EXCEPT ![s] = "off"]
  /\ pc' = [pc EXCEPT ![v] = "try"]
  /\ index' = 1
  /\ UNCHANGED <<inbox, sendLock, nsent, buffer, log>>

\* Mutant: the lock is not handed over.
KeepLock == sendLock
HandOver == NoSend

Return(v) ==
  /\ pc[v] = "return"
  /\ pc' = [pc EXCEPT ![v] = "done"]
  /\ sendLock' = HandOver
  /\ UNCHANGED <<subVars, sendCases, cases, index, nsent, buffer, log>>

\* A subscriber reads its channel.
Receive(s) ==
  /\ buffer[s] # <<>>
  /\ buffer' = [buffer EXCEPT ![s] = Tail(@)]
  /\ UNCHANGED <<subVars, sendCases, sendVars, log>>

-----------------------------------------------------------------------------
Init ==
  /\ sub = [s \in Subs |-> "new"] /\ inbox = <<>> /\ sendCases = <<>>
  /\ sendLock = NoSend /\ pc = [v \in Sends |-> "start"]
  /\ cases = 0 /\ index = 0 /\ nsent = 0
  /\ buffer = [s \in Subs |-> <<>>] /\ log = [s \in Subs |-> <<>>]

SendStep(v) ==
  \/ Collect(v) \/ TrySend(v) \/ Tried(v) \/ SelectSend(v) \/ Return(v)
  \/ \E s \in Subs : SelectRemove(v, s)

Next ==
  \/ \E s \in Subs : Subscribe(s) \/ Unsubscribe(s) \/ RemoveIdle(s) \/ Receive(s)
  \/ \E v \in Sends : SendStep(v)

\* A Send takes the steps it can, and so does the removal of a channel; which
\* of several Sends gets the lock is decided in turn.  Nothing makes a
\* subscriber read.
Spec ==
  /\ Init /\ [][Next]_vars
  /\ \A v \in Sends : SF_vars(SendStep(v))
  /\ \A s \in Subs : SF_vars(RemoveIdle(s))

-----------------------------------------------------------------------------
(* Properties *)

Active == {sendCases[i] : i \in 1..cases}
Listed(list) == {list[i] : i \in 1..Len(list)}
Distinct(list) == \A i, j \in 1..Len(list) : list[i] = list[j] => i = j

\* Values stay in range, and no channel holds more than its capacity.
TypeOK ==
  /\ sub \in [Subs -> {"new", "on", "removing", "off"}]
  /\ inbox \in Seq(Subs) /\ sendCases \in Seq(Subs)
  /\ sendLock \in Sends \cup {NoSend}
  /\ pc \in [Sends -> {"start", "try", "select", "return", "done"}]
  /\ cases \in 0..Len(sendCases) /\ index \in Nat /\ nsent \in Nat
  /\ buffer \in [Subs -> Seq(Sends)] /\ \A s \in Subs : Len(buffer[s]) <= Cap
  /\ log \in [Subs -> Seq(Sends)]

\* Swapping, appending and deleting cases never loses or repeats a channel:
\* a subscribed channel is in the inbox or in the cases, once, and a channel
\* being removed is a case.
CasesExact ==
  /\ Distinct(inbox) /\ Distinct(sendCases)
  /\ Listed(inbox) \cap Listed(sendCases) = {}
  /\ Listed(inbox) \cup Listed(sendCases) = {s \in Subs : sub[s] \in {"on", "removing"}}
  /\ \A s \in Subs : sub[s] = "removing" => In(s, sendCases)

\* The feed is a broadcast: what is subscribed are the channels of both lists,
\* and what the send in progress has still to reach is the prefix of the cases.
Promise == INSTANCE Broadcast
  WITH subscribed <- Listed(inbox) \cup Listed(sendCases),
       sent <- {v \in Sends : pc[v] # "start"},
       sending <- sendLock,
       remaining <- Active
Implements == Promise!BSpec

\* Unsubscribe returns even while a Send waits for subscribers that never read.
UnsubscribeReturns == \A s \in Subs : sub[s] = "removing" ~> sub[s] = "off"

\* Send returns, unless a subscriber stops reading and stays subscribed.
SendReturns ==
  \A v \in Sends :
    \/ <>(pc[v] = "done")
    \/ \E s \in Subs : <>[](Len(buffer[s]) = Cap /\ sub[s] = "on")
=============================================================================
