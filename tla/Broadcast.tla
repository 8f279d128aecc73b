------------------------------ MODULE Broadcast ------------------------------
(***************************************************************************)
(* What event.Feed promises: sends are delivered one after the other, each  *)
(* exactly once to every channel subscribed when it began, in any order,    *)
(* until the channel unsubscribes.                                          *)
(***************************************************************************)
EXTENDS Naturals, Sequences

CONSTANTS Subs, Sends

VARIABLES
  subscribed, \* channels that are subscribed
  sent,       \* sends that have begun
  sending,    \* the send in progress, or none
  remaining,  \* channels it has still to reach
  log         \* log[s]: what s was sent, in order

bvars == <<subscribed, sent, sending, remaining, log>>
NoSend == "none"

BInit ==
  /\ subscribed = {} /\ sent = {} /\ sending = NoSend /\ remaining = {}
  /\ log = [s \in Subs |-> <<>>]

Join(s) ==
  /\ s \notin subscribed
  /\ subscribed' = subscribed \cup {s}
  /\ UNCHANGED <<sent, sending, remaining, log>>

Leave(s) ==
  /\ s \in subscribed
  /\ subscribed' = subscribed \ {s}
  /\ remaining' = remaining \ {s}
  /\ UNCHANGED <<sent, sending, log>>

Begin(v) ==
  /\ sending = NoSend /\ v \notin sent
  /\ sending' = v
  /\ sent' = sent \cup {v}
  /\ remaining' = subscribed
  /\ UNCHANGED <<subscribed, log>>

Deliver(s) ==
  /\ s \in remaining
  /\ log' = [log EXCEPT ![s] = Append(@, sending)]
  /\ remaining' = remaining \ {s}
  /\ UNCHANGED <<subscribed, sent, sending>>

End ==
  /\ sending # NoSend /\ remaining = {}
  /\ sending' = NoSend
  /\ UNCHANGED <<subscribed, sent, remaining, log>>

BNext ==
  \/ \E s \in Subs : Join(s) \/ Leave(s) \/ Deliver(s)
  \/ \E v \in Sends : Begin(v)
  \/ End

BSpec == BInit /\ [][BNext]_bvars
=============================================================================
