----------------------------- MODULE WorldState ------------------------------
(***************************************************************************)
(* What the state database promises: a block is executed on the state of    *)
(* its parent, an operation changes the one account it names, and what is   *)
(* committed is what was read last, without the accounts that died.  Two    *)
(* ways in which operationdb falls short of that are named here: Returned   *)
(* and Survived.                                                            *)
(***************************************************************************)
EXTENDS Integers

CONSTANTS Addresses, Keys, Values, Codes, Amounts, Zero, Nil, NoCode, Grant, Reward, Coinbase

VARIABLES
  view,      \* the accounts as the transactions of a block see them
  base,      \* those of the parent block
  tasks,     \* states of the blocks being sealed
  committed  \* states of the blocks that were written

wvars == <<view, base, tasks, committed>>

Fresh == [nonce |-> 0, balance |-> Grant, code |-> NoCode,
          slots |-> [k \in Keys |-> Zero], suicided |-> FALSE]
AccountOf(a) == IF view[a] = Nil THEN Fresh ELSE view[a]

\* A slot that was cleared may have the parent's value again.
Returned(x, b, k) == IF x.slots[k] = Zero /\ b # Nil THEN {Zero, b.slots[k]} ELSE {x.slots[k]}

\* An account that was destroyed, or is empty, lives on if the state was copied
\* before the end of the block.
Survived(x, copied) == x.suicided => copied

Kept(x, b, y, copied) ==
  /\ Survived(x, copied)
  /\ y = [x EXCEPT !.slots = y.slots, !.suicided = FALSE]
  /\ \A k \in Keys : y.slots[k] \in Returned(x, b, k)

Dies(x) == x.suicided \/ (x.nonce = 0 /\ x.balance = 0 /\ x.code = NoCode)

\* The state w is what the block leaves of the accounts v.
Settled(v, w, copied) ==
  \A a \in Addresses :
    IF w[a] = Nil THEN v[a] = Nil \/ Dies(v[a])
    ELSE v[a] # Nil /\ Kept(v[a], base[a], w[a], copied)

WInit == base = view /\ tasks = {} /\ committed = {view}

Open ==
  /\ view' \in committed /\ base' = view'
  /\ UNCHANGED <<tasks, committed>>

Put(a, x) == view' = [view EXCEPT ![a] = x] /\ UNCHANGED <<base, tasks, committed>>
Pay(a, n) == Put(a, [AccountOf(a) EXCEPT !.balance = @ + n])
Use(a) == Put(a, [AccountOf(a) EXCEPT !.nonce = @ + 1])
Deploy(a, c) == Put(a, [AccountOf(a) EXCEPT !.code = c])
Store(a, k, v) == Put(a, [AccountOf(a) EXCEPT !.slots[k] = v])
Destroy(a, b) ==
  /\ view[a] # Nil
  /\ view' = [view EXCEPT ![b] = [AccountOf(b) EXCEPT !.balance = @ + view[a].balance],
                          ![a] = [view[a] EXCEPT !.suicided = TRUE, !.balance = 0]]
  /\ UNCHANGED <<base, tasks, committed>>
Create(a, n) == Put(a, [Fresh EXCEPT !.balance = AccountOf(a).balance, !.nonce = n])

\* The block is assembled on a copy, with the reward.
Rewarded == [view EXCEPT ![Coinbase] = [AccountOf(Coinbase) EXCEPT !.balance = @ + Reward]]
Assemble ==
  /\ \E w \in tasks' : Settled(Rewarded, w, TRUE) /\ tasks' = tasks \cup {w}
  /\ UNCHANGED <<view, base, committed>>

\* A sealed block is written with the state it was assembled with.
Write ==
  /\ \E w \in tasks : committed' = committed \cup {w} /\ tasks' \in {tasks, tasks \ {w}}
  /\ UNCHANGED <<view, base>>

\* A block of another node is written with the state its transactions led to.
Import ==
  /\ \E w \in committed' : Settled(view, w, FALSE) /\ committed' = committed \cup {w}
  /\ view' \in committed' /\ base' = view'
  /\ UNCHANGED tasks

WNext ==
  \/ Open \/ Assemble \/ Write \/ Import
  \/ \E a \in Addresses :
       \/ Use(a) \/ Create(a, 0) \/ Create(a, 1)
       \/ \E b \in Addresses : Destroy(a, b)
       \/ \E n \in Amounts : Pay(a, n)
       \/ \E c \in Codes : Deploy(a, c)
       \/ \E k \in Keys, v \in Values : Store(a, k, v)

WSpec == WInit /\ [][WNext]_wvars
=============================================================================
