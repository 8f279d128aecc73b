----------------------------- MODULE OperationDB -----------------------------
(***************************************************************************)
(* The state database (operationdb/): accounts cached as objects over the   *)
(* account trie, storage cached in three layers over each storage trie, the *)
(* journal that says which accounts changed, Copy, IntermediateRoot and     *)
(* Commit; and how the worker and the importer use it for a block.  A trie  *)
(* is a function, and its root hash is the trie.  No prefetcher is ever     *)
(* started, Snapshot and RevertToSnapshot panic, so nothing is reverted.    *)
(***************************************************************************)
EXTENDS Integers, FiniteSets

CONSTANTS
  Addresses, Keys, Values, Codes,
  Users,       \* the accounts that transactions change
  Nil,
  NoCode,      \* emptyCodeHash
  Grant,       \* balance newObject gives an account that has none
  Coinbase, Reward,
  EIP158,      \* deleteEmptyObjects of the chain's rules
  Genesis,     \* the accounts of the genesis block
  Amounts,     \* what is added to a balance or, if negative, taken from it
  MaxBalance, MaxNonce,  \* bounds
  MaxOps,      \* bound: operations, in all the blocks
  MaxTasks,    \* bound: blocks being sealed
  MaxBlocks    \* bound: blocks written

Slots == Values \cup {0}
Accounts == [nonce : Int, balance : Int, code : Codes \cup {NoCode}, root : [Keys -> Slots]]
Views == [nonce : Int, balance : Int, code : Codes \cup {NoCode}, slots : [Keys -> Slots], suicided : BOOLEAN]

ASSUME GenesisAssumption == \A a \in DOMAIN Genesis : Genesis[a] \in Accounts
ASSUME AccountsAssumption ==
  /\ Users \subseteq Addresses /\ Coinbase \in Addresses
  /\ Grant \in Int /\ Reward \in Int /\ Amounts \subseteq Int /\ EIP158 \in BOOLEAN
ASSUME NilAssumption == Nil \notin Users \cup [Keys -> Slots] \cup Views

VARIABLES
  env,       \* the OperationDB of the block being executed
  creating,  \* the account whose constructor runs, or Nil
  tasks,     \* blocks assembled and not yet written: header root and OperationDB
  disk,      \* the trie database: account tries, storage tries and codes committed;
             \* missing is a history: the codes of batches that failed
  ops, blocks

vars == <<env, creating, tasks, disk, ops, blocks>>

Zero == 0
EmptyTrie == [k \in Keys |-> Zero]
Nothing == [x \in {} |-> x]
Over(f, g) == [x \in DOMAIN f \cup DOMAIN g |-> IF x \in DOMAIN f THEN f[x] ELSE g[x]]
Put(f, x, y) == [z \in DOMAIN f \cup {x} |-> IF z = x THEN y ELSE f[z]]
Without(f, S) == [x \in DOMAIN f \ S |-> f[x]]
At(f, k) == IF k \in DOMAIN f THEN f[k] ELSE Zero

-----------------------------------------------------------------------------
(* OperationObject *)

newObject(data) ==
  [data |-> data, trie |-> Nil, origin |-> Nothing, pending |-> Nothing, dirty |-> Nothing,
   dirtyCode |-> FALSE, suicided |-> FALSE, deleted |-> FALSE]
NewAccount == [nonce |-> 0, balance |-> Grant, code |-> NoCode, root |-> EmptyTrie]

\* The storage trie is opened when it is first needed.
getTrie(o) ==
  IF o.trie # Nil THEN o
  ELSE [o EXCEPT !.trie = IF o.data.root \in disk.storages THEN o.data.root ELSE EmptyTrie]

GetCommittedState(o, k) ==
  IF k \in DOMAIN o.pending THEN o.pending[k]
  ELSE IF k \in DOMAIN o.origin THEN o.origin[k]
  ELSE getTrie(o).trie[k]
GetState(o, k) == IF k \in DOMAIN o.dirty THEN o.dirty[k] ELSE GetCommittedState(o, k)

Cached(o, k) == k \in DOMAIN o.dirty \cup DOMAIN o.pending \cup DOMAIN o.origin

empty(o) == o.data.nonce = 0 /\ o.data.balance = 0 /\ o.data.code = NoCode

\* Dirty slots move to the pending ones.
finalise(o) == [o EXCEPT !.pending = Over(o.dirty, o.pending), !.dirty = Nothing]

\* A pending slot is written unless it has the value of originStorage, which is
\* zero for a slot this object has not written before.
updateTrie(o) ==
  LET f == finalise(o)
      changed == {k \in DOMAIN f.pending : f.pending[k] # At(f.origin, k)}
      written == [k \in changed |-> f.pending[k]]
  IN  IF f.pending = Nothing THEN f
      ELSE [getTrie(f) EXCEPT !.trie = Over(written, @), !.origin = Over(written, @), !.pending = Nothing]

updateRoot(o) ==
  LET u == updateTrie(o)
  IN  IF u.trie = Nil THEN u ELSE [u EXCEPT !.data.root = u.trie]

-----------------------------------------------------------------------------
(* OperationDB *)

NewOperationDb(root) ==
  [trie |-> root, originalRoot |-> root, objects |-> Nothing, dirties |-> {}, pending |-> {}, dirty |-> {}]

\* getOperationObject: an account of the trie becomes an object.
Loaded(db, a) ==
  IF a \in DOMAIN db.objects \/ a \notin DOMAIN db.trie THEN db
  ELSE [db EXCEPT !.objects = Put(@, a, newObject(db.trie[a]))]
Exist(db, a) == a \in DOMAIN Loaded(db, a).objects
Object(db, a) == Loaded(db, a).objects[a]

setOperationObject(db, a, o) == [db EXCEPT !.objects = Put(@, a, o)]

\* Only the creation of an account that did not exist makes it dirty.
createObject(db, a) ==
  LET l == Loaded(db, a)
  IN  [setOperationObject(l, a, newObject(NewAccount)) EXCEPT
         !.dirties = IF Exist(db, a) THEN @ ELSE @ \cup {a}]
GetOrNewOperationObject(db, a) == IF Exist(db, a) THEN Loaded(db, a) ELSE createObject(db, a)

\* A change of an object with an entry in the journal.
Journaled(db, a, o) == [setOperationObject(db, a, o) EXCEPT !.dirties = @ \cup {a}]

AddBalance(db, a, n) ==
  LET g == GetOrNewOperationObject(db, a)
  IN  IF n = 0 THEN g ELSE Journaled(g, a, [g.objects[a] EXCEPT !.data.balance = @ + n])

SetNonce(db, a, n) ==
  LET g == GetOrNewOperationObject(db, a)
  IN  Journaled(g, a, [g.objects[a] EXCEPT !.data.nonce = n])

SetCode(db, a, c) ==
  LET g == GetOrNewOperationObject(db, a)
  IN  Journaled(g, a, [g.objects[a] EXCEPT !.data.code = c, !.dirtyCode = TRUE])

SetState(db, a, k, v) ==
  LET g == GetOrNewOperationObject(db, a)
      o == IF Cached(g.objects[a], k) THEN g.objects[a] ELSE getTrie(g.objects[a])
  IN  IF GetState(o, k) = v THEN setOperationObject(g, a, o)
      ELSE Journaled(g, a, [o EXCEPT !.dirty = Put(@, k, v)])

Suicide(db, a) ==
  Journaled(Loaded(db, a), a, [Object(db, a) EXCEPT !.suicided = TRUE, !.data.balance = 0])

\* The balance is carried over without an entry in the journal.
CreateAccount(db, a) ==
  LET c == createObject(db, a)
  IN  IF Exist(db, a)
      THEN setOperationObject(c, a, [c.objects[a] EXCEPT !.data.balance = Object(db, a).data.balance])
      ELSE c

\* The accounts in the journal are marked as deleted or have their slots moved.
Finalise(db) ==
  LET touched == db.dirties \cap DOMAIN db.objects
      done(o) == IF o.suicided \/ (EIP158 /\ empty(o)) THEN [o EXCEPT !.deleted = TRUE] ELSE finalise(o)
  IN  [db EXCEPT !.objects = [a \in DOMAIN @ |-> IF a \in touched THEN done(@[a]) ELSE @[a]],
                 !.pending = @ \cup touched, !.dirty = @ \cup touched, !.dirties = {}]

IntermediateRoot(db) ==
  LET f == Finalise(db)
      objects == [a \in DOMAIN f.objects |->
                    IF a \in f.pending /\ ~f.objects[a].deleted THEN updateRoot(f.objects[a]) ELSE f.objects[a]]
      gone == {a \in f.pending : objects[a].deleted}
      updated == [a \in f.pending \ gone |-> objects[a].data]
  IN  [f EXCEPT !.objects = objects, !.trie = Over(updated, Without(@, gone)), !.pending = {}]

\* Mutant: the accounts of OperationObjectsPending, which IntermediateRoot emptied.
CommittedPending(db, failed) ==
  LET i == IntermediateRoot(db)
      live == {i.objects[a] : a \in {x \in i.pending : ~i.objects[x].deleted}}
      fresh == {o.data.code : o \in {x \in live : x.dirtyCode}}
  IN  [roots |-> disk.roots \cup {i.trie},
       storages |-> disk.storages \cup ({updateTrie(o).trie : o \in live} \ {Nil}),
       codes |-> IF failed THEN disk.codes ELSE disk.codes \cup fresh,
       missing |-> IF failed THEN disk.missing \cup fresh ELSE disk.missing]

\* What Commit adds to the trie database.  When the batch of new codes is not
\* written, that is logged and the tries are committed all the same.
Committed(db, failed) ==
  LET i == IntermediateRoot(db)
      live == {i.objects[a] : a \in {x \in i.dirty : ~i.objects[x].deleted}}
      fresh == {o.data.code : o \in {x \in live : x.dirtyCode}}
  IN  [roots |-> disk.roots \cup {i.trie},
       storages |-> disk.storages \cup ({updateTrie(o).trie : o \in live} \ {Nil}),
       codes |-> IF failed THEN disk.codes ELSE disk.codes \cup fresh,
       missing |-> IF failed THEN disk.missing \cup fresh ELSE disk.missing]

\* Mutant: the objects of the journal only, as if no copy were ever copied.
CopyOnce(db) ==
  LET touched == db.dirties \cap DOMAIN db.objects
  IN  [NewOperationDb(db.trie) EXCEPT
         !.originalRoot = Nil, !.objects = [a \in touched |-> db.objects[a]],
         !.pending = touched, !.dirty = touched]

\* The objects that are dirty, pending or in the journal; the journal is not copied.
Copy(db) ==
  LET touched == db.dirties \cap DOMAIN db.objects
      kept == touched \cup db.pending \cup db.dirty
  IN  [NewOperationDb(db.trie) EXCEPT
         !.originalRoot = Nil, !.objects = [a \in kept |-> db.objects[a]],
         !.pending = touched \cup db.pending, !.dirty = touched \cup db.dirty]

-----------------------------------------------------------------------------
(* A block *)

Init ==
  /\ disk = [roots |-> {Genesis}, storages |-> {EmptyTrie} \cup {Genesis[a].root : a \in DOMAIN Genesis},
             codes |-> {Genesis[a].code : a \in DOMAIN Genesis}, missing |-> {}]
  /\ env = NewOperationDb(Genesis)
  /\ creating = Nil /\ tasks = {} /\ ops = 0 /\ blocks = 0

\* makeEnv, insertChain: a block on any state that is known.
StateAt(root) ==
  /\ creating = Nil
  /\ env' = NewOperationDb(root)
  /\ UNCHANGED <<creating, tasks, disk, ops, blocks>>

\* What transactions do, one call at a time.  A call that fails is not undone.
Operation(db) ==
  /\ ops < MaxOps /\ ops' = ops + 1
  /\ env' = db
  /\ UNCHANGED <<tasks, disk, blocks>>

GetBalance(a) == IF Exist(env, a) THEN Object(env, a).data.balance ELSE 0
GetNonce(a) == IF Exist(env, a) THEN Object(env, a).data.nonce ELSE 0
HasCode(a) == Exist(env, a) /\ Object(env, a).data.code # NoCode

\* One half of a Transfer, or the price of gas.
Pay(a, n) ==
  /\ n < 0 => GetBalance(a) + n >= 0
  /\ GetBalance(a) + n < MaxBalance
  /\ Operation(AddBalance(env, a, n))
  /\ UNCHANGED creating

\* The sender's next transaction.
Use(a) ==
  /\ GetNonce(a) < MaxNonce
  /\ Operation(SetNonce(env, a, GetNonce(a) + 1))
  /\ UNCHANGED creating

\* create, up to the run of the constructor.
Create(a) ==
  /\ creating = Nil /\ GetNonce(a) = 0 /\ ~HasCode(a)
  /\ Operation(IF EIP158 THEN SetNonce(CreateAccount(env, a), a, 1) ELSE CreateAccount(env, a))
  /\ creating' = a

\* The rest of create; if the constructor failed, what it did stays.
Deploy(a, c) ==
  /\ creating = a
  /\ Operation(SetCode(env, a, c))
  /\ creating' = Nil

CreateFails ==
  /\ creating # Nil /\ creating' = Nil
  /\ UNCHANGED <<env, tasks, disk, ops, blocks>>

\* opSstore, opSelfdestruct: a constructor runs, or code, which is at hand in the
\* block that deployed it and is read from disk in any other.
Runs(a) ==
  \/ creating = a
  \/ HasCode(a) /\ (Object(env, a).dirtyCode \/ Object(env, a).data.code \in disk.codes)

Store(a, k, v) ==
  /\ Runs(a)
  /\ Operation(SetState(env, a, k, v))
  /\ UNCHANGED creating

Destroy(a, b) ==
  /\ Runs(a) /\ GetBalance(a) + GetBalance(b) < MaxBalance
  /\ Operation(Suicide(AddBalance(env, b, GetBalance(a)), a))
  /\ UNCHANGED creating

\* worker.commit with FinalizeAndAssemble: the environment was copied twice.
Assemble ==
  LET db == IntermediateRoot(AddBalance(Copy(Copy(env)), Coinbase, Reward))
  IN  /\ creating = Nil
      /\ Cardinality(tasks) < MaxTasks /\ GetBalance(Coinbase) + Reward <= MaxBalance
      /\ tasks' = tasks \cup {[root |-> db.trie, db |-> db]}
      /\ UNCHANGED <<env, creating, disk, ops, blocks>>

\* resultLoop, writeBlockWithState.
WriteSealed(t, failed) ==
  /\ blocks < MaxBlocks /\ blocks' = blocks + 1
  /\ disk' = Committed(t.db, failed)
  /\ tasks' = tasks \ {t}
  /\ UNCHANGED <<env, creating, ops>>

\* insertChain, writeBlockWithState; the next block may be executed on this one.
Import(failed) ==
  /\ creating = Nil
  /\ blocks < MaxBlocks /\ blocks' = blocks + 1
  /\ disk' = Committed(env, failed)
  /\ env' = NewOperationDb(IntermediateRoot(env).trie)
  /\ UNCHANGED <<creating, tasks, ops>>

Next ==
  \/ \E root \in disk.roots : StateAt(root)
  \/ \E a \in Users :
       \/ \E n \in Amounts : Pay(a, n)
       \/ Use(a) \/ Create(a)
       \/ \E b \in Addresses : Destroy(a, b)
       \/ \E c \in Codes : Deploy(a, c)
       \/ \E k \in Keys, v \in Values : Store(a, k, v)
  \/ CreateFails \/ Assemble
  \/ \E t \in tasks, failed \in BOOLEAN : WriteSealed(t, failed)
  \/ \E failed \in BOOLEAN : Import(failed)

Spec == Init /\ [][Next]_vars

-----------------------------------------------------------------------------
(* What the getters return, and what a root stands for. *)
AccountView(data, slots, suicided) ==
  [nonce |-> data.nonce, balance |-> data.balance, code |-> data.code, slots |-> slots, suicided |-> suicided]
ViewOf(db) ==
  [a \in Addresses |->
     IF ~Exist(db, a) THEN Nil
     ELSE LET o == Object(db, a)
          IN  AccountView(o.data, [k \in Keys |-> GetState(o, k)], o.suicided)]
RootView(root) ==
  [a \in Addresses |-> IF a \in DOMAIN root THEN AccountView(root[a], root[a].root, FALSE) ELSE Nil]

W == INSTANCE WorldState WITH
       view <- ViewOf(env), base <- RootView(env.originalRoot),
       tasks <- {RootView(t.root) : t \in tasks}, committed <- {RootView(r) : r \in disk.roots}

\* What the transactions of a block read is what they wrote, wherever it is
\* cached, and the state that a block commits is the one they read last, but for
\* the two cases WorldState names; a task, whose state is a copy of a copy, is
\* written with all of the block (GetState, Copy, IntermediateRoot, Commit).
ImplementsWorldState == W!WSpec

\* Every account of a committed state has its storage in the trie database, and
\* its code unless the batch with that code failed, which Commit does not make
\* up for (it writes those of the accounts in OperationObjectsDirty only).
RootsComplete ==
  \A r \in disk.roots : \A a \in DOMAIN r :
    /\ r[a].root \in disk.storages
    /\ r[a].code \in disk.codes \cup disk.missing \cup {NoCode}
=============================================================================
