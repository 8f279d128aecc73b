-------------------------- MODULE OperationDBProofs --------------------------
(***************************************************************************)
(* Whatever is committed is complete: the storage and the code of every     *)
(* account of a committed state are in the trie database, but for the code  *)
(* of a batch that failed, for any accounts, any number of blocks being     *)
(* sealed and any order of writing them.                                    *)
(*                                                                          *)
(* An object of the block being executed has its storage root on disk, and  *)
(* its code too unless dirtyCode says that Commit has to write it (Backed). *)
(* IntermediateRoot turns such a database into one whose accounts are on    *)
(* disk or dirty (Sealed), and Commit writes the dirty ones.                *)
(*                                                                          *)
(* And the layers of objects, storage and trie implement WorldState: what   *)
(* the getters return is one map of accounts (Seen), which each operation   *)
(* changes as the map's would change (the lemmas named ...Shows), and what  *)
(* Finalise, updateRoot and Commit leave in the trie is that map.           *)
(***************************************************************************)
EXTENDS OperationDB, TLAPS

USE ZenonT(10), SMTT(60)

IsAccount(data) == DOMAIN data = {"nonce", "balance", "code", "root"}
IsObject(o) ==
  /\ DOMAIN o = {"data", "trie", "origin", "pending", "dirty", "dirtyCode", "suicided", "deleted"}
  /\ IsAccount(o.data)
IsDb(db) == DOMAIN db = {"trie", "originalRoot", "objects", "dirties", "pending", "dirty"}
IsDisk(d) == DOMAIN d = {"roots", "storages", "codes", "missing"}

\* The codes handed to a batch of Commit.
Given(d) == d.codes \cup d.missing

\* The database d has the storage of an account, and was given its code.
Stored(d, data) ==
  IsAccount(data) /\ data.root \in d.storages /\ data.code \in Given(d) \cup {NoCode}

\* An object whose storage was not written yet: its trie, if open, is the one of
\* its root, and its code was given to a batch or is dirty.
Backed(d, o) ==
  /\ IsObject(o)
  /\ o.data.root \in d.storages
  /\ o.data.code \in Given(d) \cup {NoCode} \/ o.dirtyCode
  /\ o.trie = Nil \/ o.trie = o.data.root

\* The state of a block being executed.
Based(d, db) ==
  /\ IsDb(db) /\ db.trie \in d.roots
  /\ db.pending \subseteq db.dirty /\ db.dirty \subseteq DOMAIN db.objects
  /\ \A a \in DOMAIN db.objects : Backed(d, db.objects[a])

\* An object whose storage was written to its trie: Commit writes that one.
Updated(d, o) ==
  /\ IsObject(o)
  /\ o.pending = Nothing /\ o.dirty = Nothing
  /\ o.data.root \in d.storages \/ (o.trie = o.data.root /\ o.trie # Nil)
  /\ o.data.code \in Given(d) \cup {NoCode} \/ o.dirtyCode

\* The state of a block after IntermediateRoot.
Sealed(d, db) ==
  /\ IsDb(db) /\ db.pending = {} /\ db.dirties = {} /\ db.dirty \subseteq DOMAIN db.objects
  /\ \A a \in DOMAIN db.trie :
       \/ Stored(d, db.trie[a])
       \/ /\ a \in db.dirty /\ ~db.objects[a].deleted
          /\ Updated(d, db.objects[a]) /\ db.objects[a].data = db.trie[a]

\* The accounts of the committed states are stored.
DiskInv ==
  /\ IsDisk(disk) /\ EmptyTrie \in disk.storages
  /\ \A r \in disk.roots : \A a \in DOMAIN r : Stored(disk, r[a])

IInv ==
  /\ DiskInv
  /\ Based(disk, env)
  /\ \A t \in tasks : Sealed(disk, t.db)
  /\ creating # Nil => creating \in DOMAIN env.objects

-----------------------------------------------------------------------------
(* Maps *)

\* Nothing over nothing is nothing: no slot to move.
LEMMA NothingMore == Over(Nothing, Nothing) = Nothing
  BY DEF Over, Nothing

-----------------------------------------------------------------------------
(* OperationObject *)

\* Opening the storage trie of an object finds the one of its root.
LEMMA GetTrieKeeps ==
  ASSUME NEW o, Backed(disk, o)
  PROVE  /\ Backed(disk, getTrie(o)) /\ getTrie(o).trie = o.data.root
         /\ getTrie(o).data = o.data /\ getTrie(o).deleted = o.deleted /\ getTrie(o).dirtyCode = o.dirtyCode
         /\ getTrie(o).dirty = o.dirty
<1>1. CASE o.trie # Nil
  BY <1>1 DEF getTrie, Backed
<1>2. CASE o.trie = Nil
  <2>1. getTrie(o) = [o EXCEPT !.trie = o.data.root]
    BY <1>2 DEF getTrie, Backed
  <2> DEFINE q == getTrie(o)
  <2>2. /\ DOMAIN q = DOMAIN o /\ q.trie = o.data.root /\ q.data = o.data /\ q.deleted = o.deleted
        /\ q.dirtyCode = o.dirtyCode /\ q.dirty = o.dirty
    BY <2>1 DEF Backed, IsObject
  <2> QED BY <2>2 DEF Backed, IsObject
<1> QED BY <1>1, <1>2

\* Moving the dirty slots leaves account, trie and code alone.
LEMMA FinaliseKeeps ==
  ASSUME NEW o, Backed(disk, o)
  PROVE  /\ Backed(disk, finalise(o)) /\ finalise(o).dirty = Nothing
         /\ finalise(o).data = o.data /\ finalise(o).deleted = o.deleted /\ finalise(o).dirtyCode = o.dirtyCode
<1> DEFINE q == finalise(o)
<1>1. /\ DOMAIN q = DOMAIN o /\ q.trie = o.trie /\ q.data = o.data /\ q.deleted = o.deleted
      /\ q.dirtyCode = o.dirtyCode /\ q.dirty = Nothing
  BY DEF Backed, IsObject, finalise
<1> QED BY <1>1 DEF Backed, IsObject

\* updateRoot writes all slots to the trie, whose hash becomes the account's root.
LEMMA UpdateRootKeeps ==
  ASSUME NEW o, Backed(disk, o)
  PROVE  Updated(disk, updateRoot(o)) /\ updateRoot(o).deleted = o.deleted
<1> DEFINE f == finalise(o)
           g == getTrie(f)
           u == updateTrie(o)
           changed == {k \in DOMAIN f.pending : f.pending[k] # At(f.origin, k)}
           written == [k \in changed |-> f.pending[k]]
<1>1. /\ Backed(disk, f) /\ f.dirty = Nothing /\ f.data = o.data /\ f.deleted = o.deleted /\ f.dirtyCode = o.dirtyCode
  BY FinaliseKeeps
<1>2. /\ Backed(disk, g) /\ g.data = o.data /\ g.deleted = o.deleted /\ g.dirtyCode = o.dirtyCode
      /\ g.dirty = Nothing
  BY <1>1, GetTrieKeeps
<1>3. u = IF f.pending = Nothing THEN f
          ELSE [g EXCEPT !.trie = Over(written, @), !.origin = Over(written, @), !.pending = Nothing]
  BY ZenonT(60) DEF updateTrie
<1> HIDE DEF f, g, u, written
<1>4. /\ IsObject(u) /\ u.data = o.data /\ u.deleted = o.deleted /\ u.dirtyCode = o.dirtyCode
      /\ u.pending = Nothing /\ u.dirty = Nothing
  <2>1. CASE f.pending = Nothing
    BY <1>1, <1>3, <2>1 DEF Backed
  <2>2. CASE f.pending # Nothing
    <3>1. u = [g EXCEPT !.trie = Over(written, @), !.origin = Over(written, @), !.pending = Nothing]
      BY <1>3, <2>2
    <3>2. /\ DOMAIN u = DOMAIN g /\ u.data = g.data /\ u.deleted = g.deleted /\ u.dirtyCode = g.dirtyCode
          /\ u.pending = Nothing /\ u.dirty = g.dirty
      BY <1>2, <3>1 DEF Backed, IsObject
    <3> QED BY <1>2, <3>2 DEF Backed, IsObject
  <2> QED BY <2>1, <2>2
<1>5. updateRoot(o) = IF u.trie = Nil THEN u ELSE [u EXCEPT !.data.root = u.trie]
  BY DEF updateRoot, u
<1>6. CASE u.trie = Nil
  BY <1>4, <1>5, <1>6 DEF Updated, Backed
<1>7. CASE u.trie # Nil
  <2> DEFINE q == updateRoot(o)
  <2>1. q = [u EXCEPT !.data.root = u.trie]
    BY <1>5, <1>7
  <2>2. /\ DOMAIN q = DOMAIN u /\ DOMAIN q.data = DOMAIN u.data /\ q.data.root = u.trie /\ q.trie = u.trie
        /\ q.data.code = u.data.code /\ q.dirtyCode = u.dirtyCode /\ q.deleted = u.deleted
        /\ q.pending = u.pending /\ q.dirty = u.dirty
    BY <1>4, <2>1 DEF IsObject, IsAccount
  <2> HIDE DEF q
  <2>3. o.data.code \in Given(disk) \cup {NoCode} \/ o.dirtyCode
    BY DEF Backed
  <2>4. IsObject(q)
    BY <1>4, <2>2 DEF IsObject, IsAccount
  <2>5. Updated(disk, q) /\ q.deleted = o.deleted
    BY <1>4, <1>7, <2>2, <2>3, <2>4 DEF Updated
  <2> QED BY <2>5 DEF q
<1> QED BY <1>6, <1>7

\* The second updateTrie, of Commit, has nothing to write.
LEMMA UpdatedAgain ==
  ASSUME NEW d, NEW o, Updated(d, o)
  PROVE  updateTrie(o).trie = o.trie
<1>1. finalise(o) = [o EXCEPT !.pending = Nothing, !.dirty = Nothing]
  BY NothingMore DEF finalise, Updated
<1>2. finalise(o).pending = Nothing /\ finalise(o).trie = o.trie
  BY <1>1 DEF Updated, IsObject
<1> QED BY <1>2 DEF updateTrie

-----------------------------------------------------------------------------
(* The operations of a transaction *)

\* An operation loads, creates and changes objects over the same trie.
Extends(db, next) ==
  Based(disk, next) /\ next.trie = db.trie /\ DOMAIN db.objects \subseteq DOMAIN next.objects

\* An object of a stored account, or of a new one.
LEMMA NewObjectBacked ==
  ASSUME NEW data, Stored(disk, data)
  PROVE  Backed(disk, newObject(data))
  BY DEF Backed, Stored, newObject, IsObject

\* An account that createObject makes has no storage, which is on disk.
LEMMA NewAccountBacked == DiskInv => Backed(disk, newObject(NewAccount))
<1> SUFFICES ASSUME DiskInv PROVE Stored(disk, NewAccount)
  BY NewObjectBacked
<1> QED BY DEF DiskInv, Stored, NewAccount, IsAccount

\* An object put in place of another one, with or without a journal entry.
LEMMA PutKeeps ==
  ASSUME NEW db, Based(disk, db), NEW a, NEW o, Backed(disk, o)
  PROVE  /\ Extends(db, setOperationObject(db, a, o)) /\ Extends(db, Journaled(db, a, o))
         /\ a \in DOMAIN setOperationObject(db, a, o).objects
         /\ setOperationObject(db, a, o).objects[a] = o
         /\ a \in DOMAIN Journaled(db, a, o).objects
<1> DEFINE s == setOperationObject(db, a, o)
           j == Journaled(db, a, o)
           f == db.objects
           p == Put(f, a, o)
<1>1. /\ DOMAIN s = DOMAIN db /\ s.trie = db.trie /\ s.objects = p
      /\ s.pending = db.pending /\ s.dirty = db.dirty
  BY DEF Based, IsDb, setOperationObject
<1>2. /\ DOMAIN j = DOMAIN s /\ j.trie = s.trie /\ j.objects = s.objects /\ j.pending = s.pending /\ j.dirty = s.dirty
  BY <1>1 DEF Based, IsDb, Journaled
<1>3. DOMAIN p = DOMAIN f \cup {a} /\ p[a] = o /\ \A b \in DOMAIN f : b # a => p[b] = f[b]
  BY DEF Put
<1> HIDE DEF s, j, p
<1>4. ASSUME NEW b \in DOMAIN p PROVE Backed(disk, p[b])
  BY <1>3 DEF Based
<1>5. Based(disk, s)
  BY <1>1, <1>3, <1>4 DEF Based, IsDb
<1>6. Based(disk, j)
  BY <1>2, <1>5 DEF Based, IsDb
<1>7. Extends(db, s) /\ Extends(db, j) /\ a \in DOMAIN s.objects /\ s.objects[a] = o /\ a \in DOMAIN j.objects
  BY <1>1, <1>2, <1>3, <1>5, <1>6 DEF Extends
<1> QED BY <1>7 DEF s, j

\* Loading an account of the trie.
LEMMA LoadedKeeps ==
  ASSUME DiskInv, NEW db, Based(disk, db), NEW a
  PROVE  Extends(db, Loaded(db, a)) /\ (Exist(db, a) => Backed(disk, Object(db, a)))
<1>1. CASE a \in DOMAIN db.objects \/ a \notin DOMAIN db.trie
  <2>1. Loaded(db, a) = db
    BY <1>1 DEF Loaded
  <2> QED BY <2>1 DEF Extends, Based, Exist, Object
<1>2. CASE ~(a \in DOMAIN db.objects \/ a \notin DOMAIN db.trie)
  <2>1. Loaded(db, a) = setOperationObject(db, a, newObject(db.trie[a]))
    BY <1>2 DEF Loaded, setOperationObject
  <2>2. Backed(disk, newObject(db.trie[a]))
    BY <1>2, NewObjectBacked DEF DiskInv, Based
  <2> QED BY <2>1, <2>2, PutKeeps DEF Exist, Object
<1> QED BY <1>1, <1>2

\* Creating an account, over an existing one or not.
LEMMA CreatedKeeps ==
  ASSUME DiskInv, NEW db, Based(disk, db), NEW a
  PROVE  Extends(db, createObject(db, a)) /\ a \in DOMAIN createObject(db, a).objects
<1> DEFINE l == Loaded(db, a)
           s == setOperationObject(l, a, newObject(NewAccount))
           c == createObject(db, a)
<1>1. Extends(db, l)
  BY LoadedKeeps
<1>2. Extends(l, s) /\ a \in DOMAIN s.objects
  BY <1>1, NewAccountBacked, PutKeeps DEF Extends
<1>3. c = [s EXCEPT !.dirties = IF Exist(db, a) THEN @ ELSE @ \cup {a}]
  BY DEF createObject
<1> HIDE DEF l, s, c
<1>4. DOMAIN c = DOMAIN s /\ c.trie = s.trie /\ c.objects = s.objects /\ c.pending = s.pending /\ c.dirty = s.dirty
  BY <1>2, <1>3 DEF Extends, Based, IsDb
<1>5. Based(disk, c)
  BY <1>2, <1>4 DEF Extends, Based, IsDb
<1>6. Extends(db, c) /\ a \in DOMAIN c.objects
  BY <1>1, <1>2, <1>4, <1>5 DEF Extends
<1> QED BY <1>6 DEF c

\* The object that an operation changes.
LEMMA GetOrNewKeeps ==
  ASSUME DiskInv, NEW db, Based(disk, db), NEW a
  PROVE  /\ Extends(db, GetOrNewOperationObject(db, a))
         /\ a \in DOMAIN GetOrNewOperationObject(db, a).objects
         /\ Backed(disk, GetOrNewOperationObject(db, a).objects[a])
<1> DEFINE g == GetOrNewOperationObject(db, a)
<1>1. Extends(db, g) /\ a \in DOMAIN g.objects
  BY LoadedKeeps, CreatedKeeps DEF GetOrNewOperationObject, Exist
<1> QED BY <1>1 DEF Extends, Based

\* Nonce, balance and code of an object.
LEMMA ChangedBacked ==
  ASSUME NEW o, Backed(disk, o), NEW x
  PROVE  /\ Backed(disk, [o EXCEPT !.data.balance = x])
         /\ Backed(disk, [o EXCEPT !.data.nonce = x])
         /\ Backed(disk, [o EXCEPT !.data.code = x, !.dirtyCode = TRUE])
         /\ Backed(disk, [o EXCEPT !.dirty = x])
         /\ Backed(disk, [o EXCEPT !.suicided = TRUE, !.data.balance = x])
<1>1. Backed(disk, [o EXCEPT !.data.balance = x])
  BY DEF Backed, IsObject, IsAccount
<1>2. Backed(disk, [o EXCEPT !.data.nonce = x])
  BY DEF Backed, IsObject, IsAccount
<1>3. Backed(disk, [o EXCEPT !.data.code = x, !.dirtyCode = TRUE])
  BY DEF Backed, IsObject, IsAccount
<1>4. Backed(disk, [o EXCEPT !.dirty = x])
  BY DEF Backed, IsObject, IsAccount
<1>5. Backed(disk, [o EXCEPT !.suicided = TRUE, !.data.balance = x])
  BY DEF Backed, IsObject, IsAccount
<1> QED BY <1>1, <1>2, <1>3, <1>4, <1>5

\* What is changed of a changed database.
LEMMA ExtendsTwice ==
  ASSUME NEW db, NEW g, NEW h, Extends(db, g), Extends(g, h)
  PROVE  Extends(db, h)
  BY DEF Extends

\* AddBalance.
LEMMA AddBalanceKeeps ==
  ASSUME DiskInv, NEW db, Based(disk, db), NEW a, NEW n
  PROVE  Extends(db, AddBalance(db, a, n))
<1> DEFINE g == GetOrNewOperationObject(db, a)
           o == [g.objects[a] EXCEPT !.data.balance = g.objects[a].data.balance + n]
<1>1. Extends(db, g) /\ Based(disk, g) /\ Backed(disk, g.objects[a])
  BY GetOrNewKeeps DEF Extends
<1>2. AddBalance(db, a, n) = IF n = 0 THEN g ELSE Journaled(g, a, o)
  BY DEF AddBalance
<1>3. Backed(disk, o)
  BY <1>1, ChangedBacked, ZenonT(60)
<1> HIDE DEF g, o
<1>4. Extends(g, Journaled(g, a, o))
  BY <1>1, <1>3, PutKeeps, ZenonT(60)
<1> QED BY <1>1, <1>2, <1>4, ExtendsTwice

\* SetNonce and SetCode.
LEMMA SetKeeps ==
  ASSUME DiskInv, NEW db, Based(disk, db), NEW a, NEW x
  PROVE  Extends(db, SetNonce(db, a, x)) /\ Extends(db, SetCode(db, a, x))
<1> DEFINE g == GetOrNewOperationObject(db, a)
           o == [g.objects[a] EXCEPT !.data.nonce = x]
           q == [g.objects[a] EXCEPT !.data.code = x, !.dirtyCode = TRUE]
<1>1. Extends(db, g) /\ Based(disk, g) /\ Backed(disk, g.objects[a])
  BY GetOrNewKeeps DEF Extends
<1>2. SetNonce(db, a, x) = Journaled(g, a, o) /\ SetCode(db, a, x) = Journaled(g, a, q)
  BY DEF SetNonce, SetCode
<1>3. Backed(disk, o) /\ Backed(disk, q)
  BY <1>1, ChangedBacked, ZenonT(60)
<1> HIDE DEF g, o, q
<1>4. Extends(g, Journaled(g, a, o)) /\ Extends(g, Journaled(g, a, q))
  BY <1>1, <1>3, PutKeeps, ZenonT(60)
<1> QED BY <1>1, <1>2, <1>4, ExtendsTwice

\* SetState, which may open the storage trie even if it changes nothing.
LEMMA SetStateKeeps ==
  ASSUME DiskInv, NEW db, Based(disk, db), NEW a, NEW k, NEW v
  PROVE  Extends(db, SetState(db, a, k, v))
<1> DEFINE g == GetOrNewOperationObject(db, a)
           o == IF Cached(g.objects[a], k) THEN g.objects[a] ELSE getTrie(g.objects[a])
           q == [o EXCEPT !.dirty = Put(o.dirty, k, v)]
<1>1. Extends(db, g) /\ Based(disk, g) /\ Backed(disk, g.objects[a])
  BY GetOrNewKeeps DEF Extends
<1>2. Backed(disk, o)
  BY <1>1, GetTrieKeeps
<1>3. SetState(db, a, k, v) = IF GetState(o, k) = v THEN setOperationObject(g, a, o) ELSE Journaled(g, a, q)
  BY DEF SetState
<1> HIDE DEF g, o
<1>4. Backed(disk, q)
  BY <1>2, ChangedBacked, ZenonT(60)
<1> HIDE DEF q
<1>5. Extends(g, setOperationObject(g, a, o)) /\ Extends(g, Journaled(g, a, q))
  BY <1>1, <1>2, <1>4, PutKeeps, ZenonT(60)
<1> QED BY <1>1, <1>3, <1>5, ExtendsTwice

\* Suicide of an account that exists.
LEMMA SuicideKeeps ==
  ASSUME DiskInv, NEW db, Based(disk, db), NEW a, Exist(db, a)
  PROVE  Extends(db, Suicide(db, a))
<1> DEFINE l == Loaded(db, a)
           o == [Object(db, a) EXCEPT !.suicided = TRUE, !.data.balance = 0]
<1>1. Extends(db, l) /\ Based(disk, l) /\ Backed(disk, o)
  BY LoadedKeeps, ChangedBacked, ZenonT(60) DEF Extends
<1>2. Suicide(db, a) = Journaled(l, a, o)
  BY DEF Suicide
<1> HIDE DEF l, o
<1>3. Extends(l, Journaled(l, a, o))
  BY <1>1, PutKeeps, ZenonT(60)
<1> QED BY <1>1, <1>2, <1>3, ExtendsTwice

\* CreateAccount.
LEMMA CreateAccountKeeps ==
  ASSUME DiskInv, NEW db, Based(disk, db), NEW a
  PROVE  Extends(db, CreateAccount(db, a)) /\ a \in DOMAIN CreateAccount(db, a).objects
<1> DEFINE c == createObject(db, a)
           o == [c.objects[a] EXCEPT !.data.balance = Object(db, a).data.balance]
<1>1. Extends(db, c) /\ Based(disk, c) /\ a \in DOMAIN c.objects /\ Backed(disk, c.objects[a])
  BY CreatedKeeps DEF Extends, Based
<1>2. CreateAccount(db, a) = IF Exist(db, a) THEN setOperationObject(c, a, o) ELSE c
  BY DEF CreateAccount
<1>3. Backed(disk, o)
  BY <1>1, ChangedBacked, ZenonT(60)
<1> HIDE DEF c, o
<1>4. Extends(c, setOperationObject(c, a, o)) /\ a \in DOMAIN setOperationObject(c, a, o).objects
  BY <1>1, <1>3, PutKeeps, ZenonT(60)
<1> QED BY <1>1, <1>2, <1>4, ExtendsTwice

-----------------------------------------------------------------------------
(* Copy, IntermediateRoot and Commit *)

\* Copy keeps every object that a commit would write.
LEMMA CopyKeeps ==
  ASSUME NEW db, Based(disk, db)
  PROVE  Based(disk, Copy(db))
<1> DEFINE touched == db.dirties \cap DOMAIN db.objects
           kept == touched \cup db.pending \cup db.dirty
           c == Copy(db)
<1>1. /\ IsDb(c) /\ c.trie = db.trie /\ c.objects = [a \in kept |-> db.objects[a]]
      /\ c.pending = touched \cup db.pending /\ c.dirty = touched \cup db.dirty
  BY DEF Copy, NewOperationDb, IsDb
<1>2. kept \subseteq DOMAIN db.objects
  BY DEF Based
<1> HIDE DEF c
<1>3. \A a \in DOMAIN c.objects : Backed(disk, c.objects[a])
  BY <1>1, <1>2 DEF Based
<1>4. c.pending \subseteq c.dirty /\ c.dirty \subseteq DOMAIN c.objects
  BY <1>1 DEF Based
<1>5. Based(disk, c)
  BY <1>1, <1>3, <1>4 DEF Based
<1> QED BY <1>5 DEF c

\* Finalise empties the journal; the objects of its accounts are dirty.
LEMMA FinalisedKeeps ==
  ASSUME NEW db, Based(disk, db)
  PROVE  Based(disk, Finalise(db)) /\ Finalise(db).dirties = {} /\ Finalise(db).trie = db.trie
<1> DEFINE touched == db.dirties \cap DOMAIN db.objects
           done(o) == IF o.suicided \/ (EIP158 /\ empty(o)) THEN [o EXCEPT !.deleted = TRUE] ELSE finalise(o)
           objects == [a \in DOMAIN db.objects |-> IF a \in touched THEN done(db.objects[a]) ELSE db.objects[a]]
           f == Finalise(db)
<1>1. f = [db EXCEPT !.objects = objects, !.pending = @ \cup touched, !.dirty = @ \cup touched, !.dirties = {}]
  BY ZenonT(60) DEF Finalise
<1>2. ASSUME NEW a \in DOMAIN db.objects PROVE Backed(disk, objects[a])
  <2>1. Backed(disk, db.objects[a])
    BY DEF Based
  <2>2. Backed(disk, [db.objects[a] EXCEPT !.deleted = TRUE])
    BY <2>1 DEF Backed, IsObject
  <2>3. Backed(disk, finalise(db.objects[a]))
    BY <2>1, FinaliseKeeps
  <2>4. objects[a] \in {db.objects[a], [db.objects[a] EXCEPT !.deleted = TRUE], finalise(db.objects[a])}
    OBVIOUS
  <2> QED BY <2>1, <2>2, <2>3, <2>4
<1>3. DOMAIN objects = DOMAIN db.objects /\ touched \subseteq DOMAIN db.objects
  OBVIOUS
<1> HIDE DEF f, objects, touched
<1>4. /\ IsDb(f) /\ f.trie = db.trie /\ f.objects = objects /\ f.dirties = {}
      /\ f.pending = db.pending \cup touched /\ f.dirty = db.dirty \cup touched
  BY <1>1 DEF Based, IsDb
<1>5. Based(disk, f) /\ f.dirties = {} /\ f.trie = db.trie
  BY <1>2, <1>3, <1>4 DEF Based
<1> QED BY <1>5 DEF f

\* The state whose root IntermediateRoot returns.
LEMMA RootFacts ==
  ASSUME NEW db, IsDb(db), IsDb(Finalise(db)),
         Finalise(db).pending \subseteq DOMAIN Finalise(db).objects
  PROVE  LET f == Finalise(db)
             i == IntermediateRoot(db)
         IN  /\ IsDb(i) /\ i.pending = {} /\ i.dirties = f.dirties /\ i.dirty = f.dirty
             /\ DOMAIN i.objects = DOMAIN f.objects
             /\ \A a \in DOMAIN f.objects :
                  i.objects[a] = IF a \in f.pending /\ ~f.objects[a].deleted THEN updateRoot(f.objects[a])
                                 ELSE f.objects[a]
             /\ \A a \in DOMAIN i.trie :
                  \/ a \in f.pending /\ ~i.objects[a].deleted /\ i.trie[a] = i.objects[a].data
                  \/ a \in DOMAIN f.trie /\ i.trie[a] = f.trie[a]
<1> DEFINE f == Finalise(db)
           i == IntermediateRoot(db)
           objects == [a \in DOMAIN f.objects |->
                         IF a \in f.pending /\ ~f.objects[a].deleted THEN updateRoot(f.objects[a]) ELSE f.objects[a]]
           gone == {a \in f.pending : objects[a].deleted}
           updated == [a \in f.pending \ gone |-> objects[a].data]
           rest == Without(f.trie, gone)
<1>1. i = [f EXCEPT !.objects = objects, !.trie = Over(updated, rest), !.pending = {}]
  BY ZenonT(60) DEF IntermediateRoot
<1> HIDE DEF f, i
<1>2. /\ IsDb(i) /\ i.pending = {} /\ i.dirties = f.dirties /\ i.dirty = f.dirty
      /\ i.objects = objects /\ i.trie = Over(updated, rest)
  BY <1>1 DEF IsDb, f
<1>3. /\ DOMAIN rest \subseteq DOMAIN f.trie /\ \A a \in DOMAIN rest : rest[a] = f.trie[a]
  BY DEF Without
<1>4. ASSUME NEW a \in DOMAIN i.trie
      PROVE  \/ a \in f.pending /\ ~objects[a].deleted /\ i.trie[a] = objects[a].data
             \/ a \in DOMAIN f.trie /\ i.trie[a] = f.trie[a]
  <2>1. CASE a \in DOMAIN updated
    <3>1. a \in f.pending \ gone /\ updated[a] = objects[a].data
      BY <2>1
    <3> HIDE DEF updated, rest
    <3>2. i.trie[a] = updated[a]
      BY <1>2, <2>1 DEF Over
    <3> QED BY <3>1, <3>2
  <2>2. CASE a \notin DOMAIN updated
    <3> HIDE DEF updated, rest
    <3>1. a \in DOMAIN rest /\ i.trie[a] = rest[a]
      BY <1>2, <2>2 DEF Over
    <3> QED BY <1>3, <3>1
  <2> QED BY <2>1, <2>2
<1>5. /\ DOMAIN objects = DOMAIN f.objects
      /\ \A a \in DOMAIN f.objects :
           objects[a] = IF a \in f.pending /\ ~f.objects[a].deleted THEN updateRoot(f.objects[a]) ELSE f.objects[a]
  OBVIOUS
<1> HIDE DEF objects
<1> QED BY <1>2, <1>4, <1>5, ZenonT(60) DEF f, i

\* An account of the state that IntermediateRoot leaves is the parent's, or dirty.
LEMMA RootSealed ==
  ASSUME DiskInv, NEW db, Based(disk, db)
  PROVE  Sealed(disk, IntermediateRoot(db))
<1> DEFINE f == Finalise(db)
           i == IntermediateRoot(db)
<1>1. Based(disk, f) /\ f.dirties = {} /\ f.trie = db.trie
  BY FinalisedKeeps
<1>2. /\ IsDb(i) /\ i.pending = {} /\ i.dirties = f.dirties /\ i.dirty = f.dirty
      /\ DOMAIN i.objects = DOMAIN f.objects
      /\ \A a \in DOMAIN f.objects :
           i.objects[a] = IF a \in f.pending /\ ~f.objects[a].deleted THEN updateRoot(f.objects[a]) ELSE f.objects[a]
      /\ \A a \in DOMAIN i.trie :
           \/ a \in f.pending /\ ~i.objects[a].deleted /\ i.trie[a] = i.objects[a].data
           \/ a \in DOMAIN f.trie /\ i.trie[a] = f.trie[a]
  BY <1>1, RootFacts, ZenonT(60) DEF Based
<1> HIDE DEF f, i
<1>3. ASSUME NEW a \in DOMAIN i.trie
      PROVE  \/ Stored(disk, i.trie[a])
             \/ /\ a \in i.dirty /\ ~i.objects[a].deleted
                /\ Updated(disk, i.objects[a]) /\ i.objects[a].data = i.trie[a]
  <2>1. CASE a \in DOMAIN f.trie /\ i.trie[a] = f.trie[a]
    BY <1>1, <2>1 DEF DiskInv, Based
  <2>2. CASE a \in f.pending /\ ~i.objects[a].deleted /\ i.trie[a] = i.objects[a].data
    <3>1. a \in DOMAIN f.objects /\ a \in f.dirty /\ Backed(disk, f.objects[a])
      BY <1>1, <2>2 DEF Based
    <3>2. ~f.objects[a].deleted /\ i.objects[a] = updateRoot(f.objects[a])
      BY <1>2, <2>2, <3>1
    <3>3. Updated(disk, i.objects[a])
      BY <3>1, <3>2, UpdateRootKeeps
    <3> QED BY <1>2, <2>2, <3>1, <3>3
  <2> QED BY <1>2, <2>1, <2>2
<1>4. i.dirty \subseteq DOMAIN i.objects
  BY <1>1, <1>2 DEF Based
<1>5. Sealed(disk, i)
  BY <1>1, <1>2, <1>3, <1>4 DEF Sealed
<1> QED BY <1>5 DEF i

\* The second IntermediateRoot of a block, in Commit, changes nothing.
LEMMA SealedAgain ==
  ASSUME NEW d, NEW db, Sealed(d, db)
  PROVE  Sealed(d, IntermediateRoot(db))
<1> DEFINE f == Finalise(db)
           i == IntermediateRoot(db)
<1>1. /\ IsDb(f) /\ f.trie = db.trie /\ f.dirties = {} /\ f.pending = {} /\ f.dirty = db.dirty
      /\ DOMAIN f.objects = DOMAIN db.objects /\ \A a \in DOMAIN db.objects : f.objects[a] = db.objects[a]
  <2> DEFINE touched == db.dirties \cap DOMAIN db.objects
             done(o) == IF o.suicided \/ (EIP158 /\ empty(o)) THEN [o EXCEPT !.deleted = TRUE] ELSE finalise(o)
             objects == [a \in DOMAIN db.objects |-> IF a \in touched THEN done(db.objects[a]) ELSE db.objects[a]]
  <2>1. f = [db EXCEPT !.objects = objects, !.pending = @ \cup touched, !.dirty = @ \cup touched, !.dirties = {}]
    BY ZenonT(60) DEF Finalise
  <2>2. touched = {}
    BY DEF Sealed
  <2>3. DOMAIN objects = DOMAIN db.objects /\ \A a \in DOMAIN db.objects : objects[a] = db.objects[a]
    BY <2>2
  <2> HIDE DEF f, objects, touched
  <2>4. /\ IsDb(f) /\ f.trie = db.trie /\ f.dirties = {} /\ f.pending = db.pending \cup touched
        /\ f.dirty = db.dirty \cup touched /\ f.objects = objects
    BY <2>1 DEF Sealed, IsDb
  <2> QED BY <2>2, <2>3, <2>4 DEF Sealed
<1>2. /\ IsDb(i) /\ i.pending = {} /\ i.dirties = f.dirties /\ i.dirty = f.dirty
      /\ DOMAIN i.objects = DOMAIN f.objects
      /\ \A a \in DOMAIN f.objects :
           i.objects[a] = IF a \in f.pending /\ ~f.objects[a].deleted THEN updateRoot(f.objects[a]) ELSE f.objects[a]
      /\ \A a \in DOMAIN i.trie :
           \/ a \in f.pending /\ ~i.objects[a].deleted /\ i.trie[a] = i.objects[a].data
           \/ a \in DOMAIN f.trie /\ i.trie[a] = f.trie[a]
  BY <1>1, RootFacts, ZenonT(60) DEF Sealed
<1> HIDE DEF f, i
<1>3. /\ \A a \in DOMAIN db.objects : i.objects[a] = db.objects[a]
      /\ \A a \in DOMAIN i.trie : a \in DOMAIN db.trie /\ i.trie[a] = db.trie[a]
  BY <1>1, <1>2
<1>4. ASSUME NEW a \in DOMAIN i.trie
      PROVE  \/ Stored(d, i.trie[a])
             \/ /\ a \in i.dirty /\ ~i.objects[a].deleted
                /\ Updated(d, i.objects[a]) /\ i.objects[a].data = i.trie[a]
  BY <1>1, <1>2, <1>3 DEF Sealed
<1>5. Sealed(d, i)
  BY <1>1, <1>2, <1>4 DEF Sealed
<1> QED BY <1>5 DEF i

\* Commit writes what the accounts of the new state lack.
LEMMA CommittedComplete ==
  ASSUME DiskInv, NEW db, NEW failed \in BOOLEAN, Sealed(disk, IntermediateRoot(db))
  PROVE  LET d == Committed(db, failed)
             i == IntermediateRoot(db)
         IN  /\ IsDisk(d) /\ d.roots = disk.roots \cup {i.trie}
             /\ disk.storages \subseteq d.storages /\ Given(disk) \subseteq Given(d)
             /\ \A a \in DOMAIN i.trie : Stored(d, i.trie[a])
<1> DEFINE i == IntermediateRoot(db)
           d == Committed(db, failed)
           live == {i.objects[a] : a \in {x \in i.dirty : ~i.objects[x].deleted}}
           fresh == {o.data.code : o \in {x \in live : x.dirtyCode}}
<1>1. /\ IsDisk(d) /\ d.roots = disk.roots \cup {i.trie}
      /\ d.storages = disk.storages \cup ({updateTrie(o).trie : o \in live} \ {Nil})
      /\ Given(d) = Given(disk) \cup fresh
  <2>1. /\ IsDisk(d) /\ d.roots = disk.roots \cup {i.trie}
        /\ d.storages = disk.storages \cup ({updateTrie(o).trie : o \in live} \ {Nil})
        /\ d.codes = IF failed THEN disk.codes ELSE disk.codes \cup fresh
        /\ d.missing = IF failed THEN disk.missing \cup fresh ELSE disk.missing
    BY DEF Committed, IsDisk
  <2> HIDE DEF i, d, live, fresh
  <2> QED BY <2>1 DEF Given
<1>2. \A a \in i.dirty : ~i.objects[a].deleted => i.objects[a] \in live
  OBVIOUS
<1> HIDE DEF i, d, live
<1>3. ASSUME NEW a \in DOMAIN i.trie PROVE Stored(d, i.trie[a])
  <2>1. CASE Stored(disk, i.trie[a])
    BY <1>1, <2>1 DEF Stored
  <2>2. CASE /\ a \in i.dirty /\ ~i.objects[a].deleted
             /\ Updated(disk, i.objects[a]) /\ i.objects[a].data = i.trie[a]
    <3> DEFINE o == i.objects[a]
    <3>1. o \in live
      BY <1>2, <2>2
    <3>2. updateTrie(o).trie = o.trie
      BY <2>2, UpdatedAgain
    <3> HIDE DEF o
    <3>3. Updated(disk, o) /\ o.data = i.trie[a]
      BY <2>2 DEF o
    <3>4. o.trie # Nil => o.trie \in d.storages
      BY <1>1, <3>1, <3>2
    <3>5. o.data.root \in d.storages
      BY <1>1, <3>3, <3>4 DEF Updated
    <3>6. o.dirtyCode => o.data.code \in Given(d)
      BY <1>1, <3>1
    <3>7. o.data.code \in Given(d) \cup {NoCode}
      BY <1>1, <3>3, <3>6 DEF Updated
    <3> QED BY <3>3, <3>5, <3>7 DEF Stored, Updated, IsObject
  <2> QED BY <2>1, <2>2 DEF Sealed, i
<1> QED BY <1>1, <1>3 DEF d, i

\* Nothing is taken from the trie database.
Grows(d, e) == d.roots \subseteq e.roots /\ d.storages \subseteq e.storages /\ Given(d) \subseteq Given(e)

\* What is on disk stays there.
LEMMA StillKept ==
  ASSUME NEW d, NEW e, Grows(d, e), NEW db
  PROVE  (Based(d, db) => Based(e, db)) /\ (Sealed(d, db) => Sealed(e, db))
<1>1. Based(d, db) => Based(e, db)
  BY DEF Grows, Based, Backed
<1>2. Sealed(d, db) => Sealed(e, db)
  <2>1. \A data : Stored(d, data) => Stored(e, data)
    BY DEF Grows, Stored
  <2>2. \A o : Updated(d, o) => Updated(e, o)
    BY DEF Grows, Updated
  <2> QED BY <2>1, <2>2 DEF Sealed
<1> QED BY <1>1, <1>2

\* Committing a state adds it, complete, to the trie database.
LEMMA CommitKeeps ==
  ASSUME DiskInv, NEW db, NEW failed \in BOOLEAN, Sealed(disk, IntermediateRoot(db)), disk' = Committed(db, failed)
  PROVE  DiskInv' /\ Grows(disk, disk') /\ IntermediateRoot(db).trie \in disk'.roots
<1> DEFINE i == IntermediateRoot(db)
           d == Committed(db, failed)
<1>1. /\ IsDisk(d) /\ d.roots = disk.roots \cup {i.trie}
      /\ disk.storages \subseteq d.storages /\ Given(disk) \subseteq Given(d)
      /\ \A a \in DOMAIN i.trie : Stored(d, i.trie[a])
  BY CommittedComplete, ZenonT(60)
<1> HIDE DEF i, d
<1>2. disk' = d
  BY DEF d
<1>3. \A r \in d.roots : \A a \in DOMAIN r : Stored(d, r[a])
  BY <1>1 DEF DiskInv, Stored
<1>4. EmptyTrie' = EmptyTrie
  BY DEF EmptyTrie, Zero
<1>5. DiskInv'
  BY <1>1, <1>2, <1>3, <1>4 DEF DiskInv
<1>6. Grows(disk, disk') /\ i.trie \in disk'.roots
  BY <1>1, <1>2 DEF Grows
<1> QED BY <1>5, <1>6 DEF i

\* A block starts with a state that is on disk and no object.
LEMMA NewDbBased ==
  ASSUME NEW d, NEW root \in d.roots
  PROVE  Based(d, NewOperationDb(root))
  BY DEF Based, NewOperationDb, IsDb, Nothing

-----------------------------------------------------------------------------
(* The steps *)

\* An operation of a transaction.
LEMMA OperationKeeps ==
  ASSUME IInv, NEW db, Operation(db), Extends(env, db), creating' # Nil => creating' \in DOMAIN db.objects
  PROVE  IInv'
<1>1. env' = db /\ tasks' = tasks /\ disk' = disk
  BY DEF Operation
<1>2. DiskInv' /\ \A t \in tasks' : Sealed(disk', t.db)
  BY <1>1 DEF IInv, DiskInv
<1>3. Based(disk', env')
  BY <1>1 DEF Extends
<1> QED BY <1>1, <1>2, <1>3 DEF IInv

\* An account exists if it was created or is in the trie.
LEMMA ExistFacts ==
  ASSUME NEW db, IsDb(db), NEW a
  PROVE  Exist(db, a) <=> a \in DOMAIN db.objects \cup DOMAIN db.trie
<1>1. CASE a \in DOMAIN db.objects \/ a \notin DOMAIN db.trie
  BY <1>1 DEF Exist, Loaded
<1>2. CASE ~(a \in DOMAIN db.objects \/ a \notin DOMAIN db.trie)
  <2>1. Loaded(db, a).objects = Put(db.objects, a, newObject(db.trie[a]))
    BY <1>2 DEF Loaded, IsDb
  <2> QED BY <1>2, <2>1 DEF Exist, Put
<1> QED BY <1>1, <1>2

\* The account whose code runs exists, also after another one was paid.
LEMMA RunsExists ==
  ASSUME IInv, NEW a \in Users, Runs(a), NEW db, Extends(env, db)
  PROVE  Exist(db, a)
<1>1. a \in DOMAIN env.objects \cup DOMAIN env.trie
  <2>1. CASE creating = a
    BY <2>1, NilAssumption DEF IInv
  <2>2. CASE HasCode(a)
    BY <2>2, ExistFacts DEF HasCode, IInv, Based
  <2> QED BY <2>1, <2>2 DEF Runs
<1>2. IsDb(db) /\ a \in DOMAIN db.objects \cup DOMAIN db.trie
  BY <1>1 DEF Extends, Based
<1> QED BY <1>2, ExistFacts

\* Every operation of a transaction keeps the invariant.
LEMMA TransactionKeeps ==
  ASSUME IInv, NEW a \in Users,
         \/ \E n \in Amounts : Pay(a, n)
         \/ Use(a) \/ Create(a)
         \/ \E b \in Addresses : Destroy(a, b)
         \/ \E c \in Codes : Deploy(a, c)
         \/ \E k \in Keys, v \in Values : Store(a, k, v)
  PROVE  IInv'
<1>1. DiskInv /\ Based(disk, env) /\ (creating # Nil => creating \in DOMAIN env.objects)
  BY DEF IInv
<1>2. ASSUME NEW db, Operation(db), Extends(env, db), UNCHANGED creating \/ creating' = Nil
      PROVE  IInv'
  <2>1. creating' # Nil => creating' \in DOMAIN db.objects
    BY <1>1, <1>2 DEF Extends
  <2> QED BY <1>2, <2>1, OperationKeeps
<1>3. CASE \E n \in Amounts : Pay(a, n)
  <2>1. PICK n \in Amounts : Pay(a, n)
    BY <1>3
  <2>2. Operation(AddBalance(env, a, n)) /\ UNCHANGED creating
    BY <2>1 DEF Pay
  <2>3. Extends(env, AddBalance(env, a, n))
    BY <1>1, AddBalanceKeeps
  <2> QED BY <1>2, <2>2, <2>3
<1>4. CASE Use(a)
  <2>1. Operation(SetNonce(env, a, GetNonce(a) + 1)) /\ UNCHANGED creating
    BY <1>4 DEF Use
  <2>2. Extends(env, SetNonce(env, a, GetNonce(a) + 1))
    BY <1>1, SetKeeps
  <2> QED BY <1>2, <2>1, <2>2
<1>5. CASE Create(a)
  <2> DEFINE c == CreateAccount(env, a)
             db == IF EIP158 THEN SetNonce(c, a, 1) ELSE c
  <2>1. Operation(db) /\ creating' = a
    BY <1>5 DEF Create
  <2>2. Extends(env, c) /\ Based(disk, c) /\ a \in DOMAIN c.objects
    BY <1>1, CreateAccountKeeps DEF Extends
  <2> HIDE DEF c
  <2>3. Extends(c, SetNonce(c, a, 1))
    BY <1>1, <2>2, SetKeeps
  <2>4. Extends(env, db) /\ a \in DOMAIN db.objects
    BY <2>2, <2>3 DEF Extends
  <2> HIDE DEF db
  <2> QED BY <2>1, <2>4, OperationKeeps
<1>6. CASE \E b \in Addresses : Destroy(a, b)
  <2>1. PICK b \in Addresses : Destroy(a, b)
    BY <1>6
  <2> DEFINE paid == AddBalance(env, b, GetBalance(a))
  <2>2. Runs(a) /\ Operation(Suicide(paid, a)) /\ UNCHANGED creating
    BY <2>1 DEF Destroy
  <2>3. Extends(env, paid) /\ Based(disk, paid)
    BY <1>1, AddBalanceKeeps DEF Extends
  <2> HIDE DEF paid
  <2>4. Extends(paid, Suicide(paid, a))
    BY <1>1, <2>2, <2>3, RunsExists, SuicideKeeps
  <2>5. Extends(env, Suicide(paid, a))
    BY <2>3, <2>4, ExtendsTwice
  <2> QED BY <1>2, <2>2, <2>5
<1>7. CASE \E c \in Codes : Deploy(a, c)
  <2>1. PICK c \in Codes : Deploy(a, c)
    BY <1>7
  <2>2. Operation(SetCode(env, a, c)) /\ creating' = Nil
    BY <2>1 DEF Deploy
  <2>3. Extends(env, SetCode(env, a, c))
    BY <1>1, SetKeeps
  <2> QED BY <1>2, <2>2, <2>3
<1>8. CASE \E k \in Keys, v \in Values : Store(a, k, v)
  <2>1. PICK k \in Keys, v \in Values : Store(a, k, v)
    BY <1>8
  <2>2. Operation(SetState(env, a, k, v)) /\ UNCHANGED creating
    BY <2>1 DEF Store
  <2>3. Extends(env, SetState(env, a, k, v))
    BY <1>1, SetStateKeeps
  <2> QED BY <1>2, <2>2, <2>3
<1> QED BY <1>3, <1>4, <1>5, <1>6, <1>7, <1>8

\* Assembling a block: the task has a state that was copied twice and sealed.
LEMMA AssembleKeeps == IInv /\ Assemble => IInv'
<1> SUFFICES ASSUME IInv, Assemble PROVE IInv'
  OBVIOUS
<1> DEFINE copied == Copy(Copy(env))
           paid == AddBalance(copied, Coinbase, Reward)
           db == IntermediateRoot(paid)
<1>1. DiskInv /\ Based(disk, copied)
  BY CopyKeeps DEF IInv
<1>2. Based(disk, paid)
  BY <1>1, AddBalanceKeeps DEF Extends
<1>3. Sealed(disk, db)
  BY <1>1, <1>2, RootSealed
<1>4. /\ UNCHANGED <<env, creating, disk>>
      /\ tasks' = tasks \cup {[root |-> db.trie, db |-> db]}
  BY ZenonT(60) DEF Assemble
<1> HIDE DEF db
<1>5. \A t \in tasks' : Sealed(disk, t.db)
  BY <1>3, <1>4 DEF IInv
<1>6. DiskInv' /\ Based(disk, env)' /\ (creating # Nil => creating \in DOMAIN env.objects)'
  BY <1>4 DEF IInv, DiskInv
<1> QED BY <1>4, <1>5, <1>6 DEF IInv

\* Writing a sealed block, and importing one.
LEMMA WriteKeeps ==
  ASSUME IInv, \E failed \in BOOLEAN : Import(failed) \/ \E t \in tasks : WriteSealed(t, failed)
  PROVE  IInv'
<1>1. DiskInv /\ Based(disk, env)
  BY DEF IInv
<1>2. CASE \E t \in tasks, failed \in BOOLEAN : WriteSealed(t, failed)
  <2>1. PICK t \in tasks, failed \in BOOLEAN : WriteSealed(t, failed)
    BY <1>2
  <2>2. disk' = Committed(t.db, failed) /\ tasks' = tasks \ {t} /\ UNCHANGED <<env, creating>>
    BY <2>1 DEF WriteSealed
  <2>3. Sealed(disk, IntermediateRoot(t.db))
    BY SealedAgain DEF IInv
  <2>4. DiskInv' /\ Grows(disk, disk')
    BY <1>1, <2>2, <2>3, CommitKeeps
  <2>5. Based(disk', env) /\ \A x \in tasks' : Sealed(disk', x.db)
    BY <1>1, <2>2, <2>4, StillKept DEF IInv
  <2> QED BY <2>2, <2>4, <2>5 DEF IInv
<1>3. CASE \E failed \in BOOLEAN : Import(failed)
  <2>0. PICK failed \in BOOLEAN : Import(failed)
    BY <1>3
  <2> DEFINE root == IntermediateRoot(env).trie
  <2>1. disk' = Committed(env, failed) /\ env' = NewOperationDb(root) /\ creating = Nil /\ UNCHANGED <<creating, tasks>>
    BY <2>0 DEF Import
  <2>2. Sealed(disk, IntermediateRoot(env))
    BY <1>1, RootSealed
  <2>3. DiskInv' /\ Grows(disk, disk') /\ root \in disk'.roots
    BY <1>1, <2>1, <2>2, CommitKeeps
  <2> HIDE DEF root
  <2>4. Based(disk', env')
    BY <2>1, <2>3, NewDbBased
  <2>5. \A x \in tasks' : Sealed(disk', x.db)
    BY <2>1, <2>3, StillKept DEF IInv
  <2> QED BY <2>1, <2>3, <2>4, <2>5 DEF IInv
<1> QED BY <1>2, <1>3

\* The genesis block is complete, and the first block is executed on it.
LEMMA InitComplete == Init => IInv
<1> SUFFICES ASSUME Init PROVE IInv
  OBVIOUS
<1>1. /\ disk.roots = {Genesis} /\ IsDisk(disk) /\ EmptyTrie \in disk.storages
      /\ \A a \in DOMAIN Genesis : Genesis[a].root \in disk.storages /\ Genesis[a].code \in Given(disk)
  BY DEF Init, IsDisk, Given
<1>2. DiskInv
  BY <1>1, GenesisAssumption DEF DiskInv, Stored, IsAccount, Accounts
<1>3. Based(disk, env)
  BY <1>1, NewDbBased DEF Init
<1> QED BY <1>2, <1>3 DEF Init, IInv

\* Every step keeps the invariant.
LEMMA NextComplete == IInv /\ [Next]_vars => IInv'
<1> SUFFICES ASSUME IInv, [Next]_vars PROVE IInv'
  OBVIOUS
<1>1. CASE \E root \in disk.roots : StateAt(root)
  <2>1. PICK root \in disk.roots : StateAt(root)
    BY <1>1
  <2>2. env' = NewOperationDb(root) /\ creating = Nil /\ UNCHANGED <<creating, tasks, disk>>
    BY <2>1 DEF StateAt
  <2>3. Based(disk, env')
    BY <2>2, NewDbBased
  <2> QED BY <2>2, <2>3 DEF IInv, DiskInv
<1>2. CASE CreateFails
  BY <1>2 DEF CreateFails, IInv, DiskInv
<1>3. CASE UNCHANGED vars
  BY <1>3 DEF vars, IInv, DiskInv
<1>4. CASE Next
  BY <1>1, <1>2, <1>4, TransactionKeeps, AssembleKeeps, WriteKeeps, ZenonT(60) DEF Next
<1> QED BY <1>3, <1>4

(* Every account of a committed state has its storage in the trie database, and *)
(* its code unless a batch with that code failed, although Commit writes only   *)
(* what is dirty: whatever was executed, copied and sealed in between, in       *)
(* whatever order blocks are written, on top of whatever state, and whichever   *)
(* batches of code fail while the tries are committed all the same.             *)
THEOREM CommittedIsComplete == Spec => []RootsComplete
<1>1. IInv => RootsComplete
  BY DEF IInv, DiskInv, Stored, Given, RootsComplete
<1> QED BY <1>1, InitComplete, NextComplete, PTL DEF Spec

-----------------------------------------------------------------------------
(* What the transactions of a block see *)

IsState(r) == \A a \in DOMAIN r : r[a] \in Accounts

\* The accounts whose object IntermediateRoot will write.
Changed(db) == db.dirties \cup db.dirty

\* An object of the account a: its storage is the parent's or none, with the dirty
\* slots over it; if it was not changed, neither was the account, but for storage
\* that CreateAccount made invisible.
Fits(db, a, o) ==
  /\ o.data \in Accounts /\ o.suicided \in BOOLEAN /\ o.deleted = FALSE
  /\ o.origin = Nothing /\ o.pending = Nothing
  /\ DOMAIN o.dirty \subseteq Keys /\ \A k \in DOMAIN o.dirty : o.dirty[k] \in Slots
  /\ o.data.root = EmptyTrie \/ (a \in DOMAIN db.trie /\ o.data.root = db.trie[a].root)
  /\ a \in Changed(db) \/ (/\ a \in DOMAIN db.trie /\ o.suicided = FALSE /\ DOMAIN o.dirty = {}
                           /\ o.data = [db.trie[a] EXCEPT !.root = o.data.root])

Fitted(db) ==
  /\ IsState(db.trie) /\ db.pending = db.dirty
  /\ \A a \in DOMAIN db.objects : Fits(db, a, db.objects[a])

RInv ==
  /\ \A r \in disk.roots : IsState(r)
  /\ Fitted(env) /\ env.originalRoot = env.trie /\ env.dirty = {}
  /\ \A t \in tasks : t.root = t.db.trie /\ IsState(t.root)

\* What the getters return, without the trie database.
Slot(o, k) == IF k \in DOMAIN o.dirty THEN o.dirty[k] ELSE o.data.root[k]
ObjectView(o) == AccountView(o.data, [k \in Keys |-> Slot(o, k)], o.suicided)
Seen(db) ==
  [a \in Addresses |->
     IF a \in DOMAIN db.objects THEN ObjectView(db.objects[a])
     ELSE IF a \in DOMAIN db.trie THEN AccountView(db.trie[a], db.trie[a].root, FALSE) ELSE Nil]

\* The account an operation works on: a new one if there is none.
SeenOrNew(db, a) == IF Seen(db)[a] = Nil THEN W!Fresh ELSE Seen(db)[a]
Known(db, a) ==
  IF a \in DOMAIN db.objects THEN db.objects[a]
  ELSE IF a \in DOMAIN db.trie THEN newObject(db.trie[a]) ELSE newObject(NewAccount)

\* The object of a is o, all others are as they were.
Sets(db, next, a, o) ==
  /\ IsDb(next) /\ next.trie = db.trie /\ next.originalRoot = db.originalRoot
  /\ next.pending = db.pending /\ next.dirty = db.dirty
  /\ DOMAIN next.objects = DOMAIN db.objects \cup {a} /\ next.objects[a] = o
  /\ \A b \in DOMAIN db.objects : b # a => next.objects[b] = db.objects[b]
  /\ next.dirties \in {db.dirties, db.dirties \cup {a}}

\* The account a looks like x, all others as they did.
Shows(db, next, a, x) ==
  /\ Fitted(next) /\ next.trie = db.trie /\ next.originalRoot = db.originalRoot /\ next.dirty = db.dirty
  /\ Seen(next) = [Seen(db) EXCEPT ![a] = x]

\* What is seen of an object is the view of an account.
LEMMA ViewType ==
  ASSUME NEW db, NEW a, NEW o, Fits(db, a, o)
  PROVE  /\ ObjectView(o) \in Views /\ ObjectView(o) # Nil
         /\ \A k \in Keys : Slot(o, k) \in Slots
<1>1. o.data \in Accounts /\ o.suicided \in BOOLEAN
  BY DEF Fits
<1>2. \A k \in Keys : Slot(o, k) \in Slots
  BY <1>1 DEF Fits, Slot, Accounts
<1>3. [k \in Keys |-> Slot(o, k)] \in [Keys -> Slots]
  BY <1>2
<1>4. ObjectView(o) \in Views
  BY <1>1, <1>3 DEF ObjectView, AccountView, Views, Accounts
<1> QED BY <1>2, <1>4, NilAssumption

\* The same for an account of a state.
LEMMA StateView ==
  ASSUME NEW data \in Accounts
  PROVE  /\ AccountView(data, data.root, FALSE) \in Views /\ AccountView(data, data.root, FALSE) # Nil
         /\ ObjectView(newObject(data)) = AccountView(data, data.root, FALSE)
<1>1. AccountView(data, data.root, FALSE) \in Views
  BY DEF AccountView, Views, Accounts
<1>2. \A k \in Keys : Slot(newObject(data), k) = data.root[k]
  BY DEF Slot, newObject, Nothing
<1>3. [k \in Keys |-> Slot(newObject(data), k)] = data.root
  BY <1>2 DEF Accounts
<1>4. newObject(data).data = data /\ newObject(data).suicided = FALSE
  BY DEF newObject
<1>5. ObjectView(newObject(data)) = AccountView(data, data.root, FALSE)
  BY <1>3, <1>4 DEF ObjectView
<1> QED BY <1>1, <1>5, NilAssumption

\* A new account has nothing.
LEMMA NewAccountType == NewAccount \in Accounts /\ EmptyTrie \in [Keys -> Slots]
<1>1. EmptyTrie \in [Keys -> Slots]
  BY DEF EmptyTrie, Slots, Zero
<1> QED BY <1>1, AccountsAssumption DEF NewAccount, Accounts

\* The account that createObject makes, as WorldState names it.
LEMMA FreshSeen == W!Fresh = AccountView(NewAccount, NewAccount.root, FALSE)
  BY DEF W!Fresh, AccountView, NewAccount, EmptyTrie

\* The object of an account that is loaded, or created.
LEMMA KnownFacts ==
  ASSUME NEW db, IsDb(db), Fitted(db), NEW a \in Addresses
  PROVE  /\ SeenOrNew(db, a) = ObjectView(Known(db, a)) /\ SeenOrNew(db, a) \in Views
         /\ a \in DOMAIN db.objects \cup DOMAIN db.trie => Fits(db, a, Known(db, a))
         /\ Seen(db)[a] # Nil <=> a \in DOMAIN db.objects \cup DOMAIN db.trie
<1>1. CASE a \in DOMAIN db.objects
  <2>1. Fits(db, a, db.objects[a])
    BY <1>1 DEF Fitted
  <2>2. Seen(db)[a] = ObjectView(db.objects[a]) /\ Known(db, a) = db.objects[a]
    BY <1>1 DEF Seen, Known
  <2> QED BY <1>1, <2>1, <2>2, ViewType DEF SeenOrNew
<1>2. CASE a \notin DOMAIN db.objects /\ a \in DOMAIN db.trie
  <2>1. db.trie[a] \in Accounts
    BY <1>2 DEF Fitted, IsState
  <2>2. Seen(db)[a] = AccountView(db.trie[a], db.trie[a].root, FALSE) /\ Known(db, a) = newObject(db.trie[a])
    BY <1>2 DEF Seen, Known
  <2>3. Fits(db, a, newObject(db.trie[a]))
    <3> DEFINE o == newObject(db.trie[a])
    <3>1. /\ o.data = db.trie[a] /\ o.suicided = FALSE /\ o.deleted = FALSE /\ o.origin = Nothing
          /\ o.pending = Nothing /\ o.dirty = Nothing
      BY DEF newObject
    <3>2. DOMAIN Nothing = {}
      BY DEF Nothing
    <3> HIDE DEF o
    <3>3. o.data = [db.trie[a] EXCEPT !.root = o.data.root]
      BY <2>1, <3>1 DEF Accounts
    <3>4. Fits(db, a, o)
      BY <1>2, <2>1, <3>1, <3>2, <3>3 DEF Fits
    <3> QED BY <3>4 DEF o
  <2> QED BY <1>2, <2>1, <2>2, <2>3, StateView DEF SeenOrNew
<1>3. CASE a \notin DOMAIN db.objects \cup DOMAIN db.trie
  <2>1. Seen(db)[a] = Nil /\ Known(db, a) = newObject(NewAccount)
    BY <1>3 DEF Seen, Known
  <2> QED BY <1>3, <2>1, NewAccountType, FreshSeen, StateView DEF SeenOrNew
<1> QED BY <1>1, <1>2, <1>3

\* A change of one object is seen in its account only.
LEMMA SetsShows ==
  ASSUME NEW db, Fitted(db), NEW a \in Addresses, NEW next, NEW o, Sets(db, next, a, o), Fits(next, a, o)
  PROVE  Shows(db, next, a, ObjectView(o))
<1>1. Seen(next) = [Seen(db) EXCEPT ![a] = ObjectView(o)]
  <2>1. ASSUME NEW b \in Addresses
        PROVE  Seen(next)[b] = IF b = a THEN ObjectView(o) ELSE Seen(db)[b]
    BY DEF Seen, Sets
  <2>2. Seen(next) = [b \in Addresses |-> IF b = a THEN ObjectView(o) ELSE Seen(db)[b]]
    BY <2>1 DEF Seen
  <2>3. DOMAIN Seen(db) = Addresses
    BY DEF Seen
  <2> QED BY <2>2, <2>3
<1>2. Changed(db) \subseteq Changed(next)
  BY DEF Changed, Sets
<1>3. ASSUME NEW b \in DOMAIN next.objects PROVE Fits(next, b, next.objects[b])
  <2>1. CASE b = a
    BY <2>1 DEF Sets
  <2>2. CASE b # a
    <3>1. Fits(db, b, db.objects[b]) /\ next.objects[b] = db.objects[b]
      BY <2>2 DEF Sets, Fitted
    <3>2. next.trie = db.trie
      BY DEF Sets
    <3> QED BY <1>2, <3>1, <3>2 DEF Fits
  <2> QED BY <2>1, <2>2
<1>4. Fitted(next)
  BY <1>3 DEF Fitted, Sets
<1> QED BY <1>1, <1>4 DEF Shows, Sets

\* An object of the account a, whether changed or not.
Held(db, a, o) ==
  /\ o.data \in Accounts /\ o.suicided \in BOOLEAN /\ o.deleted = FALSE
  /\ o.origin = Nothing /\ o.pending = Nothing
  /\ DOMAIN o.dirty \subseteq Keys /\ \A k \in DOMAIN o.dirty : o.dirty[k] \in Slots
  /\ o.data.root = EmptyTrie \/ (a \in DOMAIN db.trie /\ o.data.root = db.trie[a].root)

\* The object that an operation works on has the storage of the parent, or none.
LEMMA KnownHeld ==
  ASSUME NEW db, IsDb(db), Fitted(db), NEW a \in Addresses
  PROVE  Held(db, a, Known(db, a))
<1>1. CASE a \in DOMAIN db.objects \cup DOMAIN db.trie
  BY <1>1, KnownFacts DEF Fits, Held
<1>2. CASE a \notin DOMAIN db.objects \cup DOMAIN db.trie
  <2>1. Known(db, a) = newObject(NewAccount)
    BY <1>2 DEF Known
  <2>2. DOMAIN Nothing = {}
    BY DEF Nothing
  <2>3. NewAccount.root = EmptyTrie
    BY DEF NewAccount
  <2> DEFINE o == newObject(NewAccount)
  <2>4. /\ o.data = NewAccount /\ o.suicided = FALSE /\ o.deleted = FALSE /\ o.origin = Nothing
        /\ o.pending = Nothing /\ o.dirty = Nothing
    BY DEF newObject
  <2> HIDE DEF o
  <2>5. Held(db, a, o)
    BY <2>2, <2>3, <2>4, NewAccountType DEF Held
  <2> QED BY <2>1, <2>5 DEF o
<1> QED BY <1>1, <1>2

\* getOperationObject of an account that exists, loaded from the trie if need be.
LEMMA KnownObject ==
  ASSUME NEW db, IsDb(db), NEW a, Exist(db, a)
  PROVE  /\ Object(db, a) = Known(db, a) /\ Sets(db, Loaded(db, a), a, Known(db, a))
         /\ a \in DOMAIN db.objects \cup DOMAIN db.trie
<1>1. CASE a \in DOMAIN db.objects
  <2>1. Loaded(db, a) = db
    BY <1>1 DEF Loaded
  <2> QED BY <1>1, <2>1 DEF Object, Known, Sets
<1>2. CASE a \notin DOMAIN db.objects
  <2>1. a \in DOMAIN db.trie
    BY <1>2 DEF Exist, Loaded
  <2>2. Loaded(db, a) = [db EXCEPT !.objects = Put(db.objects, a, newObject(db.trie[a]))]
    BY <1>2, <2>1 DEF Loaded
  <2>3. Known(db, a) = newObject(db.trie[a])
    BY <1>2, <2>1 DEF Known
  <2> DEFINE o == newObject(db.trie[a])
  <2> HIDE DEF o
  <2>4. Sets(db, [db EXCEPT !.objects = Put(db.objects, a, o)], a, o)
    BY DEF Sets, IsDb, Put
  <2>5. Loaded(db, a).objects[a] = o
    BY <2>2, <2>4 DEF Sets, o
  <2> QED BY <2>1, <2>2, <2>3, <2>4, <2>5 DEF o, Object
<1> QED BY <1>1, <1>2

\* setOperationObject, with or without an entry in the journal.
LEMMA PutSets ==
  ASSUME NEW db, NEW g, NEW a, NEW o, NEW q, Sets(db, g, a, o)
  PROVE  /\ Sets(db, setOperationObject(g, a, q), a, q)
         /\ setOperationObject(g, a, q).dirties = g.dirties
         /\ Sets(db, Journaled(g, a, q), a, q)
         /\ a \in Changed(Journaled(g, a, q))
<1> DEFINE s == setOperationObject(g, a, q)
           j == Journaled(g, a, q)
<1>1. /\ IsDb(s) /\ s.trie = g.trie /\ s.originalRoot = g.originalRoot /\ s.pending = g.pending
      /\ s.dirty = g.dirty /\ s.dirties = g.dirties /\ s.objects = Put(g.objects, a, q)
  BY DEF setOperationObject, Sets, IsDb
<1>2. /\ IsDb(j) /\ j.trie = s.trie /\ j.originalRoot = s.originalRoot /\ j.pending = s.pending
      /\ j.dirty = s.dirty /\ j.dirties = s.dirties \cup {a} /\ j.objects = s.objects
  BY <1>1 DEF Journaled, IsDb
<1> HIDE DEF s, j
<1>3. /\ DOMAIN s.objects = DOMAIN db.objects \cup {a} /\ s.objects[a] = q
      /\ \A b \in DOMAIN db.objects : b # a => s.objects[b] = db.objects[b]
  BY <1>1 DEF Sets, Put
<1>4. Sets(db, s, a, q)
  BY <1>1, <1>3 DEF Sets
<1>5. Sets(db, j, a, q)
  BY <1>1, <1>2, <1>3 DEF Sets
<1>6. a \in Changed(j)
  BY <1>2 DEF Changed
<1> QED BY <1>1, <1>4, <1>5, <1>6 DEF s, j

\* createObject; the account is in the journal if there was none.
LEMMA CreatedSets ==
  ASSUME NEW db, IsDb(db), NEW a
  PROVE  /\ Sets(db, createObject(db, a), a, newObject(NewAccount))
         /\ ~Exist(db, a) => a \in Changed(createObject(db, a))
<1> DEFINE l == Loaded(db, a)
           o == newObject(NewAccount)
           s == setOperationObject(l, a, o)
<1>1. Sets(db, s, a, o)
  <2>1. CASE Exist(db, a)
    BY <2>1, KnownObject, PutSets, ZenonT(60)
  <2>2. CASE ~Exist(db, a)
    <3>1. l = db
      BY <2>2, ExistFacts DEF Loaded
    <3> HIDE DEF o
    <3>2. Sets(db, setOperationObject(db, a, o), a, o)
      BY DEF Sets, setOperationObject, IsDb, Put
    <3> QED BY <3>1, <3>2
  <2> QED BY <2>1, <2>2
<1>2. createObject(db, a) = [s EXCEPT !.dirties = IF Exist(db, a) THEN s.dirties ELSE s.dirties \cup {a}]
  BY DEF createObject
<1> HIDE DEF s, o
<1>3. Sets(db, createObject(db, a), a, o)
  BY <1>1, <1>2 DEF Sets, IsDb
<1>4. ~Exist(db, a) => a \in createObject(db, a).dirties
  BY <1>1, <1>2 DEF Sets, IsDb
<1> QED BY <1>3, <1>4 DEF o, Changed

\* GetOrNewOperationObject loads the object or creates it.
LEMMA GetOrNewSets ==
  ASSUME NEW db, IsDb(db), NEW a
  PROVE  /\ Sets(db, GetOrNewOperationObject(db, a), a, Known(db, a))
         /\ ~Exist(db, a) => a \in Changed(GetOrNewOperationObject(db, a))
<1>1. CASE Exist(db, a)
  BY <1>1, KnownObject DEF GetOrNewOperationObject
<1>2. CASE ~Exist(db, a)
  <2>1. Known(db, a) = newObject(NewAccount)
    BY <1>2, ExistFacts DEF Known
  <2> QED BY <1>2, <2>1, CreatedSets DEF GetOrNewOperationObject
<1> QED BY <1>1, <1>2

\* A change with an entry in the journal, and a use without one.
LEMMA JournalShows ==
  ASSUME NEW db, IsDb(db), Fitted(db), NEW a \in Addresses, NEW g, NEW o, Sets(db, g, a, o), NEW q, Held(db, a, q)
  PROVE  Shows(db, Journaled(g, a, q), a, ObjectView(q))
<1> DEFINE j == Journaled(g, a, q)
<1>1. Sets(db, j, a, q) /\ a \in Changed(j)
  BY PutSets
<1> HIDE DEF j
<1>2. Fits(j, a, q)
  BY <1>1 DEF Held, Fits, Sets
<1>3. Shows(db, j, a, ObjectView(q))
  BY <1>1, <1>2, SetsShows, ZenonT(60)
<1> QED BY <1>3 DEF j

\* An object that was only loaded or created still fits its account.
LEMMA GetOrNewFits ==
  ASSUME NEW db, IsDb(db), Fitted(db), NEW a \in Addresses, NEW g,
         g = GetOrNewOperationObject(db, a), NEW s, NEW o, Sets(db, s, a, o), s.dirties = g.dirties,
         Held(db, a, o), o.suicided = Known(db, a).suicided, o.dirty = Known(db, a).dirty,
         o.data = Known(db, a).data
  PROVE  Fits(s, a, o)
<1>1. Changed(s) = Changed(g) /\ s.trie = db.trie
  BY GetOrNewSets DEF Sets, Changed
<1>2. CASE Exist(db, a)
  <2>1. Fits(db, a, Known(db, a))
    BY <1>2, KnownObject, KnownFacts
  <2>2. Changed(db) \subseteq Changed(s)
    BY DEF Sets, Changed
  <2> QED BY <1>1, <2>1, <2>2 DEF Fits, Held
<1>3. CASE ~Exist(db, a)
  BY <1>1, <1>3, GetOrNewSets DEF Fits, Held
<1> QED BY <1>2, <1>3

\* The object that an operation works on has its storage on disk.
LEMMA KnownBacked ==
  ASSUME DiskInv, NEW db, Based(disk, db), NEW a
  PROVE  Backed(disk, Known(db, a))
<1>1. IsDb(db)
  BY DEF Based
<1>2. GetOrNewOperationObject(db, a).objects[a] = Known(db, a)
  BY <1>1, GetOrNewSets DEF Sets
<1> QED BY <1>2, GetOrNewKeeps

\* A new balance.
LEMMA BalanceChanged ==
  ASSUME NEW db, NEW a, NEW o, IsObject(o), Held(db, a, o), NEW n \in Int
  PROVE  /\ Held(db, a, [o EXCEPT !.data.balance = n])
         /\ ObjectView([o EXCEPT !.data.balance = n]) = [ObjectView(o) EXCEPT !.balance = n]
<1> DEFINE q == [o EXCEPT !.data.balance = n]
           s == [k \in Keys |-> Slot(o, k)]
<1>1. /\ DOMAIN q = DOMAIN o /\ q.data = [o.data EXCEPT !.balance = n] /\ q.suicided = o.suicided
      /\ q.origin = o.origin /\ q.pending = o.pending /\ q.dirty = o.dirty /\ q.deleted = o.deleted
  BY DEF IsObject
<1>2. q.data \in Accounts /\ q.data.root = o.data.root /\ q.suicided \in BOOLEAN
  BY <1>1 DEF Held, Accounts
<1> HIDE DEF q
<1>3. Held(db, a, q) /\ ObjectView(q) = AccountView(q.data, s, q.suicided)
  BY <1>1, <1>2 DEF Held, ObjectView, Slot
<1>4. ObjectView(o) = AccountView(o.data, s, o.suicided) /\ o.data \in Accounts
  BY DEF ObjectView, Held
<1> HIDE DEF s
<1>5. ObjectView(q) = [ObjectView(o) EXCEPT !.balance = n]
  BY <1>1, <1>3, <1>4, SMTT(60) DEF AccountView, Accounts
<1> QED BY <1>3, <1>5 DEF q

\* A new nonce.
LEMMA NonceChanged ==
  ASSUME NEW db, NEW a, NEW o, IsObject(o), Held(db, a, o), NEW n \in Int
  PROVE  /\ Held(db, a, [o EXCEPT !.data.nonce = n])
         /\ ObjectView([o EXCEPT !.data.nonce = n]) = [ObjectView(o) EXCEPT !.nonce = n]
<1> DEFINE q == [o EXCEPT !.data.nonce = n]
           s == [k \in Keys |-> Slot(o, k)]
<1>1. /\ DOMAIN q = DOMAIN o /\ q.data = [o.data EXCEPT !.nonce = n] /\ q.suicided = o.suicided
      /\ q.origin = o.origin /\ q.pending = o.pending /\ q.dirty = o.dirty /\ q.deleted = o.deleted
  BY DEF IsObject
<1>2. q.data \in Accounts /\ q.data.root = o.data.root /\ q.suicided \in BOOLEAN
  BY <1>1 DEF Held, Accounts
<1> HIDE DEF q
<1>3. Held(db, a, q) /\ ObjectView(q) = AccountView(q.data, s, q.suicided)
  BY <1>1, <1>2 DEF Held, ObjectView, Slot
<1>4. ObjectView(o) = AccountView(o.data, s, o.suicided) /\ o.data \in Accounts
  BY DEF ObjectView, Held
<1> HIDE DEF s
<1>5. ObjectView(q) = [ObjectView(o) EXCEPT !.nonce = n]
  BY <1>1, <1>3, <1>4, SMTT(60) DEF AccountView, Accounts
<1> QED BY <1>3, <1>5 DEF q

\* The two objects differ in their accounts and in the suicide mark only.
Same(o, q) == q.origin = o.origin /\ q.pending = o.pending /\ q.dirty = o.dirty /\ q.deleted = o.deleted

\* New code.
LEMMA CodeChanged ==
  ASSUME NEW db, NEW a, NEW o, Held(db, a, o), NEW c \in Codes,
         NEW q, q.data = [o.data EXCEPT !.code = c], q.suicided = o.suicided, Same(o, q)
  PROVE  Held(db, a, q) /\ ObjectView(q) = [ObjectView(o) EXCEPT !.code = c]
<1> DEFINE s == [k \in Keys |-> Slot(o, k)]
<1>1. q.data \in Accounts /\ q.data.root = o.data.root /\ q.suicided \in BOOLEAN
  BY DEF Held, Accounts
<1>2. Held(db, a, q) /\ ObjectView(q) = AccountView(q.data, s, q.suicided)
  BY <1>1 DEF Held, ObjectView, Slot, Same
<1>3. ObjectView(o) = AccountView(o.data, s, o.suicided) /\ o.data \in Accounts
  BY DEF ObjectView, Held
<1> HIDE DEF s
<1>4. ObjectView(q) = [ObjectView(o) EXCEPT !.code = c]
  BY <1>2, <1>3, SMTT(60) DEF AccountView, Accounts
<1> QED BY <1>2, <1>4

Marked(x, suicided) == [x EXCEPT !.suicided = suicided, !.balance = 0]

\* A suicide.
LEMMA SuicideChanged ==
  ASSUME NEW db, NEW a, NEW o, Held(db, a, o),
         NEW q, q.data = [o.data EXCEPT !.balance = 0], q.suicided \in BOOLEAN, Same(o, q)
  PROVE  Held(db, a, q) /\ ObjectView(q) = Marked(ObjectView(o), q.suicided)
<1> DEFINE s == [k \in Keys |-> Slot(o, k)]
           yes == q.suicided
<1>1. q.data \in Accounts /\ q.data.root = o.data.root
  BY DEF Held, Accounts
<1>2. Held(db, a, q) /\ ObjectView(q) = AccountView(q.data, s, yes)
  BY <1>1 DEF Held, ObjectView, Slot, Same
<1>3. ObjectView(o) = AccountView(o.data, s, o.suicided) /\ o.data \in Accounts
  BY DEF ObjectView, Held
<1> HIDE DEF s, yes
<1>4. ObjectView(q) = [nonce |-> o.data.nonce, balance |-> 0, code |-> o.data.code, slots |-> s, suicided |-> yes]
  BY <1>2, <1>3 DEF AccountView, Accounts
<1> DEFINE r == [ObjectView(o) EXCEPT !.suicided = yes]
<1>5. r = [nonce |-> o.data.nonce, balance |-> o.data.balance, code |-> o.data.code,
           slots |-> s, suicided |-> yes]
  BY <1>3, SMTT(60) DEF AccountView
<1> HIDE DEF r
<1>6. ObjectView(q) = [r EXCEPT !.balance = 0]
  BY <1>4, <1>5, SMTT(60)
<1> QED BY <1>2, <1>6, ZenonT(60) DEF yes, r, Marked

\* GetOrNewOperationObject: what is there, or a new account.
LEMMA GetOrNewShows ==
  ASSUME NEW db, IsDb(db), Fitted(db), NEW a \in Addresses
  PROVE  Shows(db, GetOrNewOperationObject(db, a), a, SeenOrNew(db, a))
<1> DEFINE g == GetOrNewOperationObject(db, a)
           o == Known(db, a)
<1>1. Sets(db, g, a, o) /\ Held(db, a, o) /\ SeenOrNew(db, a) = ObjectView(o)
  BY GetOrNewSets, KnownHeld, KnownFacts
<1>2. Fits(g, a, o)
  BY <1>1, GetOrNewFits, ZenonT(60)
<1> HIDE DEF g, o
<1>3. Shows(db, g, a, ObjectView(o))
  BY <1>1, <1>2, SetsShows
<1> QED BY <1>1, <1>3 DEF g

\* AddBalance.
LEMMA AddBalanceShows ==
  ASSUME DiskInv, NEW db, Based(disk, db), Fitted(db), NEW a \in Addresses, NEW n \in Int
  PROVE  Shows(db, AddBalance(db, a, n), a,
               [SeenOrNew(db, a) EXCEPT !.balance = SeenOrNew(db, a).balance + n])
<1> DEFINE g == GetOrNewOperationObject(db, a)
           o == Known(db, a)
           x == SeenOrNew(db, a)
           q == [o EXCEPT !.data.balance = o.data.balance + n]
<1>1. IsDb(db) /\ IsObject(o)
  BY KnownBacked DEF Based, Backed
<1>2. Sets(db, g, a, o) /\ Held(db, a, o) /\ x = ObjectView(o) /\ x \in Views
  BY <1>1, GetOrNewSets, KnownHeld, KnownFacts
<1>3. g.objects[a] = o /\ x.balance = o.data.balance /\ o.data.balance \in Int
  BY <1>2 DEF Sets, ObjectView, AccountView, Held, Accounts
<1>4. CASE n = 0
  <2>1. AddBalance(db, a, n) = g
    BY <1>4 DEF AddBalance
  <2>2. [x EXCEPT !.balance = x.balance + n] = x
    BY <1>2, <1>4 DEF Views
  <2>3. Shows(db, g, a, x)
    BY <1>1, GetOrNewShows
  <2> QED BY <2>1, <2>2, <2>3
<1>5. CASE n # 0
  <2>1. AddBalance(db, a, n) = Journaled(g, a, q)
    BY <1>3, <1>5 DEF AddBalance
  <2>2. Held(db, a, q) /\ ObjectView(q) = [ObjectView(o) EXCEPT !.balance = o.data.balance + n]
    <3>1. o.data.balance + n \in Int /\ IsObject(o) /\ Held(db, a, o)
      BY <1>1, <1>2, <1>3
    <3> HIDE DEF o
    <3> QED BY <3>1, BalanceChanged
  <2> HIDE DEF q, g, o
  <2>3. Shows(db, Journaled(g, a, q), a, ObjectView(q))
    BY <1>1, <1>2, <2>2, JournalShows, ZenonT(60)
  <2> QED BY <1>2, <1>3, <2>1, <2>2, <2>3
<1> QED BY <1>4, <1>5

\* SetNonce.
LEMMA SetNonceShows ==
  ASSUME DiskInv, NEW db, Based(disk, db), Fitted(db), NEW a \in Addresses, NEW n \in Int
  PROVE  Shows(db, SetNonce(db, a, n), a, [SeenOrNew(db, a) EXCEPT !.nonce = n])
<1> DEFINE g == GetOrNewOperationObject(db, a)
           o == Known(db, a)
           q == [o EXCEPT !.data.nonce = n]
<1>1. IsDb(db) /\ IsObject(o)
  BY KnownBacked DEF Based, Backed
<1>2. Sets(db, g, a, o) /\ Held(db, a, o) /\ SeenOrNew(db, a) = ObjectView(o)
  BY <1>1, GetOrNewSets, KnownHeld, KnownFacts
<1>3. SetNonce(db, a, n) = Journaled(g, a, q)
  BY <1>2 DEF SetNonce, Sets
<1>4. Held(db, a, q) /\ ObjectView(q) = [ObjectView(o) EXCEPT !.nonce = n]
  <2>1. IsObject(o) /\ Held(db, a, o)
    BY <1>1, <1>2
  <2> HIDE DEF o
  <2> QED BY <2>1, NonceChanged
<1> HIDE DEF q, g, o
<1>5. Shows(db, Journaled(g, a, q), a, ObjectView(q))
  BY <1>1, <1>2, <1>4, JournalShows, ZenonT(60)
<1> QED BY <1>2, <1>3, <1>4, <1>5

\* SetCode.
LEMMA SetCodeShows ==
  ASSUME DiskInv, NEW db, Based(disk, db), Fitted(db), NEW a \in Addresses, NEW c \in Codes
  PROVE  Shows(db, SetCode(db, a, c), a, [SeenOrNew(db, a) EXCEPT !.code = c])
<1> DEFINE g == GetOrNewOperationObject(db, a)
           o == Known(db, a)
           q == [o EXCEPT !.data.code = c, !.dirtyCode = TRUE]
<1>1. IsDb(db) /\ IsObject(o)
  BY KnownBacked DEF Based, Backed
<1>2. Sets(db, g, a, o) /\ Held(db, a, o) /\ SeenOrNew(db, a) = ObjectView(o)
  BY <1>1, GetOrNewSets, KnownHeld, KnownFacts
<1>3. SetCode(db, a, c) = Journaled(g, a, q)
  BY <1>2 DEF SetCode, Sets
<1>4. Held(db, a, q) /\ ObjectView(q) = [ObjectView(o) EXCEPT !.code = c]
  <2>1. IsObject(o) /\ Held(db, a, o)
    BY <1>1, <1>2
  <2> HIDE DEF o
  <2>2. q.data = [o.data EXCEPT !.code = c] /\ q.suicided = o.suicided /\ Same(o, q)
    BY <2>1 DEF IsObject, Same
  <2> HIDE DEF q
  <2> QED BY <2>1, <2>2, CodeChanged
<1> HIDE DEF q, g, o
<1>5. Shows(db, Journaled(g, a, q), a, ObjectView(q))
  BY <1>1, <1>2, <1>4, JournalShows, ZenonT(60)
<1> QED BY <1>2, <1>3, <1>4, <1>5

\* Suicide.
LEMMA SuicideShows ==
  ASSUME DiskInv, NEW db, Based(disk, db), Fitted(db), NEW a \in Addresses, Exist(db, a)
  PROVE  Shows(db, Suicide(db, a), a, [Seen(db)[a] EXCEPT !.suicided = TRUE, !.balance = 0])
<1> DEFINE o == Known(db, a)
           l == Loaded(db, a)
           q == [o EXCEPT !.suicided = TRUE, !.data.balance = 0]
<1>1. IsDb(db) /\ IsObject(o)
  BY KnownBacked DEF Based, Backed
<1>2. Sets(db, l, a, o) /\ Object(db, a) = o /\ Held(db, a, o)
  BY <1>1, KnownObject, KnownHeld
<1>3. Seen(db)[a] = ObjectView(o)
  BY <1>1, KnownObject, KnownFacts DEF SeenOrNew
<1>4. Suicide(db, a) = Journaled(l, a, q)
  BY <1>2 DEF Suicide
<1>5. Held(db, a, q) /\ ObjectView(q) = [ObjectView(o) EXCEPT !.suicided = TRUE, !.balance = 0]
  <2> HIDE DEF o
  <2>1. q.data = [o.data EXCEPT !.balance = 0] /\ q.suicided = TRUE /\ Same(o, q)
    BY <1>1 DEF IsObject, Same
  <2> HIDE DEF q
  <2>2. q.data = [o.data EXCEPT !.balance = 0] /\ Same(o, q) /\ q.suicided \in BOOLEAN /\ Held(db, a, o)
    BY <1>2, <2>1, ZenonT(60)
  <2>3. Held(db, a, q) /\ ObjectView(q) = Marked(ObjectView(o), q.suicided)
    BY <2>2, SuicideChanged
  <2> QED BY <2>1, <2>3, ZenonT(60) DEF Marked
<1> HIDE DEF q, l, o
<1>6. Shows(db, Journaled(l, a, q), a, ObjectView(q))
  BY <1>1, <1>2, <1>5, JournalShows, ZenonT(60)
<1> QED BY <1>3, <1>4, <1>5, <1>6, ZenonT(60)

\* Without pending slots the storage is read from the dirty ones and the trie.
LEMMA GetStateSlot ==
  ASSUME NEW o, Backed(disk, o), o.origin = Nothing, o.pending = Nothing, NEW k \in Keys
  PROVE  GetState(o, k) = Slot(o, k)
<1>1. getTrie(o).trie = o.data.root
  BY NilAssumption DEF getTrie, Backed, IsObject
<1>2. GetState(o, k) = IF k \in DOMAIN o.dirty THEN o.dirty[k] ELSE getTrie(o).trie[k]
  BY DEF GetState, GetCommittedState, Nothing
<1> QED BY <1>1, <1>2 DEF Slot

\* SetState, whether the slot has the value already or not.
LEMMA SetStateShows ==
  ASSUME DiskInv, NEW db, Based(disk, db), Fitted(db), NEW a \in Addresses, NEW k \in Keys, NEW v \in Values
  PROVE  Shows(db, SetState(db, a, k, v), a, [SeenOrNew(db, a) EXCEPT !.slots[k] = v])
<1> DEFINE g == GetOrNewOperationObject(db, a)
           p == Known(db, a)
           o == IF Cached(p, k) THEN p ELSE getTrie(p)
           q == [o EXCEPT !.dirty = Put(o.dirty, k, v)]
           x == ObjectView(p)
<1>1. IsDb(db) /\ IsObject(p) /\ Backed(disk, p)
  BY KnownBacked DEF Based, Backed
<1>2. Sets(db, g, a, p) /\ Held(db, a, p) /\ SeenOrNew(db, a) = x /\ x \in Views
  BY <1>1, GetOrNewSets, KnownHeld, KnownFacts
<1>3. /\ DOMAIN o = DOMAIN p /\ o.data = p.data /\ o.suicided = p.suicided /\ o.deleted = p.deleted
      /\ o.origin = p.origin /\ o.pending = p.pending /\ o.dirty = p.dirty
  <2> HIDE DEF p
  <2> QED BY <1>1 DEF getTrie, IsObject
<1>4. Held(db, a, o) /\ ObjectView(o) = x
  <2> HIDE DEF p, o
  <2> QED BY <1>2, <1>3 DEF Held, ObjectView, Slot
<1>5. GetState(o, k) = Slot(o, k)
  <2>1. Backed(disk, o)
    BY <1>1, GetTrieKeeps DEF Backed
  <2>2. o.origin = Nothing /\ o.pending = Nothing
    BY <1>4 DEF Held
  <2> HIDE DEF o
  <2> QED BY <2>1, <2>2, GetStateSlot
<1>6. g.objects[a] = p
  BY <1>2 DEF Sets
<1>7. CASE Slot(o, k) = v
  <2>1. SetState(db, a, k, v) = setOperationObject(g, a, o)
    BY <1>5, <1>6, <1>7 DEF SetState
  <2>2. x.slots[k] = v
    BY <1>4, <1>7 DEF ObjectView, AccountView
  <2> HIDE DEF x
  <2>3. [x EXCEPT !.slots[k] = v] = x
    BY <1>2, <2>2 DEF Views
  <2> USE DEF x
  <2> HIDE DEF o
  <2>4. Sets(db, setOperationObject(g, a, o), a, o) /\ setOperationObject(g, a, o).dirties = g.dirties
    BY <1>2, PutSets
  <2> DEFINE s == setOperationObject(g, a, o)
  <2> HIDE DEF s
  <2>5. Fits(s, a, o)
    BY <1>1, <1>3, <1>4, <2>4, GetOrNewFits DEF s
  <2>6. Shows(db, s, a, ObjectView(o))
    BY <1>1, <2>4, <2>5, SetsShows, ZenonT(60) DEF s
  <2> QED BY <1>2, <1>4, <2>1, <2>3, <2>6 DEF s
<1>8. CASE Slot(o, k) # v
  <2>1. SetState(db, a, k, v) = Journaled(g, a, q)
    BY <1>5, <1>6, <1>8 DEF SetState
  <2>2. /\ q.data = o.data /\ q.suicided = o.suicided /\ q.deleted = o.deleted
        /\ q.origin = o.origin /\ q.pending = o.pending /\ q.dirty = Put(o.dirty, k, v)
    <3> HIDE DEF o
    <3> QED BY <1>1, <1>3 DEF IsObject
  <2> HIDE DEF o, q, p, g
  <2>3. Held(db, a, q)
    BY <1>4, <2>2 DEF Held, Put, Slots
  <2>4. ASSUME NEW j \in Keys PROVE Slot(q, j) = IF j = k THEN v ELSE Slot(o, j)
    BY <2>2 DEF Slot, Put
  <2>5. [j \in Keys |-> Slot(q, j)] = [[j \in Keys |-> Slot(o, j)] EXCEPT ![k] = v]
    BY <2>4
  <2> DEFINE S == [j \in Keys |-> Slot(o, j)]
  <2>6. ObjectView(q) = AccountView(o.data, [S EXCEPT ![k] = v], o.suicided)
    BY <2>2, <2>5 DEF ObjectView
  <2>7. ObjectView(o) = AccountView(o.data, S, o.suicided)
    BY DEF ObjectView
  <2> HIDE DEF S
  <2>8. ObjectView(q) = [ObjectView(o) EXCEPT !.slots[k] = v]
    BY <2>6, <2>7, SMTT(60) DEF AccountView
  <2>9. Shows(db, Journaled(g, a, q), a, ObjectView(q))
    BY <1>1, <1>2, <2>3, JournalShows, ZenonT(60)
  <2> QED BY <1>2, <1>4, <2>1, <2>8, <2>9
<1> QED BY <1>7, <1>8

\* Of two changes of an account the second is seen.
LEMMA ShowsTwice ==
  ASSUME NEW db, NEW g, NEW h, NEW a, NEW x, NEW y, Shows(db, g, a, x), Shows(g, h, a, y)
  PROVE  Shows(db, h, a, y)
<1>1. Seen(h) = [Seen(db) EXCEPT ![a] = y]
  <2>1. Seen(g) = [Seen(db) EXCEPT ![a] = x] /\ Seen(h) = [Seen(g) EXCEPT ![a] = y]
    BY DEF Shows
  <2>2. DOMAIN Seen(db) = Addresses
    BY DEF Seen
  <2>3. DOMAIN Seen(h) = Addresses /\ Seen(h) = [b \in Addresses |-> Seen(h)[b]]
    BY DEF Seen
  <2> QED BY <2>1, <2>2, <2>3
<1> QED BY <1>1 DEF Shows

\* The account that create makes.
Born(balance, nonce) == [W!Fresh EXCEPT !.balance = balance, !.nonce = nonce]

\* The account that create makes, with the nonce of the rules.
LEMMA BornFacts ==
  ASSUME NEW b \in Int
  PROVE  /\ [W!Fresh EXCEPT !.balance = b] = Born(b, 0)
         /\ Born(b, 1) = [Born(b, 0) EXCEPT !.nonce = 1]
         /\ Born(b, 0) = [nonce |-> 0, balance |-> b, code |-> NoCode, slots |-> EmptyTrie, suicided |-> FALSE]
<1> DEFINE no == FALSE
           s == EmptyTrie
           r == [W!Fresh EXCEPT !.balance = b]
<1>1. W!Fresh = [nonce |-> 0, balance |-> Grant, code |-> NoCode, slots |-> s, suicided |-> no]
  BY ZenonT(60) DEF W!Fresh, EmptyTrie
<1> HIDE DEF no, s
<1>2. r = [nonce |-> 0, balance |-> b, code |-> NoCode, slots |-> s, suicided |-> no]
  BY <1>1, SMTT(60)
<1> HIDE DEF r
<1>3. [r EXCEPT !.nonce = 0] = r
  BY <1>2, SMTT(60)
<1>4. [r EXCEPT !.nonce = 1] = [[r EXCEPT !.nonce = 0] EXCEPT !.nonce = 1]
  BY <1>3
<1>5. Born(b, 0) = [r EXCEPT !.nonce = 0] /\ Born(b, 1) = [r EXCEPT !.nonce = 1]
  BY ZenonT(60) DEF Born, r
<1>6. Born(b, 0) = r /\ Born(b, 1) = [Born(b, 0) EXCEPT !.nonce = 1]
  BY <1>3, <1>5
<1>7. Born(b, 0) = [nonce |-> 0, balance |-> b, code |-> NoCode, slots |-> EmptyTrie, suicided |-> FALSE]
  BY <1>2, <1>6, ZenonT(60) DEF no, s
<1> QED BY <1>6, <1>7 DEF r

\* CreateAccount of an account that has neither nonce nor code.
LEMMA CreateAccountShows ==
  ASSUME DiskInv, NEW db, Based(disk, db), Fitted(db), NEW a \in Addresses,
         Exist(db, a) => Known(db, a).data.nonce = 0 /\ Known(db, a).data.code = NoCode
  PROVE  Shows(db, CreateAccount(db, a), a, Born(SeenOrNew(db, a).balance, 0))
<1> DEFINE c == createObject(db, a)
           p == Known(db, a)
           b == p.data.balance
           f == newObject(NewAccount)
           o == [f EXCEPT !.data.balance = b]
<1>1. IsDb(db) /\ Sets(db, c, a, f) /\ (~Exist(db, a) => a \in Changed(c))
  BY CreatedSets DEF Based
<1>2. Held(db, a, p) /\ SeenOrNew(db, a) = ObjectView(p)
  BY <1>1, KnownHeld, KnownFacts
<1>3. b \in Int /\ SeenOrNew(db, a).balance = b
  BY <1>2 DEF Held, Accounts, ObjectView, AccountView
<1>4. CASE Exist(db, a)
  <2>1. c.objects[a] = f /\ Object(db, a) = p
    BY <1>1, <1>4, KnownObject DEF Sets
  <2>2. CreateAccount(db, a) = setOperationObject(c, a, o)
    BY <1>4, <2>1 DEF CreateAccount
  <2>3. /\ o.data = [nonce |-> 0, balance |-> b, code |-> NoCode, root |-> EmptyTrie]
        /\ o.suicided = FALSE /\ o.deleted = FALSE /\ o.origin = Nothing /\ o.pending = Nothing /\ o.dirty = Nothing
    <3> HIDE DEF b
    <3> QED BY DEF newObject, NewAccount
  <2>4. Sets(db, setOperationObject(c, a, o), a, o)
    BY <1>1, PutSets, ZenonT(60)
  <2> DEFINE s == setOperationObject(c, a, o)
  <2>5. Changed(db) \subseteq Changed(s) /\ s.trie = db.trie
    BY <2>4 DEF Sets, Changed
  <2>6. Fits(db, a, p) /\ p.data.nonce = 0 /\ p.data.code = NoCode /\ p.data \in Accounts
    <3>1. Fits(db, a, p)
      BY <1>1, <1>4, KnownObject, KnownFacts, ZenonT(60)
    <3> HIDE DEF p
    <3>2. p.data \in Accounts
      BY <3>1 DEF Fits
    <3> QED BY <1>4, <3>1, <3>2 DEF p
  <2> HIDE DEF o, s
  <2>7. o.data \in Accounts /\ o.data.root = EmptyTrie
    BY <1>3, <2>3, NewAccountType DEF Accounts
  <2>8. DOMAIN o.dirty = {} /\ DOMAIN o.dirty \subseteq Keys /\ \A k \in DOMAIN o.dirty : o.dirty[k] \in Slots
    BY <2>3 DEF Nothing
  <2>9. ASSUME a \notin Changed(s) PROVE a \in DOMAIN s.trie /\ o.data = [s.trie[a] EXCEPT !.root = o.data.root]
    <3> HIDE DEF p
    <3>1. a \in DOMAIN db.trie /\ p.data = [db.trie[a] EXCEPT !.root = p.data.root]
      BY <2>5, <2>6, <2>9 DEF Fits
    <3>2. db.trie[a] \in Accounts
      BY <3>1 DEF Fitted, IsState
    <3>3. db.trie[a].nonce = 0 /\ db.trie[a].code = NoCode /\ db.trie[a].balance = b
      BY <2>6, <3>1, <3>2 DEF Accounts
    <3> HIDE DEF b
    <3>4. o.data = [db.trie[a] EXCEPT !.root = EmptyTrie]
      BY <2>3, <3>2, <3>3 DEF Accounts
    <3> QED BY <2>3, <2>5, <3>1, <3>4
  <2>10. Fits(s, a, o)
    BY <2>3, <2>7, <2>8, <2>9 DEF Fits
  <2>11. [k \in Keys |-> Slot(o, k)] = EmptyTrie
    BY <2>7, <2>8 DEF Slot, EmptyTrie
  <2>12. ObjectView(o) = Born(b, 0)
    <3>1. Born(b, 0) = [nonce |-> 0, balance |-> b, code |-> NoCode, slots |-> EmptyTrie, suicided |-> FALSE]
      BY <1>3, BornFacts
    <3>2. o.data.nonce = 0 /\ o.data.balance = b /\ o.data.code = NoCode
      BY <2>3
    <3> HIDE DEF b
    <3> QED BY <2>3, <2>11, <3>1, <3>2, ZenonT(60) DEF ObjectView, AccountView
  <2>13. Shows(db, s, a, ObjectView(o))
    BY <1>1, <2>4, <2>10, SetsShows, ZenonT(60) DEF s
  <2> QED BY <1>3, <2>2, <2>12, <2>13 DEF s
<1>5. CASE ~Exist(db, a)
  <2>1. CreateAccount(db, a) = c /\ p = f
    BY <1>1, <1>5, ExistFacts DEF CreateAccount, Known
  <2>2. Fits(c, a, f)
    <3> HIDE DEF f, c
    <3> QED BY <1>1, <1>2, <1>5, <2>1 DEF Fits, Held, Sets
  <2>3. Shows(db, c, a, ObjectView(f))
    BY <1>1, <2>2, SetsShows, ZenonT(60)
  <2>4. ObjectView(f) = Born(b, 0)
    <3>1. ObjectView(f) = W!Fresh /\ b = Grant
      <4>1. ObjectView(f) = W!Fresh
        BY NewAccountType, FreshSeen, StateView
      <4>2. b = Grant
        BY <2>1 DEF newObject, NewAccount
      <4> QED BY <4>1, <4>2
    <3>2. W!Fresh = [W!Fresh EXCEPT !.balance = b]
      <4> DEFINE no == FALSE
      <4> HIDE DEF b
      <4>1. W!Fresh = [nonce |-> 0, balance |-> Grant, code |-> NoCode, slots |-> EmptyTrie, suicided |-> no]
        BY ZenonT(60) DEF W!Fresh, EmptyTrie
      <4> HIDE DEF no
      <4> QED BY <3>1, <4>1, SMTT(60)
    <3> QED BY <1>3, <3>1, <3>2, BornFacts
  <2> QED BY <1>3, <2>1, <2>3, <2>4
<1> QED BY <1>4, <1>5

\* The start of create.
LEMMA CreateShows ==
  ASSUME DiskInv, NEW db, Based(disk, db), Fitted(db), NEW a \in Addresses,
         Exist(db, a) => Known(db, a).data.nonce = 0 /\ Known(db, a).data.code = NoCode
  PROVE  Shows(db, SetNonce(CreateAccount(db, a), a, 1), a, Born(SeenOrNew(db, a).balance, 1))
<1> DEFINE c == CreateAccount(db, a)
           b == SeenOrNew(db, a).balance
           n == SetNonce(c, a, 1)
<1>1. Shows(db, c, a, Born(b, 0))
  BY CreateAccountShows
<1>2. Based(disk, c) /\ Fitted(c)
  BY <1>1, CreateAccountKeeps DEF Extends, Shows
<1>3. b \in Int
  BY KnownFacts DEF Views, Based
<1>4. Seen(c)[a] = Born(b, 0)
  BY <1>1 DEF Shows, Seen
<1>5. SeenOrNew(c, a) = Born(b, 0)
  <2>1. IsDb(c)
    BY <1>2 DEF Based
  <2>2. a \in DOMAIN c.objects
    BY CreateAccountKeeps
  <2>3. Seen(c)[a] # Nil
    BY <1>2, <2>1, <2>2, KnownFacts, ZenonT(60)
  <2> QED BY <1>4, <2>3 DEF SeenOrNew
<1> HIDE DEF c
<1>6. Shows(c, n, a, [SeenOrNew(c, a) EXCEPT !.nonce = 1])
  BY <1>2, SetNonceShows
<1>7. Born(b, 1) = [SeenOrNew(c, a) EXCEPT !.nonce = 1]
  BY <1>3, <1>5, BornFacts
<1> HIDE DEF n, b
<1>8. Shows(db, n, a, Born(b, 1))
  BY <1>1, <1>6, <1>7, ShowsTwice
<1> QED BY <1>8 DEF n, b, c

\* What an account had before its suicide does not matter.
LEMMA MarkedAgain ==
  ASSUME NEW x \in Views, NEW n \in Int
  PROVE  Marked([x EXCEPT !.balance = n], TRUE) = Marked(x, TRUE)
<1> DEFINE yes == TRUE
           y == [x EXCEPT !.balance = n]
           r == [x EXCEPT !.suicided = yes]
           q == [y EXCEPT !.suicided = yes]
<1>1. y \in Views /\ y.nonce = x.nonce /\ y.code = x.code /\ y.slots = x.slots
  BY DEF Views
<1> HIDE DEF yes, y
<1>2. r = [nonce |-> x.nonce, balance |-> x.balance, code |-> x.code, slots |-> x.slots, suicided |-> yes]
  BY DEF Views
<1>3. q = [nonce |-> x.nonce, balance |-> y.balance, code |-> x.code, slots |-> x.slots, suicided |-> yes]
  BY <1>1 DEF Views
<1> HIDE DEF r, q
<1>4. [r EXCEPT !.balance = 0] = [q EXCEPT !.balance = 0]
  BY <1>2, <1>3, SMTT(60)
<1> QED BY <1>4, ZenonT(60) DEF Marked, r, q, y, yes

\* The accounts look like v.
Looks(db, next, v) ==
  /\ Fitted(next) /\ next.trie = db.trie /\ next.originalRoot = db.originalRoot /\ next.dirty = db.dirty
  /\ Seen(next) = v

\* A contract that destroys itself, also one that is its own heir.
LEMMA DestroyShows ==
  ASSUME DiskInv, NEW db, Based(disk, db), Fitted(db), NEW a \in Addresses, NEW b \in Addresses, Exist(db, a),
         NEW next, next = Suicide(AddBalance(db, b, Seen(db)[a].balance), a),
         NEW x, x = [SeenOrNew(db, b) EXCEPT !.balance = SeenOrNew(db, b).balance + Seen(db)[a].balance],
         NEW v, v = [[Seen(db) EXCEPT ![b] = x] EXCEPT ![a] = Marked(Seen(db)[a], TRUE)]
  PROVE  Looks(db, next, v)
<1> DEFINE n == Seen(db)[a].balance
           paid == AddBalance(db, b, n)
<1>1. /\ IsDb(db) /\ Seen(db)[a] # Nil /\ Seen(db)[a] = SeenOrNew(db, a) /\ Seen(db)[a] \in Views
      /\ SeenOrNew(db, b) \in Views
  <2>1. IsDb(db)
    BY DEF Based
  <2>2. Seen(db)[a] # Nil
    BY <2>1, ExistFacts, KnownFacts
  <2> QED BY <2>1, <2>2, KnownFacts DEF SeenOrNew
<1>2. n \in Int /\ SeenOrNew(db, b).balance + n \in Int
  BY <1>1 DEF Views
<1> HIDE DEF n
<1>3. Shows(db, paid, b, x) /\ Based(disk, paid)
  BY <1>2, AddBalanceShows, AddBalanceKeeps DEF Extends, n
<1> HIDE DEF paid
<1>4. IsDb(paid) /\ Fitted(paid) /\ DOMAIN Seen(db) = Addresses /\ Seen(paid) = [Seen(db) EXCEPT ![b] = x]
  BY <1>3 DEF Based, Shows, Seen
<1>5. x \in Views
  BY <1>1, <1>2 DEF Views, n
<1>6. Seen(paid)[a] # Nil
  BY <1>1, <1>4, <1>5, NilAssumption
<1>7. Exist(paid, a)
  BY <1>4, <1>6, ExistFacts, KnownFacts
<1>8. Marked(Seen(paid)[a], TRUE) = Marked(Seen(db)[a], TRUE)
  <2>1. CASE a = b
    <3>1. Seen(paid)[a] = [Seen(db)[a] EXCEPT !.balance = SeenOrNew(db, b).balance + n]
      BY <1>1, <1>4, <2>1 DEF n
    <3> QED BY <1>1, <1>2, <3>1, MarkedAgain
  <2>2. CASE a # b
    BY <1>4, <2>2
  <2> QED BY <2>1, <2>2
<1>9. Shows(paid, next, a, Marked(Seen(paid)[a], TRUE))
  BY <1>3, <1>4, <1>7, SuicideShows, ZenonT(60) DEF Marked, paid, n
<1>10. Seen(next) = [Seen(paid) EXCEPT ![a] = Marked(Seen(db)[a], TRUE)]
  BY <1>8, <1>9 DEF Shows
<1>11. Seen(next) = [[Seen(db) EXCEPT ![b] = x] EXCEPT ![a] = Marked(Seen(db)[a], TRUE)]
  BY <1>4, <1>10, ZenonT(60)
<1> QED BY <1>3, <1>9, <1>11 DEF Shows, Looks

-----------------------------------------------------------------------------
(* What the getters return *)

\* The getters of an OperationDB return what is seen.
LEMMA ViewSeen ==
  ASSUME DiskInv, NEW db, Based(disk, db), Fitted(db)
  PROVE  ViewOf(db) = Seen(db)
<1>1. IsDb(db)
  BY DEF Based
<1>2. ASSUME NEW a \in Addresses
      PROVE  (IF ~Exist(db, a) THEN Nil
              ELSE AccountView(Object(db, a).data, [k \in Keys |-> GetState(Object(db, a), k)],
                               Object(db, a).suicided)) = Seen(db)[a]
  <2>1. CASE Exist(db, a)
    <3> DEFINE o == Known(db, a)
    <3>1. Object(db, a) = o /\ Seen(db)[a] = ObjectView(o) /\ Backed(disk, o) /\ Held(db, a, o)
      BY <1>1, <2>1, KnownObject, KnownBacked, KnownFacts, KnownHeld DEF SeenOrNew
    <3> HIDE DEF o
    <3>2. [k \in Keys |-> GetState(o, k)] = [k \in Keys |-> Slot(o, k)]
      BY <3>1, GetStateSlot DEF Held
    <3> QED BY <2>1, <3>1, <3>2 DEF ObjectView
  <2>2. CASE ~Exist(db, a)
    BY <1>1, <2>2, ExistFacts DEF Seen
  <2> QED BY <2>1, <2>2
<1>3. ViewOf(db) = [a \in Addresses |->
                      IF ~Exist(db, a) THEN Nil
                      ELSE AccountView(Object(db, a).data, [k \in Keys |-> GetState(Object(db, a), k)],
                                       Object(db, a).suicided)]
  BY DEF ViewOf
<1>4. Seen(db) = [a \in Addresses |-> Seen(db)[a]]
  BY DEF Seen
<1> QED BY <1>2, <1>3, <1>4

\* What the transactions of the block being executed read.
LEMMA EnvSeen == IInv /\ RInv => ViewOf(env) = Seen(env)
  BY ViewSeen DEF IInv, RInv

-----------------------------------------------------------------------------
(* The state that a block leaves *)

\* The storage after the slots P were written: one that is zero is not.
Written(P, root) == [k \in Keys |-> IF k \in DOMAIN P /\ P[k] # 0 THEN P[k] ELSE root[k]]

\* updateRoot: the account with its pending and dirty slots.
LEMMA UpdatedRoot ==
  ASSUME NEW o, Backed(disk, o), o.origin = Nothing, o.data \in Accounts,
         DOMAIN Over(o.dirty, o.pending) \subseteq Keys,
         \A k \in DOMAIN Over(o.dirty, o.pending) : Over(o.dirty, o.pending)[k] \in Slots
  PROVE  updateRoot(o).data = [o.data EXCEPT !.root = Written(Over(o.dirty, o.pending), o.data.root)]
<1> DEFINE f == finalise(o)
           g == getTrie(f)
           u == updateTrie(o)
           P == Over(o.dirty, o.pending)
           changed == {k \in DOMAIN f.pending : f.pending[k] # At(f.origin, k)}
           written == [k \in changed |-> f.pending[k]]
           R == Written(P, o.data.root)
<1>1. /\ Backed(disk, f) /\ f.data = o.data
  BY FinaliseKeeps
<1>2. f.pending = P /\ f.origin = Nothing /\ f.trie = o.trie
  BY DEF finalise, Backed, IsObject
<1>3. Backed(disk, g) /\ g.data = o.data /\ g.trie = o.data.root
  BY <1>1, GetTrieKeeps
<1>4. u = IF f.pending = Nothing THEN f
          ELSE [g EXCEPT !.trie = Over(written, @), !.origin = Over(written, @), !.pending = Nothing]
  BY ZenonT(60) DEF updateTrie
<1>5. updateRoot(o) = IF u.trie = Nil THEN u ELSE [u EXCEPT !.data.root = u.trie]
  BY DEF updateRoot
<1>6. o.data.root \in [Keys -> Slots] /\ R \in [Keys -> Slots]
  <2>1. o.data.root \in [Keys -> Slots]
    BY DEF Accounts
  <2> HIDE DEF P
  <2> QED BY <2>1 DEF Written, P
<1> HIDE DEF f, g, u
<1>7. CASE P = Nothing
  <2>1. u = f
    BY <1>2, <1>4, <1>7
  <2>2. R = o.data.root
    BY <1>6, <1>7 DEF Written, Nothing
  <2>3. [o.data EXCEPT !.root = R] = o.data
    <3> HIDE DEF R
    <3> QED BY <2>2 DEF Accounts
  <2>4. u.trie = Nil \/ u.trie = o.data.root
    BY <1>2, <2>1 DEF Backed
  <2>5. CASE u.trie = Nil
    BY <1>1, <1>5, <2>1, <2>3, <2>5
  <2>6. CASE u.trie # Nil
    <3>1. updateRoot(o) = [u EXCEPT !.data.root = u.trie] /\ u.trie = o.data.root
      BY <1>5, <2>4, <2>6
    <3>2. updateRoot(o).data = [o.data EXCEPT !.root = o.data.root]
      BY <1>1, <2>1, <3>1 DEF Backed, IsObject
    <3> QED BY <2>2, <3>2
  <2> QED BY <2>5, <2>6
<1>8. CASE P # Nothing
  <2>1. u = [g EXCEPT !.trie = Over(written, g.trie), !.origin = Over(written, g.origin), !.pending = Nothing]
    BY <1>2, <1>4, <1>8
  <2>2. Over(written, o.data.root) = R
    <3>1. changed = {k \in DOMAIN P : P[k] # 0}
      BY <1>2 DEF At, Nothing, Zero
    <3> HIDE DEF P
    <3>2. DOMAIN written \subseteq Keys /\ DOMAIN written = {k \in DOMAIN P : P[k] # 0}
      BY <3>1 DEF P
    <3>3. \A k \in DOMAIN written : written[k] = P[k]
      BY <1>2, <3>1
    <3> HIDE DEF written
    <3>4. DOMAIN o.data.root = Keys
      BY <1>6
    <3>5. Over(written, o.data.root) = [k \in Keys |-> IF k \in DOMAIN written THEN written[k] ELSE o.data.root[k]]
      BY <3>2, <3>4 DEF Over
    <3> QED BY <3>2, <3>3, <3>5 DEF Written
  <2> HIDE DEF R, written
  <2>3. u.trie = R /\ u.data = o.data /\ DOMAIN u = DOMAIN g
    BY <1>3, <2>1, <2>2 DEF Backed, IsObject
  <2>4. R # Nil
    BY <1>6, NilAssumption
  <2>5. updateRoot(o) = [u EXCEPT !.data.root = R]
    BY <1>5, <2>3, <2>4
  <2>6. updateRoot(o).data = [o.data EXCEPT !.root = R]
    BY <1>3, <2>3, <2>5 DEF Backed, IsObject
  <2> QED BY <2>6 DEF R
<1> QED BY <1>7, <1>8

\* The same for an object as the transactions leave it, finalised or not.
LEMMA ObjectRoot ==
  ASSUME NEW db, NEW a, NEW o, Held(db, a, o), Backed(disk, o)
  PROVE  /\ updateRoot(o).data = [o.data EXCEPT !.root = Written(o.dirty, o.data.root)]
         /\ updateRoot(finalise(o)).data = [o.data EXCEPT !.root = Written(o.dirty, o.data.root)]
         /\ Written(o.dirty, o.data.root) \in [Keys -> Slots]
<1> DEFINE f == finalise(o)
           P == Over(o.dirty, o.pending)
           Q == Over(f.dirty, f.pending)
<1>1. Backed(disk, f) /\ f.data = o.data
  BY FinaliseKeeps
<1>2. f.pending = P /\ f.origin = o.origin /\ f.dirty = Nothing
  BY DEF finalise, Backed, IsObject
<1> HIDE DEF f
<1>3. DOMAIN P = DOMAIN o.dirty /\ \A k \in DOMAIN P : P[k] = o.dirty[k]
  BY DEF Held, Over, Nothing
<1> HIDE DEF P
<1>4. DOMAIN Q = DOMAIN o.dirty /\ \A k \in DOMAIN Q : Q[k] = o.dirty[k]
  BY <1>2, <1>3 DEF Over, Nothing
<1> HIDE DEF Q
<1>5. Written(P, o.data.root) = Written(o.dirty, o.data.root) /\ Written(Q, o.data.root) = Written(o.dirty, o.data.root)
  BY <1>3, <1>4 DEF Written
<1>6. /\ o.data \in Accounts /\ o.origin = Nothing
      /\ DOMAIN P \subseteq Keys /\ \A k \in DOMAIN P : P[k] \in Slots
      /\ DOMAIN Q \subseteq Keys /\ \A k \in DOMAIN Q : Q[k] \in Slots
  BY <1>3, <1>4 DEF Held
<1>7. updateRoot(o).data = [o.data EXCEPT !.root = Written(P, o.data.root)]
  BY <1>6, UpdatedRoot DEF P
<1>8. updateRoot(f).data = [f.data EXCEPT !.root = Written(Q, f.data.root)]
  BY <1>1, <1>2, <1>6, UpdatedRoot DEF Q
<1>9. Written(o.dirty, o.data.root) \in [Keys -> Slots]
  BY DEF Held, Written, Accounts
<1> QED BY <1>1, <1>5, <1>7, <1>8, <1>9 DEF f

\* What Finalise makes of each object.
LEMMA FinalisedFacts ==
  ASSUME NEW db, IsDb(db)
  PROVE  LET f == Finalise(db)
             touched == db.dirties \cap DOMAIN db.objects
         IN  /\ IsDb(f) /\ f.trie = db.trie /\ f.pending = db.pending \cup touched
             /\ DOMAIN f.objects = DOMAIN db.objects
             /\ \A a \in DOMAIN db.objects :
                  f.objects[a] = IF a \notin touched THEN db.objects[a]
                                 ELSE IF db.objects[a].suicided \/ (EIP158 /\ empty(db.objects[a]))
                                      THEN [db.objects[a] EXCEPT !.deleted = TRUE]
                                      ELSE finalise(db.objects[a])
<1> DEFINE touched == db.dirties \cap DOMAIN db.objects
           done(o) == IF o.suicided \/ (EIP158 /\ empty(o)) THEN [o EXCEPT !.deleted = TRUE] ELSE finalise(o)
           objects == [a \in DOMAIN db.objects |-> IF a \in touched THEN done(db.objects[a]) ELSE db.objects[a]]
           f == Finalise(db)
<1>1. f = [db EXCEPT !.objects = objects, !.pending = @ \cup touched, !.dirty = @ \cup touched, !.dirties = {}]
  BY ZenonT(60) DEF Finalise
<1>2. DOMAIN objects = DOMAIN db.objects /\ \A a \in DOMAIN db.objects :
        objects[a] = IF a \notin touched THEN db.objects[a]
                     ELSE IF db.objects[a].suicided \/ (EIP158 /\ empty(db.objects[a]))
                          THEN [db.objects[a] EXCEPT !.deleted = TRUE]
                          ELSE finalise(db.objects[a])
  BY ZenonT(60)
<1> HIDE DEF objects, f
<1>3. IsDb(f) /\ f.trie = db.trie /\ f.pending = db.pending \cup touched /\ f.objects = objects
  BY <1>1 DEF IsDb
<1> QED BY <1>2, <1>3, ZenonT(60) DEF f

\* The accounts of the state whose root IntermediateRoot returns.
LEMMA RootTrie ==
  ASSUME NEW db, NEW f, f = Finalise(db), IsDb(f), f.pending \subseteq DOMAIN f.objects,
         \A a \in f.pending : updateRoot(f.objects[a]).deleted = f.objects[a].deleted,
         NEW r, r = IntermediateRoot(db).trie, NEW a
  PROVE  /\ a \in DOMAIN r <=> IF a \in f.pending THEN ~f.objects[a].deleted ELSE a \in DOMAIN f.trie
         /\ a \in DOMAIN r => r[a] = IF a \in f.pending THEN updateRoot(f.objects[a]).data ELSE f.trie[a]
<1> DEFINE i == IntermediateRoot(db)
           objects == [x \in DOMAIN f.objects |->
                         IF x \in f.pending /\ ~f.objects[x].deleted THEN updateRoot(f.objects[x]) ELSE f.objects[x]]
           gone == {x \in f.pending : objects[x].deleted}
           updated == [x \in f.pending \ gone |-> objects[x].data]
           rest == Without(f.trie, gone)
<1>1. i = [f EXCEPT !.objects = objects, !.trie = Over(updated, rest), !.pending = {}]
  BY ZenonT(60) DEF IntermediateRoot
<1>2. i.trie = Over(updated, rest)
  BY <1>1 DEF IsDb
<1>3. DOMAIN rest = DOMAIN f.trie \ gone /\ \A x \in DOMAIN rest : rest[x] = f.trie[x]
  BY DEF Without
<1>4. DOMAIN updated = f.pending \ gone /\ \A x \in DOMAIN updated : updated[x] = objects[x].data
  OBVIOUS
<1>5. a \in f.pending => (a \in gone <=> f.objects[a].deleted)
  OBVIOUS
<1>6. a \in f.pending /\ ~f.objects[a].deleted => objects[a] = updateRoot(f.objects[a])
  OBVIOUS
<1>7. gone \subseteq f.pending
  OBVIOUS
<1> HIDE DEF i, objects, gone, updated, rest
<1>8. /\ DOMAIN i.trie = DOMAIN updated \cup DOMAIN rest
      /\ a \in DOMAIN i.trie => i.trie[a] = IF a \in DOMAIN updated THEN updated[a] ELSE rest[a]
  BY <1>2 DEF Over
<1>9. CASE a \in f.pending
  BY <1>3, <1>4, <1>5, <1>6, <1>8, <1>9 DEF i
<1>10. CASE a \notin f.pending
  BY <1>3, <1>4, <1>7, <1>8, <1>10 DEF i
<1> QED BY <1>9, <1>10

\* An account that lives on, with its storage.
LEMMA KeptFacts ==
  ASSUME NEW x \in Views, NEW y \in Views, NEW b, NEW copied,
         y.nonce = x.nonce, y.balance = x.balance, y.code = x.code, y.suicided = FALSE,
         x.suicided => copied, \A k \in Keys : y.slots[k] \in W!Returned(x, b, k)
  PROVE  W!Kept(x, b, y, copied)
<1> DEFINE no == FALSE
           s == y.slots
           r == [x EXCEPT !.slots = s]
<1>1. y = [nonce |-> x.nonce, balance |-> x.balance, code |-> x.code, slots |-> s, suicided |-> no]
  <2>1. y = [nonce |-> y.nonce, balance |-> y.balance, code |-> y.code, slots |-> y.slots, suicided |-> y.suicided]
    BY DEF Views
  <2> QED BY <2>1, ZenonT(60)
<1> HIDE DEF no, s
<1>2. r = [nonce |-> x.nonce, balance |-> x.balance, code |-> x.code, slots |-> s, suicided |-> x.suicided]
  BY DEF Views
<1> HIDE DEF r
<1>3. y = [r EXCEPT !.suicided = no]
  BY <1>1, <1>2, SMTT(60)
<1>4. y = [x EXCEPT !.slots = y.slots, !.suicided = FALSE]
  BY <1>3, ZenonT(60) DEF r, s, no
<1> QED BY <1>4, ZenonT(60) DEF W!Kept, W!Survived

\* The accounts of a state that was committed.
LEMMA RootViewFacts ==
  ASSUME NEW r, IsState(r), NEW a \in Addresses
  PROVE  /\ RootView(r)[a] = Nil <=> a \notin DOMAIN r
         /\ a \in DOMAIN r => /\ r[a] \in Accounts /\ RootView(r)[a] \in Views
                              /\ RootView(r)[a] = AccountView(r[a], r[a].root, FALSE)
                              /\ RootView(r)[a].nonce = r[a].nonce /\ RootView(r)[a].balance = r[a].balance
                              /\ RootView(r)[a].code = r[a].code /\ RootView(r)[a].slots = r[a].root
                              /\ RootView(r)[a].suicided = FALSE
<1>1. CASE a \in DOMAIN r
  <2>1. r[a] \in Accounts /\ RootView(r)[a] = AccountView(r[a], r[a].root, FALSE)
    BY <1>1 DEF RootView, IsState
  <2>2. /\ RootView(r)[a].nonce = r[a].nonce /\ RootView(r)[a].balance = r[a].balance
        /\ RootView(r)[a].code = r[a].code /\ RootView(r)[a].slots = r[a].root
        /\ RootView(r)[a].suicided = FALSE
    <3> DEFINE v == RootView(r)[a]
    <3>1. v = [nonce |-> r[a].nonce, balance |-> r[a].balance, code |-> r[a].code,
             slots |-> r[a].root, suicided |-> FALSE]
      BY <2>1 DEF AccountView
    <3> HIDE DEF v
    <3>2. v.nonce = r[a].nonce /\ v.balance = r[a].balance /\ v.code = r[a].code /\ v.slots = r[a].root
      BY <3>1
    <3>3. v.suicided = FALSE
      BY <3>1
    <3> QED BY <3>2, <3>3 DEF v
  <2>3. RootView(r)[a] \in Views /\ RootView(r)[a] # Nil
    BY <2>1, StateView
  <2> QED BY <1>1, <2>1, <2>2, <2>3
<1>2. CASE a \notin DOMAIN r
  BY <1>2 DEF RootView
<1> QED BY <1>1, <1>2

\* Finalise marks the object of the account as deleted.
Dead(db, a) ==
  a \in db.dirties \cap DOMAIN db.objects /\ (db.objects[a].suicided \/ (EIP158 /\ empty(db.objects[a])))

\* The accounts that IntermediateRoot writes, and those it leaves alone.
ToWrite(db) == db.dirty \cup (db.dirties \cap DOMAIN db.objects)
LeftAlone(db, w, a) == (a \in DOMAIN w <=> a \in DOMAIN db.trie) /\ (a \in DOMAIN w => w[a] = db.trie[a])
LeftChanged(db, w, a) ==
  /\ a \in DOMAIN db.objects
  /\ a \in DOMAIN w <=> ~Dead(db, a)
  /\ a \in DOMAIN w =>
       /\ w[a] = [db.objects[a].data EXCEPT !.root = Written(db.objects[a].dirty, db.objects[a].data.root)]
       /\ Written(db.objects[a].dirty, db.objects[a].data.root) \in [Keys -> Slots]

\* The accounts of the state that a block leaves, and where they come from.
LEMMA LeftFacts ==
  ASSUME DiskInv, NEW db, Based(disk, db), Fitted(db), NEW w, w = IntermediateRoot(db).trie, NEW a
  PROVE  IF a \in ToWrite(db) THEN LeftChanged(db, w, a) ELSE LeftAlone(db, w, a)
<1> DEFINE touched == db.dirties \cap DOMAIN db.objects
           f == Finalise(db)
           o == db.objects[a]
           dies == o.suicided \/ (EIP158 /\ empty(o))
<1>1. Based(disk, f) /\ IsDb(db)
  BY FinalisedKeeps DEF Based
<1>2. /\ IsDb(f) /\ f.trie = db.trie /\ f.pending = db.pending \cup touched
      /\ DOMAIN f.objects = DOMAIN db.objects
      /\ \A x \in DOMAIN db.objects :
           f.objects[x] = IF x \notin touched THEN db.objects[x]
                          ELSE IF db.objects[x].suicided \/ (EIP158 /\ empty(db.objects[x]))
                               THEN [db.objects[x] EXCEPT !.deleted = TRUE]
                               ELSE finalise(db.objects[x])
  BY <1>1, FinalisedFacts, ZenonT(60)
<1>3. f = Finalise(db)
  OBVIOUS
<1> HIDE DEF f
<1>4. f.pending \subseteq DOMAIN f.objects
      /\ \A x \in f.pending : updateRoot(f.objects[x]).deleted = f.objects[x].deleted
  BY <1>1, UpdateRootKeeps DEF Based
<1>5. /\ a \in DOMAIN w <=> IF a \in f.pending THEN ~f.objects[a].deleted ELSE a \in DOMAIN f.trie
      /\ a \in DOMAIN w => w[a] = IF a \in f.pending THEN updateRoot(f.objects[a]).data ELSE f.trie[a]
  <2>1. IsDb(f)
    BY <1>2
  <2> QED BY <1>3, <1>4, <2>1, RootTrie
<1>6. f.pending = ToWrite(db)
  BY <1>2 DEF Fitted, ToWrite
<1>7. CASE a \notin f.pending
  BY <1>2, <1>5, <1>6, <1>7 DEF LeftAlone
<1>8. CASE a \in f.pending
  <2>1. a \in DOMAIN db.objects
    BY <1>2, <1>4, <1>8
  <2>2. Backed(disk, o) /\ Held(db, a, o) /\ o.deleted = FALSE
    BY <2>1 DEF Based, Fitted, Fits, Held
  <2>3. f.objects[a] = IF a \notin touched THEN o
                       ELSE IF dies THEN [o EXCEPT !.deleted = TRUE] ELSE finalise(o)
    BY <1>2, <2>1, ZenonT(60)
  <2> HIDE DEF o
  <2>4. /\ updateRoot(o).data = [o.data EXCEPT !.root = Written(o.dirty, o.data.root)]
        /\ updateRoot(finalise(o)).data = [o.data EXCEPT !.root = Written(o.dirty, o.data.root)]
        /\ Written(o.dirty, o.data.root) \in [Keys -> Slots]
    BY <2>2, ObjectRoot
  <2>5. finalise(o).deleted = o.deleted
    BY <2>2, FinaliseKeeps
  <2> HIDE DEF dies
  <2>6. CASE a \in touched /\ dies
    <3>1. f.objects[a] = [o EXCEPT !.deleted = TRUE]
      BY <2>3, <2>6
    <3>2. f.objects[a].deleted
      BY <2>2, <3>1 DEF Backed, IsObject
    <3>3. a \notin DOMAIN w
      BY <1>5, <1>8, <3>2
    <3> QED BY <1>6, <1>8, <2>1, <2>6, <3>3 DEF o, dies, Dead, LeftChanged
  <2>7. CASE ~(a \in touched /\ dies)
    <3>1. f.objects[a] \in {o, finalise(o)}
      BY <2>3, <2>7
    <3>2. /\ ~f.objects[a].deleted
          /\ updateRoot(f.objects[a]).data = [o.data EXCEPT !.root = Written(o.dirty, o.data.root)]
      BY <2>2, <2>4, <2>5, <3>1
    <3>3. a \in DOMAIN w /\ w[a] = [o.data EXCEPT !.root = Written(o.dirty, o.data.root)]
      BY <1>5, <1>8, <3>2
    <3> QED BY <1>6, <1>8, <2>1, <2>4, <2>7, <3>3 DEF o, dies, Dead, LeftChanged
  <2> QED BY <2>6, <2>7
<1> QED BY <1>7, <1>8

\* The state that a block leaves has accounts only.
LEMMA LeftState ==
  ASSUME DiskInv, NEW db, Based(disk, db), Fitted(db)
  PROVE  IsState(IntermediateRoot(db).trie)
<1> DEFINE w == IntermediateRoot(db).trie
<1>1. ASSUME NEW a \in DOMAIN w PROVE w[a] \in Accounts
  <2>1. CASE a \notin ToWrite(db)
    <3>1. LeftAlone(db, w, a)
      BY <2>1, LeftFacts
    <3>2. a \in DOMAIN db.trie /\ w[a] = db.trie[a]
      BY <1>1, <3>1 DEF LeftAlone
    <3> QED BY <3>2 DEF Fitted, IsState
  <2>2. CASE a \in ToWrite(db)
    <3> DEFINE o == db.objects[a]
    <3>1. LeftChanged(db, w, a)
      BY <2>2, LeftFacts
    <3> HIDE DEF w
    <3>2. /\ a \in DOMAIN db.objects /\ w[a] = [o.data EXCEPT !.root = Written(o.dirty, o.data.root)]
          /\ Written(o.dirty, o.data.root) \in [Keys -> Slots]
      BY <1>1, <3>1 DEF LeftChanged
    <3>3. o.data \in Accounts
      BY <3>2 DEF Fitted, Fits
    <3> HIDE DEF o
    <3> QED BY <3>2, <3>3 DEF Accounts
  <2> QED BY <2>1, <2>2
<1> HIDE DEF w
<1>2. IsState(w)
  BY <1>1 DEF IsState
<1> QED BY <1>2 DEF w

\* The parts of the view of an object.
LEMMA ViewFields ==
  ASSUME NEW o
  PROVE  /\ ObjectView(o).nonce = o.data.nonce /\ ObjectView(o).balance = o.data.balance
         /\ ObjectView(o).code = o.data.code /\ ObjectView(o).suicided = o.suicided
         /\ \A k \in Keys : ObjectView(o).slots[k] = Slot(o, k)
  BY ZenonT(60) DEF ObjectView, AccountView

\* What becomes of an account when the root is computed: it dies, or is kept.
LEMMA Settles ==
  ASSUME DiskInv, NEW db, Based(disk, db), Fitted(db), NEW copied, copied \/ db.dirty = {},
         NEW w, w = IntermediateRoot(db).trie, NEW a \in Addresses,
         NEW b, b = RootView(db.trie)[a], NEW x, x = Seen(db)[a], NEW y, y = RootView(w)[a]
  PROVE  IF y = Nil THEN x = Nil \/ W!Dies(x) ELSE x # Nil /\ W!Kept(x, b, y, copied)
<1> DEFINE o == db.objects[a]
           R == Written(o.dirty, o.data.root)
<1>1. IsState(w) /\ IsState(db.trie)
  BY LeftState DEF Fitted
<1>2. /\ y = Nil <=> a \notin DOMAIN w
      /\ a \in DOMAIN w => /\ w[a] \in Accounts /\ y \in Views
                           /\ y.nonce = w[a].nonce /\ y.balance = w[a].balance /\ y.code = w[a].code
                           /\ y.slots = w[a].root /\ y.suicided = FALSE
  BY <1>1, RootViewFacts
<1>3. /\ b = Nil <=> a \notin DOMAIN db.trie
      /\ a \in DOMAIN db.trie =>
           /\ db.trie[a] \in Accounts /\ b \in Views /\ b.slots = db.trie[a].root
           /\ b = AccountView(db.trie[a], db.trie[a].root, FALSE)
  BY <1>1, RootViewFacts
<1>4. a \in DOMAIN w /\ a \in DOMAIN db.trie /\ w[a] = db.trie[a] => y = b
  BY DEF RootView
<1>5. a \in DOMAIN db.objects =>
        x = ObjectView(o) /\ Fits(db, a, o) /\ x \in Views /\ x # Nil
  <2>1. ASSUME a \in DOMAIN db.objects PROVE x = ObjectView(o) /\ Fits(db, a, o)
    BY <2>1 DEF Seen, Fitted
  <2> QED BY <2>1, ViewType
<1>6. a \notin DOMAIN db.objects =>
        x = IF a \in DOMAIN db.trie THEN AccountView(db.trie[a], db.trie[a].root, FALSE) ELSE Nil
  BY DEF Seen
<1>7. IF a \in ToWrite(db) THEN LeftChanged(db, w, a) ELSE LeftAlone(db, w, a)
  BY LeftFacts
<1>8. CASE a \notin ToWrite(db)
  <2>1. (a \in DOMAIN w <=> a \in DOMAIN db.trie) /\ (a \in DOMAIN w => w[a] = db.trie[a])
    BY <1>7, <1>8 DEF LeftAlone
  <2>2. CASE a \in DOMAIN db.objects
    <3>1. /\ a \in DOMAIN db.trie /\ o.suicided = FALSE /\ DOMAIN o.dirty = {}
          /\ o.data = [db.trie[a] EXCEPT !.root = o.data.root]
          /\ o.data.root = EmptyTrie \/ o.data.root = db.trie[a].root
      <4>1. a \notin Changed(db)
        BY <1>8, <2>2 DEF Changed, ToWrite
      <4> HIDE DEF o
      <4> QED BY <1>5, <2>2, <4>1 DEF Fits
    <3>2. b = y /\ y \in Views /\ x \in Views /\ y # Nil /\ x # Nil /\ w[a] = db.trie[a] /\ w[a] \in Accounts
      BY <1>2, <1>5, <1>4, <2>1, <2>2, <3>1
    <3> HIDE DEF o
    <3>3. y.nonce = x.nonce /\ y.balance = x.balance /\ y.code = x.code
      <4>1. y.nonce = w[a].nonce /\ y.balance = w[a].balance /\ y.code = w[a].code
        BY <1>2, <2>1, <3>1
      <4>2. x.nonce = o.data.nonce /\ x.balance = o.data.balance /\ x.code = o.data.code
        BY <1>5, <2>2, ViewFields
      <4> QED BY <3>1, <3>2, <4>1, <4>2 DEF Accounts
    <3>4. y.suicided = FALSE /\ x.suicided = FALSE
      BY <1>2, <1>5, <2>1, <2>2, <3>1, ViewFields
    <3>5. ASSUME NEW k \in Keys PROVE y.slots[k] \in W!Returned(x, b, k)
      <4>1. x.slots[k] = o.data.root[k]
        BY <1>5, <2>2, <3>1, ViewFields DEF Slot
      <4>2. y.slots[k] = db.trie[a].root[k] /\ b.slots[k] = y.slots[k]
        BY <1>2, <2>1, <3>1, <3>2
      <4>3. x.slots[k] = Zero \/ x.slots[k] = y.slots[k]
        BY <3>1, <4>1, <4>2 DEF EmptyTrie
      <4> QED BY <3>2, <4>2, <4>3 DEF W!Returned
    <3>6. W!Kept(x, b, y, copied)
      BY <3>2, <3>3, <3>4, <3>5, KeptFacts
    <3> QED BY <3>2, <3>6
  <2>3. CASE a \notin DOMAIN db.objects /\ a \in DOMAIN db.trie
    <3>1. x = y /\ b = y /\ y \in Views /\ y # Nil
      BY <1>2, <1>6, <1>3, <1>4, <2>1, <2>3
    <3>2. y.suicided = FALSE
      BY <1>2, <2>1, <2>3
    <3>3. \A k \in Keys : y.slots[k] \in W!Returned(x, b, k)
      BY <3>1 DEF W!Returned
    <3>4. x \in Views /\ y.nonce = x.nonce /\ y.balance = x.balance /\ y.code = x.code /\ (x.suicided => copied)
      BY <3>1, <3>2
    <3>5. W!Kept(x, b, y, copied)
      BY <3>1, <3>2, <3>3, <3>4, KeptFacts
    <3> QED BY <3>1, <3>5
  <2>4. CASE a \notin DOMAIN db.objects /\ a \notin DOMAIN db.trie
    BY <1>2, <1>6, <2>1, <2>4
  <2> QED BY <2>2, <2>3, <2>4
<1>9. CASE a \in ToWrite(db)
  <2>1. /\ a \in DOMAIN db.objects
        /\ a \in DOMAIN w <=> ~Dead(db, a)
        /\ a \in DOMAIN w =>
             w[a] = [o.data EXCEPT !.root = Written(o.dirty, o.data.root)]
    BY <1>7, <1>9 DEF LeftChanged
  <2>2. x = ObjectView(o) /\ Fits(db, a, o) /\ x \in Views /\ x # Nil
    BY <1>5, <2>1
  <2>3. Dead(db, a) <=> a \in db.dirties \cap DOMAIN db.objects /\ (o.suicided \/ (EIP158 /\ empty(o)))
    BY DEF Dead
  <2> HIDE DEF o
  <2>4. CASE a \notin DOMAIN w
    <3>1. o.suicided \/ empty(o)
      BY <2>1, <2>4, <2>3
    <3>2. x.suicided = o.suicided /\ x.nonce = o.data.nonce /\ x.balance = o.data.balance /\ x.code = o.data.code
      BY <2>2, ViewFields
    <3>3. W!Dies(x)
      BY <3>1, <3>2 DEF W!Dies, empty
    <3> QED BY <1>2, <2>4, <3>3
  <2>5. CASE a \in DOMAIN w
    <3> HIDE DEF R
    <3>1. /\ y \in Views /\ y # Nil /\ y.nonce = w[a].nonce /\ y.balance = w[a].balance /\ y.code = w[a].code
          /\ y.slots = w[a].root /\ y.suicided = FALSE
      BY <1>2, <2>5
    <3>2. w[a] = [o.data EXCEPT !.root = R] /\ o.data \in Accounts
      BY <2>1, <2>2, <2>5 DEF Fits, R
    <3>3. w[a].nonce = o.data.nonce /\ w[a].balance = o.data.balance /\ w[a].code = o.data.code /\ w[a].root = R
      BY <3>2 DEF Accounts
    <3>4. y.nonce = x.nonce /\ y.balance = x.balance /\ y.code = x.code
      BY <2>2, <3>1, <3>3, ViewFields
    <3>5. y.suicided = FALSE /\ x.suicided = o.suicided /\ y.slots = R
      BY <2>2, <3>1, <3>3, ViewFields
    <3>6. x.suicided => copied
      BY <1>9, <2>1, <2>5, <2>3, <3>5 DEF ToWrite
    <3>7. ASSUME NEW k \in Keys PROVE y.slots[k] \in W!Returned(x, b, k)
      <4>1. x.slots[k] = Slot(o, k)
        BY <2>2, ViewFields
      <4>2. R[k] = IF k \in DOMAIN o.dirty /\ o.dirty[k] # 0 THEN o.dirty[k] ELSE o.data.root[k]
        BY DEF R, Written
      <4>3. R[k] # x.slots[k] => x.slots[k] = 0 /\ R[k] = o.data.root[k]
        BY <4>1, <4>2 DEF Slot
      <4>4. \/ o.data.root[k] = 0
            \/ a \in DOMAIN db.trie /\ o.data.root[k] = db.trie[a].root[k]
        BY <2>2 DEF Fits, EmptyTrie, Zero
      <4>5. a \in DOMAIN db.trie => b # Nil /\ b.slots = db.trie[a].root
        BY <1>3
      <4>6. R[k] = x.slots[k] \/ (x.slots[k] = 0 /\ b # Nil /\ R[k] = b.slots[k])
        BY <4>3, <4>4, <4>5
      <4> QED BY <3>5, <4>6 DEF W!Returned, Zero
    <3>8. W!Kept(x, b, y, copied)
      BY <2>2, <3>1, <3>4, <3>5, <3>6, <3>7, KeptFacts
    <3> QED BY <2>2, <3>1, <3>8
  <2> QED BY <2>4, <2>5
<1> QED BY <1>8, <1>9

-----------------------------------------------------------------------------
(* A block that is assembled on a copy of a copy *)

\* The account y of a copy, and x of the state that was copied: a copy has no
\* object of an account that is not in the journal, so storage that CreateAccount
\* made invisible is seen again.
Near(x, y, b) ==
  x = y \/ (y \in Views /\ b # Nil /\ x = [y EXCEPT !.slots = EmptyTrie] /\ y.slots = b.slots)

\* What Copy keeps.
LEMMA CopyFacts ==
  ASSUME NEW db, IsDb(db)
  PROVE  LET touched == db.dirties \cap DOMAIN db.objects
             kept == touched \cup db.pending \cup db.dirty
         IN  /\ IsDb(Copy(db)) /\ Copy(db).trie = db.trie /\ Copy(db).objects = [a \in kept |-> db.objects[a]]
             /\ Copy(db).pending = touched \cup db.pending /\ Copy(db).dirty = touched \cup db.dirty
             /\ Copy(db).dirties = {}
  BY DEF Copy, NewOperationDb, IsDb

\* The copy of a copy has the objects of the journal, as dirty ones.
LEMMA CopiedTwice ==
  ASSUME NEW db, IsDb(db), db.pending = {}, db.dirty = {}, NEW c, c = Copy(Copy(db)),
         NEW touched, touched = db.dirties \cap DOMAIN db.objects
  PROVE  /\ IsDb(c) /\ c.trie = db.trie /\ c.pending = touched /\ c.dirty = touched /\ c.dirties = {}
         /\ DOMAIN c.objects = touched /\ \A a \in touched : c.objects[a] = db.objects[a]
<1> DEFINE o == Copy(db)
<1>1. /\ IsDb(o) /\ o.trie = db.trie /\ o.objects = [a \in touched \cup {} \cup {} |-> db.objects[a]]
      /\ o.pending = touched /\ o.dirty = touched /\ o.dirties = {}
  BY CopyFacts
<1>2. DOMAIN o.objects = touched /\ \A a \in touched : o.objects[a] = db.objects[a]
  BY <1>1
<1> HIDE DEF o
<1>3. c = Copy(o)
  BY DEF o
<1>4. /\ IsDb(c) /\ c.trie = o.trie
      /\ c.objects = [a \in (o.dirties \cap DOMAIN o.objects) \cup o.pending \cup o.dirty |-> o.objects[a]]
      /\ c.pending = (o.dirties \cap DOMAIN o.objects) \cup o.pending
      /\ c.dirty = (o.dirties \cap DOMAIN o.objects) \cup o.dirty /\ c.dirties = {}
  BY <1>1, <1>3, CopyFacts
<1>5. (o.dirties \cap DOMAIN o.objects) \cup o.pending \cup o.dirty = touched
  BY <1>1
<1>6. c.objects = [a \in touched |-> o.objects[a]]
  BY <1>4, <1>5
<1> QED BY <1>1, <1>2, <1>4, <1>6

\* What is seen in the copy of a copy.
LEMMA CopiedNear ==
  ASSUME NEW db, IsDb(db), Fitted(db), db.dirty = {}, NEW c, c = Copy(Copy(db))
  PROVE  /\ Fitted(c) /\ c.trie = db.trie
         /\ \A a \in Addresses : Near(Seen(db)[a], Seen(c)[a], RootView(db.trie)[a])
<1> DEFINE touched == db.dirties \cap DOMAIN db.objects
<1>1. /\ IsDb(c) /\ c.trie = db.trie /\ c.pending = touched /\ c.dirty = touched /\ c.dirties = {}
      /\ DOMAIN c.objects = touched /\ \A a \in touched : c.objects[a] = db.objects[a]
  <2>1. db.pending = {} /\ touched = db.dirties \cap DOMAIN db.objects
    BY DEF Fitted
  <2> HIDE DEF touched
  <2> QED BY <2>1, CopiedTwice
<1>2. ASSUME NEW a \in DOMAIN c.objects PROVE Fits(c, a, c.objects[a])
  <2>1. Fits(db, a, db.objects[a]) /\ c.objects[a] = db.objects[a] /\ a \in Changed(c)
    BY <1>1, <1>2 DEF Fitted, Changed
  <2> QED BY <1>1, <2>1 DEF Fits
<1>3. Fitted(c)
  BY <1>1, <1>2 DEF Fitted
<1>4. ASSUME NEW a \in Addresses PROVE Near(Seen(db)[a], Seen(c)[a], RootView(db.trie)[a])
  <2>1. CASE a \in touched
    BY <1>1, <2>1 DEF Seen, Near
  <2>2. CASE a \notin DOMAIN db.objects
    BY <1>1, <2>2 DEF Seen, Near
  <2>3. CASE a \in DOMAIN db.objects /\ a \notin touched
    <3> DEFINE o == db.objects[a]
               x == Seen(db)[a]
               y == Seen(c)[a]
               b == RootView(db.trie)[a]
    <3>1. a \notin Changed(db) /\ Fits(db, a, o) /\ x = ObjectView(o)
      BY <2>3 DEF Changed, Fitted, Seen
    <3> HIDE DEF o
    <3>2. /\ a \in DOMAIN db.trie /\ o.suicided = FALSE /\ DOMAIN o.dirty = {}
          /\ o.data = [db.trie[a] EXCEPT !.root = o.data.root] /\ o.data \in Accounts
          /\ o.data.root = EmptyTrie \/ o.data.root = db.trie[a].root
      BY <3>1 DEF Fits
    <3>3. y = AccountView(db.trie[a], db.trie[a].root, FALSE) /\ y = b
      BY <1>1, <2>3, <3>2 DEF Seen, RootView
    <3>4. db.trie[a] \in Accounts
      BY <3>2 DEF Fitted, IsState
    <3>5. y \in Views /\ y # Nil
      BY <3>3, <3>4, StateView
    <3>6. [k \in Keys |-> Slot(o, k)] = o.data.root
      BY <3>2 DEF Slot, Accounts
    <3>7. x = AccountView(o.data, o.data.root, FALSE)
      BY <3>1, <3>2, <3>6, ZenonT(60) DEF ObjectView
    <3> HIDE DEF x, y, b
    <3>8. x = AccountView(db.trie[a], o.data.root, FALSE)
      <4>1. o.data.nonce = db.trie[a].nonce /\ o.data.balance = db.trie[a].balance /\ o.data.code = db.trie[a].code
        BY <3>2, <3>4 DEF Accounts
      <4> QED BY <3>7, <4>1, ZenonT(60) DEF AccountView
    <3>9. CASE o.data.root = db.trie[a].root
      BY <3>3, <3>8, <3>9 DEF Near, x, y
    <3>10. CASE o.data.root = EmptyTrie
      <4> DEFINE no == FALSE
      <4>1. /\ y = [nonce |-> db.trie[a].nonce, balance |-> db.trie[a].balance, code |-> db.trie[a].code,
                    slots |-> db.trie[a].root, suicided |-> no]
            /\ x = [nonce |-> db.trie[a].nonce, balance |-> db.trie[a].balance, code |-> db.trie[a].code,
                    slots |-> EmptyTrie, suicided |-> no]
        BY <3>3, <3>8, <3>10, ZenonT(60) DEF AccountView
      <4> HIDE DEF no
      <4>2. x = [y EXCEPT !.slots = EmptyTrie]
        BY <4>1, SMTT(60)
      <4>3. Near(x, y, b)
        BY <3>3, <3>5, <4>2 DEF Near
      <4> QED BY <4>3 DEF x, y, b
    <3> QED BY <3>2, <3>9, <3>10
  <2> QED BY <2>1, <2>2, <2>3
<1> QED BY <1>1, <1>3, <1>4

\* The reward does not make a difference.
LEMMA NearPaid ==
  ASSUME NEW x, NEW y, NEW b, Near(x, y, b), NEW n \in Int, NEW fresh,
         NEW p, p = IF x = Nil THEN fresh ELSE x, NEW q, q = IF y = Nil THEN fresh ELSE y
  PROVE  Near([p EXCEPT !.balance = p.balance + n], [q EXCEPT !.balance = q.balance + n], b)
<1>1. CASE x = y
  BY <1>1 DEF Near
<1>2. CASE x # y
  <2>1. y \in Views /\ b # Nil /\ x = [y EXCEPT !.slots = EmptyTrie] /\ y.slots = b.slots
    BY <1>2 DEF Near
  <2>2. x \in Views /\ x.balance = y.balance
    BY <2>1, NewAccountType DEF Views
  <2>3. p = x /\ q = y
    BY <2>1, <2>2, NilAssumption
  <2> DEFINE r == [y EXCEPT !.balance = y.balance + n]
             s == [x EXCEPT !.balance = x.balance + n]
  <2>4. r \in Views /\ r.slots = y.slots
    BY <2>1 DEF Views
  <2>5. s = [r EXCEPT !.slots = EmptyTrie]
    BY <2>1, <2>2 DEF Views
  <2> HIDE DEF r, s
  <2>6. Near(s, r, b)
    BY <2>1, <2>4, <2>5 DEF Near
  <2> QED BY <2>3, <2>6 DEF r, s
<1> QED BY <1>1, <1>2

\* What is left of the account of a copy is also left of the one that was copied.
LEMMA NearSettled ==
  ASSUME NEW x, NEW y, NEW b, Near(x, y, b), NEW w, w # Nil => w \in Views,
         IF w = Nil THEN y = Nil \/ W!Dies(y) ELSE y # Nil /\ W!Kept(y, b, w, TRUE)
  PROVE  IF w = Nil THEN x = Nil \/ W!Dies(x) ELSE x # Nil /\ W!Kept(x, b, w, TRUE)
<1>1. CASE x = y
  BY <1>1
<1>2. CASE x # y
  <2>1. y \in Views /\ b # Nil /\ x = [y EXCEPT !.slots = EmptyTrie] /\ y.slots = b.slots
    BY <1>2 DEF Near
  <2>2. /\ x \in Views /\ x.nonce = y.nonce /\ x.balance = y.balance /\ x.code = y.code
        /\ x.suicided = y.suicided /\ x.slots = EmptyTrie
    BY <2>1, NewAccountType DEF Views
  <2>3. x # Nil /\ y # Nil
    BY <2>1, <2>2, NilAssumption
  <2>4. CASE w = Nil
    BY <2>2, <2>3, <2>4 DEF W!Dies
  <2>5. CASE w # Nil
    <3>1. w \in Views /\ W!Kept(y, b, w, TRUE)
      BY <2>5
    <3>2. w.nonce = x.nonce /\ w.balance = x.balance /\ w.code = x.code
      <4>1. w = [y EXCEPT !.slots = w.slots, !.suicided = FALSE]
        BY <3>1, ZenonT(60) DEF W!Kept
      <4> DEFINE r == [y EXCEPT !.slots = w.slots]
                 no == FALSE
      <4>2. w = [r EXCEPT !.suicided = no]
        BY <4>1, ZenonT(60)
      <4> HIDE DEF no
      <4>3. r \in Views /\ r.nonce = y.nonce /\ r.balance = y.balance /\ r.code = y.code
        BY <2>1, <3>1 DEF Views
      <4> HIDE DEF r
      <4>4. w.nonce = r.nonce /\ w.balance = r.balance /\ w.code = r.code
        BY <4>2, <4>3 DEF Views
      <4> QED BY <2>2, <4>3, <4>4
    <3>3. w.suicided = FALSE
      <4>1. w = [[y EXCEPT !.slots = w.slots] EXCEPT !.suicided = FALSE]
        BY <3>1, ZenonT(60) DEF W!Kept
      <4> DEFINE r == [y EXCEPT !.slots = w.slots]
                 no == FALSE
      <4>2. w = [r EXCEPT !.suicided = no]
        BY <4>1, ZenonT(60)
      <4> HIDE DEF no
      <4>3. r \in Views
        BY <2>1, <3>1 DEF Views
      <4> HIDE DEF r
      <4>4. w.suicided = no
        BY <4>2, <4>3 DEF Views
      <4> QED BY <4>4 DEF no
    <3>4. ASSUME NEW k \in Keys PROVE w.slots[k] \in W!Returned(x, b, k)
      <4>1. w.slots[k] \in W!Returned(y, b, k)
        BY <3>1 DEF W!Kept
      <4>2. x.slots[k] = Zero
        BY <2>2 DEF EmptyTrie
      <4>3. w.slots[k] \in {Zero, b.slots[k]}
        BY <2>1, <4>1 DEF W!Returned
      <4> QED BY <2>1, <4>2, <4>3 DEF W!Returned
    <3>5. W!Kept(x, b, w, TRUE)
      <4> DEFINE yes == TRUE
      <4> HIDE DEF yes
      <4>1. x.suicided => yes
        BY DEF yes
      <4>2. W!Kept(x, b, w, yes)
        BY <2>2, <3>1, <3>2, <3>3, <3>4, <4>1, KeptFacts
      <4> QED BY <4>2, ZenonT(60) DEF yes
    <3> QED BY <2>3, <2>5, <3>5
  <2> QED BY <2>4, <2>5
<1> QED BY <1>1, <1>2

-----------------------------------------------------------------------------
(* The refinement *)

\* A block starts with the accounts of its parent.
LEMMA NewDbSeen ==
  ASSUME NEW r, IsState(r)
  PROVE  LET db == NewOperationDb(r)
         IN  /\ Fitted(db) /\ db.originalRoot = r /\ db.trie = r /\ db.dirty = {}
             /\ Seen(db) = RootView(r)
<1> DEFINE db == NewOperationDb(r)
<1>1. /\ db.originalRoot = r /\ db.trie = r /\ db.dirty = {} /\ db.pending = {} /\ DOMAIN db.objects = {}
  BY DEF NewOperationDb, Nothing
<1> HIDE DEF db
<1>2. Fitted(db)
  BY <1>1 DEF Fitted
<1>3. Seen(db) = RootView(r)
  BY <1>1 DEF Seen, RootView
<1> QED BY <1>1, <1>2, <1>3 DEF db

\* What the accessors say of an account is what is seen.
LEMMA GettersSeen ==
  ASSUME IInv, RInv, NEW a \in Addresses
  PROVE  /\ GetBalance(a) = IF Seen(env)[a] = Nil THEN 0 ELSE Seen(env)[a].balance
         /\ GetNonce(a) = IF Seen(env)[a] = Nil THEN 0 ELSE Seen(env)[a].nonce
         /\ Exist(env, a) <=> Seen(env)[a] # Nil
         /\ Exist(env, a) => Object(env, a) = Known(env, a)
<1>1. IsDb(env) /\ Fitted(env)
  BY DEF IInv, RInv, Based
<1>2. Exist(env, a) <=> Seen(env)[a] # Nil
  BY <1>1, ExistFacts, KnownFacts
<1>3. CASE Exist(env, a)
  <2>1. Object(env, a) = Known(env, a) /\ Seen(env)[a] = ObjectView(Known(env, a))
    BY <1>1, <1>2, <1>3, KnownObject, KnownFacts DEF SeenOrNew
  <2> QED BY <1>2, <1>3, <2>1, ViewFields DEF GetBalance, GetNonce
<1>4. CASE ~Exist(env, a)
  BY <1>2, <1>4 DEF GetBalance, GetNonce
<1> QED BY <1>2, <1>3, <1>4

\* An operation is seen as a change of the view, and nothing else changes.
LEMMA OperationMaps ==
  ASSUME RInv, NEW db, Operation(db), Fitted(db), db.trie = env.trie, db.originalRoot = env.originalRoot,
         db.dirty = env.dirty
  PROVE  RInv' /\ env' = db /\ disk' = disk /\ tasks' = tasks
<1>1. env' = db /\ tasks' = tasks /\ disk' = disk
  BY DEF Operation
<1>2. Fitted(env') /\ env'.originalRoot = env'.trie /\ env'.dirty = {}
  BY <1>1 DEF RInv
<1>3. (\A r \in disk.roots : IsState(r)) /\ (\A t \in tasks : t.root = t.db.trie /\ IsState(t.root))
  BY DEF RInv
<1> QED BY <1>1, <1>2, <1>3 DEF RInv

\* The same after a step.
LEMMA SeenNext == IInv' /\ RInv' => ViewOf(env)' = Seen(env)'
<1>1. (IInv /\ RInv => ViewOf(env) = Seen(env))'
  BY EnvSeen, PTL
<1> QED BY <1>1

\* An operation that changes one account is one of WorldState.
LEMMA ShownStep ==
  ASSUME IInv, RInv, IInv', NEW db, Operation(db), NEW a \in Addresses, NEW x, Shows(env, db, a, x)
  PROVE  RInv' /\ W!Put(a, x)
<1>1. RInv' /\ env' = db /\ disk' = disk /\ tasks' = tasks
  BY OperationMaps DEF Shows
<1>2. ViewOf(env) = Seen(env)
  BY EnvSeen
<1>3. ViewOf(env)' = Seen(env)'
  BY <1>1, SeenNext
<1>4. Seen(env)' = Seen(db)
  BY <1>1 DEF Seen
<1>5. ViewOf(env)' = [ViewOf(env) EXCEPT ![a] = x]
  BY <1>2, <1>3, <1>4 DEF Shows
<1>6. RootView(env.originalRoot)' = RootView(env.originalRoot)
  BY <1>1 DEF Shows, RootView
<1>7. {RootView(t.root) : t \in tasks}' = {RootView(t.root) : t \in tasks}
  BY <1>1 DEF RootView
<1>8. {RootView(r) : r \in disk.roots}' = {RootView(r) : r \in disk.roots}
  BY <1>1 DEF RootView
<1> QED BY <1>1, <1>5, <1>6, <1>7, <1>8 DEF W!Put

\* The account that an operation of WorldState works on.
LEMMA AccountSeen ==
  ASSUME IInv, RInv, NEW a \in Addresses
  PROVE  W!AccountOf(a) = SeenOrNew(env, a)
  BY EnvSeen DEF W!AccountOf, SeenOrNew

\* Every operation of a transaction is a change of the account it names.
LEMMA TransactionMaps ==
  ASSUME IInv, RInv, IInv', NEW a \in Users,
         \/ \E n \in Amounts : Pay(a, n)
         \/ Use(a) \/ Create(a)
         \/ \E b \in Addresses : Destroy(a, b)
         \/ \E c \in Codes : Deploy(a, c)
         \/ \E k \in Keys, v \in Values : Store(a, k, v)
  PROVE  RInv' /\ W!WNext
<1> DEFINE x == SeenOrNew(env, a)
<1>1. DiskInv /\ Based(disk, env) /\ Fitted(env) /\ a \in Addresses /\ IsDb(env)
  BY AccountsAssumption DEF IInv, RInv, Based
<1>2. W!AccountOf(a) = x
  BY <1>1, AccountSeen
<1>3. x \in Views
  BY <1>1, KnownFacts
<1>4. CASE \E n \in Amounts : Pay(a, n)
  <2>1. PICK n \in Amounts : Pay(a, n)
    BY <1>4
  <2>2. n \in Int /\ Operation(AddBalance(env, a, n))
    BY <2>1, AccountsAssumption DEF Pay
  <2>3. Shows(env, AddBalance(env, a, n), a, [x EXCEPT !.balance = x.balance + n])
    BY <1>1, <2>2, AddBalanceShows
  <2>4. RInv' /\ W!Put(a, [x EXCEPT !.balance = x.balance + n])
    BY <1>1, <2>2, <2>3, ShownStep
  <2>5. W!Pay(a, n)
    BY <1>2, <2>4 DEF W!Pay
  <2> QED BY <1>1, <2>4, <2>5 DEF W!WNext
<1>5. CASE Use(a)
  <2> DEFINE n == GetNonce(a) + 1
  <2>1. Operation(SetNonce(env, a, n))
    BY <1>5 DEF Use
  <2>2. x.nonce \in Int /\ n = x.nonce + 1
    BY <1>1, <1>3, GettersSeen DEF SeenOrNew, W!Fresh, Views
  <2>3. Shows(env, SetNonce(env, a, n), a, [x EXCEPT !.nonce = n])
    BY <1>1, <2>2, SetNonceShows
  <2>4. RInv' /\ W!Put(a, [x EXCEPT !.nonce = n])
    BY <1>1, <2>1, <2>3, ShownStep
  <2>5. W!Use(a)
    BY <1>2, <2>2, <2>4 DEF W!Use
  <2> QED BY <1>1, <2>4, <2>5 DEF W!WNext
<1>6. CASE Create(a)
  <2> DEFINE c == CreateAccount(env, a)
             p == Known(env, a)
  <2>1. Operation(IF EIP158 THEN SetNonce(c, a, 1) ELSE c) /\ GetNonce(a) = 0 /\ ~HasCode(a)
    BY <1>6 DEF Create
  <2>2. Exist(env, a) => p.data.nonce = 0 /\ p.data.code = NoCode
    BY <1>1, <2>1, GettersSeen DEF GetNonce, HasCode
  <2>3. CASE EIP158
    <3>1. Shows(env, SetNonce(c, a, 1), a, Born(x.balance, 1))
      BY <1>1, <2>2, CreateShows
    <3>2. RInv' /\ W!Put(a, Born(x.balance, 1))
      BY <1>1, <2>1, <2>3, <3>1, ShownStep
    <3>3. W!Create(a, 1)
      BY <1>2, <3>2, ZenonT(60) DEF W!Create, Born
    <3> QED BY <1>1, <3>2, <3>3 DEF W!WNext
  <2>4. CASE ~EIP158
    <3>1. Shows(env, c, a, Born(x.balance, 0))
      BY <1>1, <2>2, CreateAccountShows
    <3>2. RInv' /\ W!Put(a, Born(x.balance, 0))
      BY <1>1, <2>1, <2>4, <3>1, ShownStep
    <3>3. W!Create(a, 0)
      BY <1>2, <3>2, ZenonT(60) DEF W!Create, Born
    <3> QED BY <1>1, <3>2, <3>3 DEF W!WNext
  <2> QED BY <2>3, <2>4
<1>7. CASE \E b \in Addresses : Destroy(a, b)
  <2>1. PICK b \in Addresses : Destroy(a, b)
    BY <1>7
  <2> DEFINE next == Suicide(AddBalance(env, b, Seen(env)[a].balance), a)
             y == [SeenOrNew(env, b) EXCEPT !.balance = SeenOrNew(env, b).balance + Seen(env)[a].balance]
             v == [[Seen(env) EXCEPT ![b] = y] EXCEPT ![a] = Marked(Seen(env)[a], TRUE)]
  <2>2. Runs(a) /\ Operation(Suicide(AddBalance(env, b, GetBalance(a)), a))
    BY <2>1 DEF Destroy
  <2>3. Exist(env, a)
    BY <1>1, <2>2, RunsExists DEF Extends
  <2>4. Seen(env)[a] # Nil /\ Operation(next)
    BY <1>1, <2>2, <2>3, GettersSeen
  <2>5. /\ Fitted(next) /\ next.trie = env.trie /\ next.originalRoot = env.originalRoot /\ next.dirty = env.dirty
        /\ Seen(next) = v
    <3>1. /\ next = Suicide(AddBalance(env, b, Seen(env)[a].balance), a)
          /\ y = [SeenOrNew(env, b) EXCEPT !.balance = SeenOrNew(env, b).balance + Seen(env)[a].balance]
          /\ v = [[Seen(env) EXCEPT ![b] = y] EXCEPT ![a] = Marked(Seen(env)[a], TRUE)]
      OBVIOUS
    <3> HIDE DEF next, y, v
    <3>2. Looks(env, next, v)
      BY <1>1, <2>3, <3>1, DestroyShows, ZenonT(60)
    <3> QED BY <3>2 DEF Looks
  <2> HIDE DEF next
  <2>6. RInv' /\ env' = next /\ disk' = disk /\ tasks' = tasks
    BY <2>4, <2>5, OperationMaps
  <2>7. ViewOf(env)' = Seen(env)'
    BY <2>6, SeenNext
  <2>8. Seen(env)' = Seen(next)
    BY <2>6 DEF Seen
  <2>9. /\ RootView(env.originalRoot)' = RootView(env.originalRoot)
        /\ {RootView(t.root) : t \in tasks}' = {RootView(t.root) : t \in tasks}
        /\ {RootView(r) : r \in disk.roots}' = {RootView(r) : r \in disk.roots}
    BY <2>5, <2>6 DEF RootView
  <2>10. ViewOf(env) = Seen(env) /\ W!AccountOf(b) = SeenOrNew(env, b)
    BY EnvSeen, AccountSeen
  <2>11. W!Destroy(a, b)
    BY <2>4, <2>5, <2>7, <2>8, <2>9, <2>10, ZenonT(60) DEF W!Destroy, Marked
  <2> QED BY <1>1, <2>6, <2>11 DEF W!WNext
<1>8. CASE \E c \in Codes : Deploy(a, c)
  <2>1. PICK c \in Codes : Deploy(a, c)
    BY <1>8
  <2>2. Operation(SetCode(env, a, c))
    BY <2>1 DEF Deploy
  <2>3. Shows(env, SetCode(env, a, c), a, [x EXCEPT !.code = c])
    BY <1>1, SetCodeShows
  <2>4. RInv' /\ W!Put(a, [x EXCEPT !.code = c])
    BY <1>1, <2>2, <2>3, ShownStep
  <2>5. W!Deploy(a, c)
    BY <1>2, <2>4 DEF W!Deploy
  <2> QED BY <1>1, <2>4, <2>5 DEF W!WNext
<1>9. CASE \E k \in Keys, v \in Values : Store(a, k, v)
  <2>1. PICK k \in Keys, v \in Values : Store(a, k, v)
    BY <1>9
  <2>2. Operation(SetState(env, a, k, v))
    BY <2>1 DEF Store
  <2>3. Shows(env, SetState(env, a, k, v), a, [x EXCEPT !.slots[k] = v])
    BY <1>1, SetStateShows
  <2>4. RInv' /\ W!Put(a, [x EXCEPT !.slots[k] = v])
    BY <1>1, <2>2, <2>3, ShownStep
  <2>5. W!Store(a, k, v)
    BY <1>2, <2>4 DEF W!Store
  <2> QED BY <1>1, <2>4, <2>5 DEF W!WNext
<1> QED BY <1>4, <1>5, <1>6, <1>7, <1>8, <1>9

\* The root that Commit computes for a sealed block is the one of its header.
LEMMA SealedRoot ==
  ASSUME NEW db, Sealed(disk, db), NEW w, w = IntermediateRoot(db).trie
  PROVE  DOMAIN w = DOMAIN db.trie /\ \A a \in DOMAIN w : w[a] = db.trie[a]
<1> DEFINE f == Finalise(db)
<1>1. IsDb(db) /\ db.pending = {} /\ db.dirties = {}
  BY DEF Sealed
<1>2. IsDb(f) /\ f.trie = db.trie /\ f.pending = {}
  BY <1>1, FinalisedFacts
<1>3. f = Finalise(db)
  OBVIOUS
<1> HIDE DEF f
<1>4. ASSUME NEW a
      PROVE  (a \in DOMAIN w <=> a \in DOMAIN db.trie) /\ (a \in DOMAIN w => w[a] = db.trie[a])
  <2>1. /\ a \in DOMAIN w <=> IF a \in f.pending THEN ~f.objects[a].deleted ELSE a \in DOMAIN f.trie
        /\ a \in DOMAIN w => w[a] = IF a \in f.pending THEN updateRoot(f.objects[a]).data ELSE f.trie[a]
    BY <1>2, <1>3, RootTrie
  <2> QED BY <1>2, <2>1
<1> QED BY <1>4

\* The state that is committed.
LEMMA CommittedRoots ==
  ASSUME NEW db, NEW failed
  PROVE  Committed(db, failed).roots = disk.roots \cup {IntermediateRoot(db).trie}
  BY DEF Committed

\* What is seen, and the parent's, of a block that starts.
LEMMA StartMaps ==
  ASSUME IInv, RInv, IInv', NEW r, IsState(r), env' = NewOperationDb(r),
         \A s \in disk'.roots : IsState(s), tasks' = tasks
  PROVE  /\ RInv' /\ ViewOf(env)' = RootView(r) /\ RootView(env.originalRoot)' = RootView(r)
         /\ {RootView(t.root) : t \in tasks}' = {RootView(t.root) : t \in tasks}
<1>1. /\ Fitted(env') /\ env'.originalRoot = r /\ env'.trie = r /\ env'.dirty = {} /\ Seen(env') = RootView(r)
  BY NewDbSeen
<1>2. \A t \in tasks' : t.root = t.db.trie /\ IsState(t.root)
  BY DEF RInv
<1>3. RInv'
  BY <1>1, <1>2 DEF RInv
<1>4. ViewOf(env)' = Seen(env)' /\ Seen(env)' = Seen(env')
  BY <1>3, SeenNext DEF Seen
<1>5. RootView(env.originalRoot)' = RootView(r)
  BY <1>1 DEF RootView
<1>6. {RootView(t.root) : t \in tasks}' = {RootView(t.root) : t \in tasks}
  BY DEF RootView
<1> QED BY <1>1, <1>3, <1>4, <1>5, <1>6

\* StateAt, insertChain: a block on a state that was committed.
LEMMA StateAtMaps ==
  ASSUME IInv, RInv, IInv', NEW root \in disk.roots, StateAt(root)
  PROVE  RInv' /\ W!WNext
<1>1. IsState(root) /\ env' = NewOperationDb(root) /\ disk' = disk /\ tasks' = tasks
  BY DEF RInv, StateAt
<1>2. \A s \in disk'.roots : IsState(s)
  BY <1>1 DEF RInv
<1>3. /\ RInv' /\ ViewOf(env)' = RootView(root) /\ RootView(env.originalRoot)' = RootView(root)
      /\ {RootView(t.root) : t \in tasks}' = {RootView(t.root) : t \in tasks}
  BY <1>1, <1>2, StartMaps
<1>4. {RootView(r) : r \in disk.roots}' = {RootView(r) : r \in disk.roots}
  BY <1>1 DEF RootView
<1>5. RootView(root) \in {RootView(r) : r \in disk.roots}
  OBVIOUS
<1>6. W!Open
  BY <1>3, <1>4, <1>5 DEF W!Open
<1> QED BY <1>3, <1>6 DEF W!WNext

\* Import: the state is what the transactions left.
LEMMA ImportMaps ==
  ASSUME IInv, RInv, IInv', NEW failed, Import(failed)
  PROVE  RInv' /\ W!WNext
<1> DEFINE w == IntermediateRoot(env).trie
           no == FALSE
<1>1. DiskInv /\ Based(disk, env) /\ Fitted(env) /\ env.dirty = {} /\ env.originalRoot = env.trie
  BY DEF IInv, RInv
<1>2. IsState(w)
  BY <1>1, LeftState
<1>3. env' = NewOperationDb(w) /\ tasks' = tasks /\ disk'.roots = disk.roots \cup {w}
  BY CommittedRoots DEF Import
<1>4. w = IntermediateRoot(env).trie
  OBVIOUS
<1> HIDE DEF w, no
<1>5. \A s \in disk'.roots : IsState(s)
  BY <1>2, <1>3 DEF RInv
<1>6. /\ RInv' /\ ViewOf(env)' = RootView(w) /\ RootView(env.originalRoot)' = RootView(w)
      /\ {RootView(t.root) : t \in tasks}' = {RootView(t.root) : t \in tasks}
  BY <1>2, <1>3, <1>5, StartMaps
<1>7. {RootView(r) : r \in disk.roots}' = {RootView(r) : r \in disk.roots} \cup {RootView(w)}
  BY <1>3 DEF RootView
<1>8. ASSUME NEW a \in Addresses
      PROVE  IF RootView(w)[a] = Nil THEN Seen(env)[a] = Nil \/ W!Dies(Seen(env)[a])
             ELSE Seen(env)[a] # Nil /\ W!Kept(Seen(env)[a], RootView(env.trie)[a], RootView(w)[a], no)
  <2> DEFINE b == RootView(env.trie)[a]
             x == Seen(env)[a]
             y == RootView(w)[a]
  <2>1. DiskInv /\ Based(disk, env) /\ Fitted(env) /\ (no \/ env.dirty = {}) /\ w = IntermediateRoot(env).trie
    BY <1>1, <1>4
  <2> QED BY ONLY <2>1, a \in Addresses, Settles
<1>9. W!Settled(Seen(env), RootView(w), no)
  BY <1>1, <1>8 DEF W!Settled
<1>10. W!Settled(ViewOf(env), RootView(w), FALSE)
  BY <1>9, EnvSeen, ZenonT(60) DEF no
<1>11. W!Import
  BY <1>6, <1>7, <1>10, ZenonT(60) DEF W!Import
<1> QED BY <1>6, <1>11 DEF W!WNext

\* WriteSealed: the state of the task is written.
LEMMA WriteMaps ==
  ASSUME IInv, RInv, IInv', NEW t \in tasks, NEW failed, WriteSealed(t, failed)
  PROVE  RInv' /\ W!WNext
<1> DEFINE w == IntermediateRoot(t.db).trie
<1>1. tasks' = tasks \ {t} /\ env' = env /\ disk'.roots = disk.roots \cup {w}
  BY CommittedRoots DEF WriteSealed
<1>2. t.root = t.db.trie /\ IsState(t.root)
  BY DEF RInv
<1>3. DOMAIN w = DOMAIN t.root /\ \A a \in DOMAIN w : w[a] = t.root[a]
  BY <1>2, SealedRoot DEF IInv
<1> HIDE DEF w
<1>4. IsState(w) /\ RootView(w) = RootView(t.root)
  BY <1>2, <1>3 DEF IsState, RootView
<1>5. RInv'
  <2>1. \A s \in disk'.roots : IsState(s)
    BY <1>1, <1>4 DEF RInv
  <2>2. \A s \in tasks' : s.root = s.db.trie /\ IsState(s.root)
    BY <1>1 DEF RInv
  <2>3. Fitted(env') /\ env'.originalRoot = env'.trie /\ env'.dirty = {}
    BY <1>1 DEF RInv
  <2> QED BY <2>1, <2>2, <2>3 DEF RInv
<1>6. ViewOf(env)' = ViewOf(env)
  <2>1. ViewOf(env)' = Seen(env)' /\ ViewOf(env) = Seen(env)
    BY <1>5, SeenNext, EnvSeen
  <2> QED BY <1>1, <2>1 DEF Seen
<1>7. RootView(env.originalRoot)' = RootView(env.originalRoot)
  BY <1>1 DEF RootView
<1>8. {RootView(r) : r \in disk.roots}' = {RootView(r) : r \in disk.roots} \cup {RootView(t.root)}
  <2>1. {RootView(r) : r \in disk.roots}' = {RootView(r) : r \in disk'.roots}
    BY DEF RootView
  <2> QED BY <1>1, <1>4, <2>1
<1> DEFINE ts == {RootView(s.root) : s \in tasks}
<1>9. {RootView(s.root) : s \in tasks}' \in {ts, ts \ {RootView(t.root)}} /\ RootView(t.root) \in ts
  <2>1. {RootView(s.root) : s \in tasks}' = {RootView(s.root) : s \in tasks \ {t}}
    BY <1>1 DEF RootView
  <2> DEFINE us == {RootView(s.root) : s \in tasks \ {t}}
  <2>2. CASE RootView(t.root) \in us
    <3>1. us = ts
      BY <2>2
    <3> QED BY <2>1, <3>1
  <2>3. CASE RootView(t.root) \notin us
    <3>1. us = ts \ {RootView(t.root)}
      BY <2>3
    <3> QED BY <2>1, <3>1
  <2> QED BY <2>2, <2>3
<1>10. W!Write
  BY <1>6, <1>7, <1>8, <1>9 DEF W!Write
<1> QED BY <1>5, <1>10 DEF W!WNext

\* Assemble: the task has what the transactions left, and the reward.
LEMMA AssembleMaps ==
  ASSUME IInv, RInv, IInv', Assemble
  PROVE  RInv' /\ W!WNext
<1> DEFINE c == Copy(Copy(env))
           paid == AddBalance(c, Coinbase, Reward)
           db == IntermediateRoot(paid)
           w == db.trie
           x == SeenOrNew(env, Coinbase)
           y == SeenOrNew(c, Coinbase)
           v == [Seen(env) EXCEPT ![Coinbase] = [x EXCEPT !.balance = x.balance + Reward]]
<1>1. DiskInv /\ Based(disk, env) /\ Fitted(env) /\ IsDb(env) /\ env.dirty = {} /\ env.originalRoot = env.trie
  BY DEF IInv, RInv, Based
<1>2. Based(disk, c)
  BY <1>1, CopyKeeps
<1>3. Fitted(c) /\ c.trie = env.trie /\ \A a \in Addresses : Near(Seen(env)[a], Seen(c)[a], RootView(env.trie)[a])
  BY <1>1, CopiedNear
<1>4. UNCHANGED <<env, creating, disk>> /\ tasks' = tasks \cup {[root |-> w, db |-> db]}
  BY ZenonT(60) DEF Assemble
<1> HIDE DEF c
<1>5. Based(disk, paid) /\ Shows(c, paid, Coinbase, [y EXCEPT !.balance = y.balance + Reward])
  BY <1>1, <1>2, <1>3, AddBalanceKeeps, AddBalanceShows, AccountsAssumption DEF Extends
<1>6. /\ Fitted(paid) /\ paid.trie = env.trie
      /\ Seen(paid) = [Seen(c) EXCEPT ![Coinbase] = [y EXCEPT !.balance = y.balance + Reward]]
  BY <1>3, <1>5 DEF Shows
<1> HIDE DEF paid
<1>7. IsState(w)
  BY <1>1, <1>5, <1>6, LeftState
<1>8. ASSUME NEW a \in Addresses PROVE Near(v[a], Seen(paid)[a], RootView(env.trie)[a])
  <2>1. DOMAIN Seen(env) = Addresses /\ DOMAIN Seen(c) = Addresses
    BY DEF Seen
  <2>2. CASE a = Coinbase
    <3>1. /\ v[a] = [x EXCEPT !.balance = x.balance + Reward]
          /\ Seen(paid)[a] = [y EXCEPT !.balance = y.balance + Reward]
      BY <1>6, <2>1, <2>2
    <3>2. /\ x = IF Seen(env)[a] = Nil THEN W!Fresh ELSE Seen(env)[a]
          /\ y = IF Seen(c)[a] = Nil THEN W!Fresh ELSE Seen(c)[a]
      BY <2>2 DEF SeenOrNew
    <3>3. Near(Seen(env)[a], Seen(c)[a], RootView(env.trie)[a]) /\ Reward \in Int
      BY <1>3, AccountsAssumption
    <3> HIDE DEF x, y, v
    <3>4. Near([x EXCEPT !.balance = x.balance + Reward], [y EXCEPT !.balance = y.balance + Reward],
               RootView(env.trie)[a])
      BY <3>2, <3>3, NearPaid, ZenonT(60)
    <3> QED BY <3>1, <3>4
  <2>3. CASE a # Coinbase
    <3>1. v[a] = Seen(env)[a] /\ Seen(paid)[a] = Seen(c)[a]
      BY <1>6, <2>1, <2>3
    <3> QED BY <1>3, <3>1
  <2> QED BY <2>2, <2>3
<1>9. w = IntermediateRoot(paid).trie
  OBVIOUS
<1>10. W!Rewarded = v
  BY EnvSeen, AccountSeen, AccountsAssumption, ZenonT(60) DEF W!Rewarded
<1> HIDE DEF w, v
<1>11. ASSUME NEW a \in Addresses
       PROVE  IF RootView(w)[a] = Nil THEN v[a] = Nil \/ W!Dies(v[a])
              ELSE v[a] # Nil /\ W!Kept(v[a], RootView(env.trie)[a], RootView(w)[a], TRUE)
  <2> DEFINE yes == TRUE
             z == RootView(w)[a]
             b == RootView(env.trie)[a]
             p == Seen(paid)[a]
  <2>1. yes
    OBVIOUS
  <2> HIDE DEF yes
  <2>2. IF z = Nil THEN p = Nil \/ W!Dies(p) ELSE p # Nil /\ W!Kept(p, b, z, yes)
    <3>1. z = RootView(w)[a] /\ b = RootView(paid.trie)[a] /\ p = Seen(paid)[a] /\ (yes \/ paid.dirty = {})
      BY <1>6, <2>1
    <3>2. DiskInv /\ Based(disk, paid) /\ Fitted(paid)
      BY <1>1, <1>5, <1>6
    <3> HIDE DEF z, b, p
    <3> QED BY <1>9, <3>1, <3>2, Settles
  <2>3. z # Nil => z \in Views
    BY <1>7, RootViewFacts
  <2>4. Near(v[a], p, b)
    BY <1>8
  <2> HIDE DEF z, b, p
  <2>5. IF z = Nil THEN p = Nil \/ W!Dies(p) ELSE p # Nil /\ W!Kept(p, b, z, TRUE)
    BY <2>2, ZenonT(60) DEF yes
  <2>6. IF z = Nil THEN v[a] = Nil \/ W!Dies(v[a]) ELSE v[a] # Nil /\ W!Kept(v[a], b, z, TRUE)
    BY <2>3, <2>4, <2>5, NearSettled, ZenonT(60)
  <2> QED BY <2>6 DEF z, b
<1>12. W!Settled(W!Rewarded, RootView(w), TRUE)
  BY <1>1, <1>10, <1>11, ZenonT(60) DEF W!Settled
<1> DEFINE t == [root |-> w, db |-> db]
<1>13. t.root = w /\ t.db.trie = w
  BY DEF w
<1>14. tasks' = tasks \cup {t}
  BY <1>4
<1> HIDE DEF t
<1>15. RInv'
  <2>1. \A s \in tasks' : s.root = s.db.trie /\ IsState(s.root)
    BY <1>7, <1>13, <1>14 DEF RInv
  <2>2. Fitted(env') /\ env'.originalRoot = env'.trie /\ env'.dirty = {} /\ \A s \in disk'.roots : IsState(s)
    BY <1>4 DEF RInv
  <2> QED BY <2>1, <2>2 DEF RInv
<1>16. /\ RootView(env.originalRoot)' = RootView(env.originalRoot)
       /\ {RootView(r) : r \in disk.roots}' = {RootView(r) : r \in disk.roots}
  BY <1>4 DEF RootView
<1>17. ViewOf(env)' = ViewOf(env)
  <2>1. ViewOf(env)' = Seen(env)' /\ ViewOf(env) = Seen(env)
    BY <1>15, SeenNext, EnvSeen
  <2> QED BY <1>4, <2>1 DEF Seen
<1>18. {RootView(s.root) : s \in tasks}' = {RootView(s.root) : s \in tasks} \cup {RootView(w)}
  <2>1. {RootView(s.root) : s \in tasks}' = {RootView(s.root) : s \in tasks'}
    BY DEF RootView
  <2> QED BY <1>13, <1>14, <2>1
<1>19. W!Assemble
  BY <1>12, <1>16, <1>17, <1>18, ZenonT(60) DEF W!Assemble
<1> QED BY <1>15, <1>19 DEF W!WNext

\* The genesis block.
LEMMA InitMaps == Init => RInv /\ W!WInit
<1> SUFFICES ASSUME Init PROVE RInv /\ W!WInit
  OBVIOUS
<1>1. disk.roots = {Genesis} /\ tasks = {} /\ env = NewOperationDb(Genesis)
  BY DEF Init
<1>2. IsState(Genesis)
  BY GenesisAssumption DEF IsState
<1>3. /\ Fitted(env) /\ env.originalRoot = Genesis /\ env.trie = Genesis /\ env.dirty = {}
      /\ Seen(env) = RootView(Genesis)
  BY <1>1, <1>2, NewDbSeen
<1>4. RInv
  BY <1>1, <1>2, <1>3 DEF RInv
<1>5. ViewOf(env) = RootView(Genesis)
  BY <1>3, <1>4, EnvSeen, InitComplete
<1>6. {RootView(r) : r \in disk.roots} = {RootView(Genesis)} /\ {RootView(t.root) : t \in tasks} = {}
  BY <1>1
<1> QED BY <1>3, <1>4, <1>5, <1>6 DEF W!WInit

\* Every step is one of WorldState, or changes nothing that is seen.
LEMMA NextMaps == IInv /\ RInv /\ [Next]_vars => RInv' /\ [W!WNext]_(W!wvars)
<1> SUFFICES ASSUME IInv, RInv, [Next]_vars PROVE RInv' /\ [W!WNext]_(W!wvars)
  OBVIOUS
<1>1. IInv'
  BY NextComplete
<1>2. ASSUME UNCHANGED <<env, tasks, disk>> PROVE RInv' /\ UNCHANGED W!wvars
  <2>1. RInv'
    BY <1>2 DEF RInv
  <2>2. ViewOf(env)' = ViewOf(env)
    <3>1. ViewOf(env)' = Seen(env)' /\ ViewOf(env) = Seen(env)
      BY <1>1, <2>1, SeenNext, EnvSeen
    <3> QED BY <1>2, <3>1 DEF Seen
  <2>3. /\ RootView(env.originalRoot)' = RootView(env.originalRoot)
        /\ {RootView(t.root) : t \in tasks}' = {RootView(t.root) : t \in tasks}
        /\ {RootView(r) : r \in disk.roots}' = {RootView(r) : r \in disk.roots}
    BY <1>2 DEF RootView
  <2> QED BY <2>1, <2>2, <2>3 DEF W!wvars
<1>3. CASE CreateFails
  BY <1>2, <1>3 DEF CreateFails
<1>4. CASE UNCHANGED vars
  BY <1>2, <1>4 DEF vars
<1>5. CASE \E root \in disk.roots : StateAt(root)
  BY <1>1, <1>5, StateAtMaps
<1>6. CASE Assemble
  BY <1>1, <1>6, AssembleMaps
<1>7. CASE \E t \in tasks, failed \in BOOLEAN : WriteSealed(t, failed)
  BY <1>1, <1>7, WriteMaps
<1>8. CASE \E failed \in BOOLEAN : Import(failed)
  BY <1>1, <1>8, ImportMaps
<1>9. CASE \E a \in Users :
             \/ \E n \in Amounts : Pay(a, n)
             \/ Use(a) \/ Create(a)
             \/ \E b \in Addresses : Destroy(a, b)
             \/ \E c \in Codes : Deploy(a, c)
             \/ \E k \in Keys, v \in Values : Store(a, k, v)
  BY <1>1, <1>9, TransactionMaps, ZenonT(60)
<1> QED BY <1>3, <1>4, <1>5, <1>6, <1>7, <1>8, <1>9, ZenonT(60) DEF Next

(* The state database keeps the promise of WorldState: what a transaction of a *)
(* block reads is what was written last, whether it is in an object, in one of *)
(* its storage caches or in a trie, and the state that is committed is the one *)
(* the transactions left, also through the copies of the worker.               *)
THEOREM DatabaseImplements == Spec => ImplementsWorldState
<1>1. Init => IInv /\ RInv /\ W!WInit
  BY InitComplete, InitMaps
<1>2. IInv /\ RInv /\ [Next]_vars => IInv' /\ RInv' /\ [W!WNext]_(W!wvars)
  BY NextComplete, NextMaps
<1>3. Init /\ [][Next]_vars => W!WSpec
  BY <1>1, <1>2, PTL DEF W!WSpec
<1> QED BY <1>3, PTL DEF Spec, ImplementsWorldState

=============================================================================
