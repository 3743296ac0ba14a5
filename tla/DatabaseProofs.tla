--------------------------- MODULE DatabaseProofs ---------------------------
(***************************************************************************)
(* The database keeps one entry per id and answers as a keyed store does,  *)
(* for every set of ids and texts.                                         *)
(***************************************************************************)
EXTENDS Database, ListLemmas

(* get finds the one entry of an id.                                       *)
LEMMA GetFindsEntry ==
    ASSUME NEW db, UniqueIds(db), NEW i \in DOMAIN db, DOMAIN db \subseteq Nat
    PROVE  Get(db, db[i].id) = db[i]
<1>1. \A j \in DOMAIN db : db[j].id = db[i].id <=> j = i
  BY DEF UniqueIds
<1>2. \A j \in DOMAIN db : db[j].id = db[i].id => i <= j
  BY <1>1
<1> QED  BY <1>1, <1>2 DEF Get

(* insert replaces the entry of the id or adds one at the end.             *)
LEMMA UpdateKeepsPlaces ==
    ASSUME NEW M, NEW db \in Seq(M), NEW item \in M, UniqueIds(db), Has(db, item)
    PROVE  /\ Insert(db, item) \in Seq(M)
           /\ DOMAIN Insert(db, item) = DOMAIN db
           /\ \A i \in DOMAIN db : /\ Insert(db, item)[i].id = db[i].id
                                   /\ Insert(db, item)[i] =
                                        IF db[i].id = item.id THEN item ELSE db[i]
           /\ UniqueIds(Insert(db, item))
<1>1. Insert(db, item) = [i \in 1..Len(db) |-> IF db[i].id = item.id THEN item ELSE db[i]]
  BY DEF Insert, Update
<1>2. \A i \in 1..Len(db) : db[i] \in M
  OBVIOUS
<1>3. Insert(db, item) \in Seq(M)
  BY <1>1, <1>2
<1>4. \A i \in DOMAIN db : /\ Insert(db, item)[i].id = db[i].id
                           /\ Insert(db, item)[i] = IF db[i].id = item.id THEN item ELSE db[i]
  BY <1>1
<1> QED  BY <1>1, <1>3, <1>4 DEF UniqueIds

LEMMA AppendAddsEntry ==
    ASSUME NEW M, NEW db \in Seq(M), NEW item \in M, UniqueIds(db), ~Has(db, item)
    PROVE  /\ Insert(db, item) \in Seq(M)
           /\ Len(Insert(db, item)) = Len(db) + 1
           /\ \A i \in 1..Len(db) : Insert(db, item)[i] = db[i]
           /\ Insert(db, item)[Len(db) + 1] = item
           /\ UniqueIds(Insert(db, item))
<1>1. Insert(db, item) = Append(db, item)
  BY DEF Insert
<1>2. /\ Insert(db, item) \in Seq(M)
      /\ Len(Insert(db, item)) = Len(db) + 1
      /\ \A i \in 1..Len(db) : Insert(db, item)[i] = db[i]
      /\ Insert(db, item)[Len(db) + 1] = item
  BY <1>1
<1>3. \A i \in 1..Len(db) : db[i].id # item.id
  BY DEF Has
<1>4. UniqueIds(Insert(db, item))
  BY <1>2, <1>3 DEF UniqueIds
<1> QED  BY <1>2, <1>4

(* insert acts on the answers of get as Put does on the store.             *)
LEMMA InsertPuts ==
    ASSUME NEW M, NEW db \in Seq(M), NEW item \in M, UniqueIds(db)
    PROVE  /\ IdsOf(Insert(db, item)) = IdsOf(db) \cup {item.id}
           /\ \A id \in IdsOf(Insert(db, item)) :
                 Get(Insert(db, item), id) = IF id = item.id THEN item ELSE Get(db, id)
<1> DEFINE new == Insert(db, item)
<1>1. CASE Has(db, item)
  <2>1. /\ DOMAIN new = DOMAIN db /\ UniqueIds(new) /\ DOMAIN new \subseteq Nat
        /\ \A i \in DOMAIN db : /\ new[i].id = db[i].id
                                /\ new[i] = IF db[i].id = item.id THEN item ELSE db[i]
    BY <1>1, UpdateKeepsPlaces
  <2>2. PICK k \in DOMAIN db : db[k].id = item.id
    BY <1>1 DEF Has
  <2> HIDE DEF new
  <2>3. IdsOf(new) = IdsOf(db) \cup {item.id}
    BY <2>1, <2>2 DEF IdsOf
  <2>4. ASSUME NEW id \in IdsOf(new)
        PROVE  Get(new, id) = IF id = item.id THEN item ELSE Get(db, id)
    <3>1. PICK i \in DOMAIN new : new[i].id = id
      BY DEF IdsOf
    <3>2. Get(new, id) = new[i]
      BY <2>1, <3>1, GetFindsEntry
    <3>3. Get(db, id) = db[i]
      BY <2>1, <3>1, GetFindsEntry
    <3> QED  BY <2>1, <3>1, <3>2, <3>3
  <2> QED  BY <2>3, <2>4 DEF new
<1>2. CASE ~Has(db, item)
  <2>1. /\ new \in Seq(M) /\ Len(new) = Len(db) + 1 /\ UniqueIds(new)
        /\ \A i \in 1..Len(db) : new[i] = db[i]
        /\ new[Len(db) + 1] = item
    BY <1>2, AppendAddsEntry
  <2>2. \A i \in DOMAIN db : db[i].id # item.id
    BY <1>2 DEF Has
  <2> HIDE DEF new
  <2>3. DOMAIN new = DOMAIN db \cup {Len(db) + 1} /\ DOMAIN db = 1..Len(db) /\ DOMAIN new \subseteq Nat
    BY <2>1
  <2>4. IdsOf(new) = IdsOf(db) \cup {item.id}
    BY <2>1, <2>3 DEF IdsOf
  <2>5. ASSUME NEW id \in IdsOf(new)
        PROVE  Get(new, id) = IF id = item.id THEN item ELSE Get(db, id)
    <3>1. PICK i \in DOMAIN new : new[i].id = id
      BY DEF IdsOf
    <3>2. Get(new, id) = new[i]
      BY <2>1, <2>3, <3>1, GetFindsEntry
    <3>3. CASE i = Len(db) + 1
      BY <2>1, <3>1, <3>2, <3>3
    <3>4. CASE i \in DOMAIN db
      <4>1. db[i].id = id /\ new[i] = db[i]
        BY <2>1, <2>3, <3>1, <3>4
      <4>2. Get(db, id) = db[i]
        BY <2>3, <3>4, <4>1, GetFindsEntry
      <4> QED  BY <2>2, <3>2, <3>4, <4>1, <4>2
    <3> QED  BY <2>3, <3>3, <3>4
  <2> QED  BY <2>4, <2>5 DEF new
<1> QED  BY <1>1, <1>2

(* Without an entry of the id update changes nothing.                      *)
LEMMA UpdateNothing ==
    ASSUME NEW M, NEW db \in Seq(M), NEW item, ~Has(db, item)
    PROVE  Update(db, item) = db
<1>1. Update(db, item) = [i \in 1..Len(db) |-> db[i]]
  BY DEF Update, Has
<1> QED  BY <1>1

-----------------------------------------------------------------------------
(* delete takes the entry out.                                             *)
LEMMA DeleteMovesUp ==
    ASSUME NEW M, NEW db \in Seq(M), NEW k \in 1..Len(db), UniqueIds(db)
    PROVE  /\ Delete(db, db[k]) \in Seq(M)
           /\ Len(Delete(db, db[k])) = Len(db) - 1
           /\ \A i \in 1..(Len(db) - 1) :
                 Delete(db, db[k])[i] = IF i < k THEN db[i] ELSE db[i + 1]
<1>1. \A j \in 1..Len(db) : db[j] = db[k] => j = k
  BY DEF UniqueIds
<1> QED  BY <1>1, RemovalMovesUp DEF Delete

(* delete acts on the answers of get as Remove does on the store.          *)
LEMMA DeleteRemoves ==
    ASSUME NEW M, NEW db \in Seq(M), NEW k \in 1..Len(db), UniqueIds(db)
    PROVE  /\ UniqueIds(Delete(db, db[k]))
           /\ IdsOf(Delete(db, db[k])) = IdsOf(db) \ {db[k].id}
           /\ \A id \in IdsOf(Delete(db, db[k])) : Get(Delete(db, db[k]), id) = Get(db, id)
<1> DEFINE new == Delete(db, db[k])
<1>1. /\ new \in Seq(M)
      /\ Len(new) = Len(db) - 1
      /\ \A i \in 1..(Len(db) - 1) : new[i] = IF i < k THEN db[i] ELSE db[i + 1]
  BY DeleteMovesUp
<1> HIDE DEF new
<1>2. DOMAIN new = 1..(Len(db) - 1) /\ DOMAIN db = 1..Len(db)
  BY <1>1
<1>3. UniqueIds(new)
  <2> DEFINE place(i) == IF i < k THEN i ELSE i + 1
  <2>1. \A i \in DOMAIN new : place(i) \in DOMAIN db /\ new[i] = db[place(i)]
    BY <1>1, <1>2
  <2>2. \A i, j \in DOMAIN new : place(i) = place(j) => i = j
    BY <1>2
  <2> HIDE DEF place
  <2> QED  BY <2>1, <2>2 DEF UniqueIds
<1>4. \A i \in DOMAIN new : \E j \in DOMAIN db : j # k /\ new[i] = db[j]
  <2> TAKE i \in DOMAIN new
  <2>1. CASE i < k
    BY <1>1, <1>2, <2>1
  <2>2. CASE ~(i < k)
    <3>1. i + 1 \in DOMAIN db /\ i + 1 # k /\ new[i] = db[i + 1]
      BY <1>1, <1>2, <2>2
    <3> QED  BY <3>1
  <2> QED  BY <2>1, <2>2
<1>5. \A j \in DOMAIN db : j # k => \E i \in DOMAIN new : new[i] = db[j]
  <2> TAKE j \in DOMAIN db
  <2> HAVE j # k
  <2>1. CASE j < k
    BY <1>1, <1>2, <2>1
  <2>2. CASE j > k
    <3>1. j - 1 \in DOMAIN new /\ new[j - 1] = db[j]
      BY <1>1, <1>2, <2>2
    <3> QED  BY <3>1
  <2> QED  BY <1>2, <2>1, <2>2
<1>6. \A j \in DOMAIN db : db[j].id = db[k].id <=> j = k
  BY <1>2 DEF UniqueIds
<1>7. IdsOf(new) = IdsOf(db) \ {db[k].id}
  BY <1>4, <1>5, <1>6 DEF IdsOf
<1>8. ASSUME NEW id \in IdsOf(new)
      PROVE  Get(new, id) = Get(db, id)
  <2>1. PICK i \in DOMAIN new : new[i].id = id
    BY DEF IdsOf
  <2>2. PICK j \in DOMAIN db : new[i] = db[j]
    BY <1>4
  <2>3. Get(new, id) = new[i]
    BY <1>2, <1>3, <2>1, GetFindsEntry
  <2>4. Get(db, id) = db[j]
    BY <1>2, <2>1, <2>2, GetFindsEntry
  <2> QED  BY <2>2, <2>3, <2>4
<1> QED  BY <1>3, <1>7, <1>8 DEF new

(* A message that is not in the database is not deleted from it.           *)
LEMMA DeleteNothing ==
    ASSUME NEW db, NEW item, DOMAIN db = 1..Len(db), \A i \in DOMAIN db : db[i] # item
    PROVE  Delete(db, item) = db
BY DEF Delete, RemoveFirst

-----------------------------------------------------------------------------
(* No two entries share an id.                                             *)
IInv == database \in Seq(Messages) /\ UniqueIds(database)

LEMMA Preserved == IInv /\ [Next]_vars => IInv'
<1> SUFFICES ASSUME IInv, [Next]_vars
             PROVE  IInv'
  OBVIOUS
<1>1. ASSUME NEW item \in Messages, InsertMessage(item)
      PROVE  IInv'
  <2>1. CASE Has(database, item)
    BY <1>1, <2>1, UpdateKeepsPlaces DEF IInv, InsertMessage
  <2>2. CASE ~Has(database, item)
    BY <1>1, <2>2, AppendAddsEntry DEF IInv, InsertMessage
  <2> QED  BY <2>1, <2>2
<1>2. ASSUME NEW item \in Messages, DeleteMessage(item)
      PROVE  IInv'
  <2>1. CASE \E k \in 1..Len(database) : database[k] = item
    BY <1>2, <2>1, DeleteMovesUp, DeleteRemoves DEF IInv, DeleteMessage
  <2>2. CASE \A k \in 1..Len(database) : database[k] # item
    BY <1>2, <2>2, DeleteNothing DEF IInv, DeleteMessage
  <2> QED  BY <2>1, <2>2
<1>3. ASSUME NEW item \in Messages, UpdateMessage(item)
      PROVE  IInv'
  <2>1. CASE Has(database, item)
    <3>1. Update(database, item) = Insert(database, item)
      BY <2>1 DEF Insert
    <3> QED  BY <1>3, <2>1, <3>1, UpdateKeepsPlaces DEF IInv, UpdateMessage
  <2>2. CASE ~Has(database, item)
    BY <1>3, <2>2, UpdateNothing DEF IInv, UpdateMessage
  <2> QED  BY <2>1, <2>2
<1>4. CASE UNCHANGED vars
  BY <1>4 DEF IInv, vars, UniqueIds
<1> QED  BY <1>1, <1>2, <1>3, <1>4 DEF Next

(* Every call of insert, update or delete acts on what get answers as the  *)
(* store does.                                                             *)
LEMMA InsertImplementsPut ==
    ASSUME IInv, NEW item \in Messages, InsertMessage(item)
    PROVE  Store!Put(item)
<1>1. Answers' = [id \in IdsOf(Insert(database, item)) |-> Get(Insert(database, item), id)]
  BY DEF Answers, InsertMessage
<1>2. Answers' = Store!With(item.id, item)
  BY <1>1, InsertPuts DEF IInv, Answers, Store!With
<1> QED  BY <1>2 DEF Store!Put, InsertMessage

LEMMA UpdateImplementsChange ==
    ASSUME IInv, NEW item \in Messages, UpdateMessage(item)
    PROVE  Store!Change(item)
<1>1. item.id \in DOMAIN Answers <=> Has(database, item)
  BY DEF Answers, IdsOf, Has
<1>2. CASE Has(database, item)
  <2>1. database' = Insert(database, item)
    BY <1>2 DEF UpdateMessage, Insert
  <2>2. Answers' = [id \in IdsOf(Insert(database, item)) |-> Get(Insert(database, item), id)]
    BY <2>1 DEF Answers
  <2>3. Answers' = Store!With(item.id, item)
    BY <2>2, InsertPuts DEF IInv, Answers, Store!With
  <2> QED  BY <1>1, <1>2, <2>3 DEF Store!Change, UpdateMessage
<1>3. CASE ~Has(database, item)
  <2>1. database' = database
    BY <1>3, UpdateNothing DEF IInv, UpdateMessage
  <2>2. Answers' = Answers
    BY <2>1 DEF Answers
  <2> QED  BY <1>1, <1>3, <2>2 DEF Store!Change, UpdateMessage
<1> QED  BY <1>2, <1>3

LEMMA DeleteImplementsRemove ==
    ASSUME IInv, NEW item \in Messages, DeleteMessage(item)
    PROVE  Store!Remove(item)
<1>1. Answers' = [id \in IdsOf(Delete(database, item)) |-> Get(Delete(database, item), id)]
  BY DEF Answers, DeleteMessage
<1>2. DOMAIN database = 1..Len(database) /\ DOMAIN database \subseteq Nat
  BY DEF IInv
<1>3. CASE \E k \in 1..Len(database) : database[k] = item
  <2>1. PICK k \in 1..Len(database) : database[k] = item
    BY <1>3
  <2>2. item.id \in DOMAIN Answers /\ Answers[item.id] = item
    BY <1>2, <2>1, GetFindsEntry DEF IInv, Answers, IdsOf
  <2>3. Answers' = Store!Without(item.id)
    BY <1>1, <2>1, DeleteRemoves DEF IInv, Answers, Store!Without
  <2> QED  BY <2>2, <2>3 DEF Store!Remove, DeleteMessage
<1>4. CASE \A k \in 1..Len(database) : database[k] # item
  <2>1. Delete(database, item) = database
    BY <1>2, <1>4, DeleteNothing
  <2>2. Answers' = Answers
    BY <1>1, <2>1 DEF Answers
  <2>3. ASSUME item.id \in DOMAIN Answers
        PROVE  Answers[item.id] # item
    <3>1. PICK i \in DOMAIN database : database[i].id = item.id
      BY <2>3 DEF Answers, IdsOf
    <3> QED  BY <1>2, <1>4, <2>3, <3>1, GetFindsEntry DEF IInv, Answers
  <2> QED  BY <2>2, <2>3 DEF Store!Remove, DeleteMessage
<1> QED  BY <1>3, <1>4

(* insert, update, delete and get are a store with one entry per id.       *)
THEOREM DatabaseIsAStore == Spec => OneEntryPerId
<1>1. Init => IInv /\ Store!Init
  BY DEF Init, IInv, UniqueIds, Store!Init, Answers, IdsOf
<1>2. IInv /\ [Next]_vars => [Store!Next]_Store!vars
  <2> SUFFICES ASSUME IInv, [Next]_vars
               PROVE  Store!Next \/ UNCHANGED Store!vars
    OBVIOUS
  <2>1. CASE Next
    BY <2>1, InsertImplementsPut, UpdateImplementsChange, DeleteImplementsRemove DEF Next, Store!Next
  <2>2. CASE UNCHANGED vars
    BY <2>2 DEF vars, Store!vars, Answers, IdsOf, Get
  <2> QED  BY <2>1, <2>2
<1> QED  BY <1>1, <1>2, Preserved, PTL DEF Spec, OneEntryPerId, Store!Spec

-----------------------------------------------------------------------------
(* The entries stand in the order in which their ids came.                 *)
Mirror ==
    /\ inserted \in Seq(Ids)
    /\ Len(inserted) = Len(database)
    /\ \A i \in 1..Len(database) : inserted[i] = database[i].id

LEMMA MirrorPreserved == IInv /\ Mirror /\ [Next]_vars => Mirror'
<1> SUFFICES ASSUME IInv, Mirror, [Next]_vars
             PROVE  Mirror'
  OBVIOUS
<1>a. /\ database \in Seq(Messages) /\ UniqueIds(database)
      /\ inserted \in Seq(Ids) /\ Len(inserted) = Len(database) /\ Len(database) \in Nat
      /\ \A i \in 1..Len(database) : inserted[i] = database[i].id
  BY DEF IInv, Mirror
<1>1. ASSUME NEW item \in Messages, InsertMessage(item)
      PROVE  Mirror'
  <2>1. Known(inserted, item.id) <=> Has(database, item)
    BY <1>a DEF Known, Has
  <2>2. CASE Has(database, item)
    <3>1. /\ database' \in Seq(Messages) /\ DOMAIN database' = DOMAIN database
          /\ \A i \in DOMAIN database : database'[i].id = database[i].id
      BY <1>1, <1>a, <2>2, UpdateKeepsPlaces DEF InsertMessage
    <3>2. UNCHANGED inserted
      BY <1>1, <2>1, <2>2 DEF InsertMessage
    <3> QED  BY <1>a, <3>1, <3>2 DEF Mirror
  <2>3. CASE ~Has(database, item)
    <3>1. /\ Len(database') = Len(database) + 1
          /\ \A i \in 1..Len(database) : database'[i] = database[i]
          /\ database'[Len(database) + 1] = item
      BY <1>1, <1>a, <2>3, AppendAddsEntry DEF InsertMessage
    <3>2. inserted' = Append(inserted, item.id) /\ item.id \in Ids
      BY <1>1, <2>1, <2>3 DEF InsertMessage, Messages
    <3> QED  BY <1>a, <3>1, <3>2 DEF Mirror
  <2> QED  BY <2>2, <2>3
<1>2. ASSUME NEW item \in Messages, DeleteMessage(item)
      PROVE  Mirror'
  <2>1. CASE \E k \in 1..Len(database) : database[k] = item
    <3>1. PICK k \in 1..Len(database) : database[k] = item
      BY <2>1
    <3>2. /\ Len(database') = Len(database) - 1
          /\ \A i \in 1..(Len(database) - 1) :
                database'[i] = IF i < k THEN database[i] ELSE database[i + 1]
      BY <1>2, <1>a, <3>1, DeleteMovesUp DEF DeleteMessage
    <3>3. inserted' = RemoveFirst(inserted, inserted[k])
      <4>1. database' # database
        BY <1>a, <3>2
      <4> QED  BY <1>2, <1>a, <3>1, <4>1 DEF DeleteMessage
    <3>4. \A j \in 1..Len(inserted) : inserted[j] = inserted[k] => j = k
      BY <1>a DEF UniqueIds
    <3>5. /\ inserted' \in Seq(Ids) /\ Len(inserted') = Len(inserted) - 1
          /\ \A i \in 1..(Len(inserted) - 1) :
                inserted'[i] = IF i < k THEN inserted[i] ELSE inserted[i + 1]
      BY <1>a, <3>3, <3>4, RemovalMovesUp
    <3>6. \A i \in 1..(Len(database) - 1) :
             /\ inserted[i] = database[i].id
             /\ inserted[i + 1] = database[i + 1].id
      BY <1>a
    <3> QED  BY <1>a, <3>2, <3>5, <3>6 DEF Mirror
  <2>2. CASE \A k \in 1..Len(database) : database[k] # item
    BY <1>2, <1>a, <2>2, DeleteNothing DEF Mirror, DeleteMessage
  <2> QED  BY <2>1, <2>2
<1>3. ASSUME NEW item \in Messages, UpdateMessage(item)
      PROVE  Mirror'
  <2>1. CASE Has(database, item)
    <3>1. Update(database, item) = Insert(database, item)
      BY <2>1 DEF Insert
    <3>2. /\ DOMAIN database' = DOMAIN database /\ database' \in Seq(Messages)
          /\ \A i \in DOMAIN database : database'[i].id = database[i].id
      BY <1>3, <1>a, <2>1, <3>1, UpdateKeepsPlaces DEF UpdateMessage
    <3> QED  BY <1>3, <1>a, <3>2 DEF Mirror, UpdateMessage
  <2>2. CASE ~Has(database, item)
    BY <1>3, <1>a, <2>2, UpdateNothing DEF Mirror, UpdateMessage
  <2> QED  BY <2>1, <2>2
<1>4. CASE UNCHANGED vars
  BY <1>4, <1>a DEF Mirror, vars
<1> QED  BY <1>1, <1>2, <1>3, <1>4 DEF Next

(* get_range returns the entries of the ids that came last.                *)
LEMMA RecentMirrors == IInv /\ Mirror => RecentAreLatest
<1> SUFFICES ASSUME IInv, Mirror, NEW k \in 1..(Len(inserted) + 1)
             PROVE  LET recent == Recent(database, k)
                        n      == Len(inserted)
                    IN  /\ Len(recent) = IF n > k THEN k ELSE n
                        /\ \A i \in DOMAIN recent :
                              recent[i] = Get(database, inserted[n - Len(recent) + i])
  BY DEF RecentAreLatest
<1> DEFINE n      == Len(inserted)
           least  == IF n > k THEN k ELSE n
           recent == Recent(database, k)
<1>1. /\ database \in Seq(Messages) /\ UniqueIds(database) /\ n \in Nat /\ Len(database) = n
      /\ \A i \in 1..n : inserted[i] = database[i].id
  BY DEF IInv, Mirror
<1>2. recent = SubSeq(database, (n - least) + 1, n) /\ least \in 0..n
  <2>1. (IF Len(database) > k THEN Len(database) - k + 1 ELSE 1) = (n - least) + 1
    BY <1>1
  <2>2. least \in 0..n
    BY <1>1
  <2>3. recent = SubSeq(database, IF Len(database) > k THEN Len(database) - k + 1 ELSE 1,
                        Len(database))
    BY DEF Recent
  <2> HIDE DEF recent, least, n
  <2> QED  BY <1>1, <2>1, <2>2, <2>3
<1> HIDE DEF recent, least, n
<1>3. /\ Len(recent) = least /\ DOMAIN recent = 1..least
      /\ \A i \in 1..least : recent[i] = database[(n - least) + i]
  BY <1>1, <1>2
<1>4. ASSUME NEW i \in 1..least
      PROVE  recent[i] = Get(database, inserted[n - Len(recent) + i])
  <2>1. (n - least) + i \in 1..n /\ DOMAIN database = 1..n
    BY <1>1, <1>2
  <2>2. Get(database, database[(n - least) + i].id) = database[(n - least) + i]
    BY <1>1, <2>1, GetFindsEntry
  <2>3. database[(n - least) + i].id = inserted[(n - least) + i]
    BY <1>1, <2>1
  <2> QED  BY <1>3, <2>2, <2>3
<1> QED  BY <1>3, <1>4 DEF recent, least, n

(* Theorem RecentEntriesAreLatest: whatever is inserted, updated, deleted  *)
(* and inserted again, get_range(-k), which a new server is answered with, *)
(* returns the entries of the k ids that came last, each with the text it  *)
(* has now.                                                                *)
THEOREM RecentEntriesAreLatest == Spec => []RecentAreLatest
<1>1. Init => IInv /\ Mirror
  BY DEF Init, IInv, UniqueIds, Mirror
<1>2. IInv /\ Mirror /\ [Next]_vars => (IInv /\ Mirror)'
  BY Preserved, MirrorPreserved
<1>3. IInv /\ Mirror => RecentAreLatest
  BY RecentMirrors
<1> QED  BY <1>1, <1>2, <1>3, PTL DEF Spec

=============================================================================
