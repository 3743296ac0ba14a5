---------------------------- MODULE DatabaseOps -----------------------------
(***************************************************************************)
(* The operations of the quote database (components/database_provider.py): *)
(* a Python list of messages "TYPE:ID:TEXT" that are compared by their     *)
(* second field.  A message is a record with a field id; whatever else it  *)
(* carries is not looked at.                                               *)
(***************************************************************************)
EXTENDS Integers, Sequences, SequencesExt

Has(database, item) == \E i \in DOMAIN database : database[i].id = item.id

IdsOf(database) == {database[i].id : i \in DOMAIN database}

\* Every entry with the id of the item is replaced by it.
Update(database, item) ==
    [i \in DOMAIN database |-> IF database[i].id = item.id THEN item ELSE database[i]]

\* Mutant of Insert: no look for an entry with the same id.
InsertAlways(database, item) == Append(database, item)

Insert(database, item) ==
    IF Has(database, item) THEN Update(database, item) ELSE Append(database, item)

Delete(database, item) == RemoveFirst(database, item)

\* get(id): the first entry with the id, None when there is none.
Get(database, id) ==
    database[CHOOSE i \in DOMAIN database :
                /\ database[i].id = id
                /\ \A j \in DOMAIN database : database[j].id = id => i <= j]

\* Mutant of Recent: the first entries.
Oldest(database, k) == SubSeq(database, 1, IF Len(database) > k THEN k ELSE Len(database))

\* get_range(start=-k), the only way it is called: the last k entries, or all
\* when there are fewer.  0 is no start for the code, which then returns None.
Recent(database, k) ==
    SubSeq(database, IF Len(database) > k THEN Len(database) - k + 1 ELSE 1, Len(database))

\* No two entries share an id.
UniqueIds(database) ==
    \A i, j \in DOMAIN database : database[i].id = database[j].id => i = j

=============================================================================
