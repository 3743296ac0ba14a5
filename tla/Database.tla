------------------------------ MODULE Database ------------------------------
(***************************************************************************)
(* The quote database of one server (components/database_provider.py),     *)
(* with insert as called by the receiving thread for every message that is *)
(* delivered, and update and delete, which only the tests call.  A reply   *)
(* to a quote has the quote's id.                                          *)
(***************************************************************************)
EXTENDS DatabaseOps

CONSTANTS
    Ids,        \* the ids of messages
    Texts       \* types and texts of messages

VARIABLES
    database,
    inserted,   \* history: the ids in the order in which they were first inserted
    call        \* history: the operation and the message of the last call

vars == <<database, inserted, call>>

Messages == [id : Ids, text : Texts]

Init ==
    /\ database = <<>>
    /\ inserted = <<>>
    /\ call = <<>>

Known(list, id) == \E i \in DOMAIN list : list[i] = id

InsertMessage(item) ==
    /\ database' = Insert(database, item)
    /\ inserted' = IF Known(inserted, item.id) THEN inserted ELSE Append(inserted, item.id)
    /\ call' = <<"insert", item>>

UpdateMessage(item) ==
    /\ database' = Update(database, item)
    /\ call' = <<"update", item>>
    /\ UNCHANGED inserted

DeleteMessage(item) ==
    /\ database' = Delete(database, item)
    /\ inserted' = IF database' = database THEN inserted
                   ELSE RemoveFirst(inserted, item.id)
    /\ call' = <<"delete", item>>

Next == \E item \in Messages :
    InsertMessage(item) \/ UpdateMessage(item) \/ DeleteMessage(item)

Spec == Init /\ [][Next]_vars

-----------------------------------------------------------------------------
(* What get() answers for every id that has an entry.                      *)
Answers == [id \in IdsOf(database) |-> Get(database, id)]

(* insert, update, delete and get together are a store with one entry per  *)
(* id: get never returns an entry that was replaced, and an entry that was *)
(* deleted does not leave an older one of the same id behind.              *)
Store == INSTANCE KeyedStore WITH Entries <- Messages, store <- Answers
OneEntryPerId == Store!Spec

(* An entry keeps its place when it is replaced, so get_range(-k) returns  *)
(* the entries of the k ids that came last, each once and with the text it *)
(* has now: what a new server is sent.                                     *)
RecentAreLatest ==
    \A k \in 1..(Len(inserted) + 1) :
        LET recent == Recent(database, k)
            n      == Len(inserted)
        IN  /\ Len(recent) = IF n > k THEN k ELSE n
            /\ \A i \in DOMAIN recent :
                  recent[i] = Get(database, inserted[n - Len(recent) + i])

=============================================================================
