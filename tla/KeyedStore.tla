----------------------------- MODULE KeyedStore -----------------------------
(***************************************************************************)
(* What the quote database promises: at most one entry per id, the last    *)
(* one that was inserted with it.  The store is a function from the ids    *)
(* that have an entry to their entries.                                    *)
(***************************************************************************)
CONSTANT Entries    \* records with a field id

VARIABLES
    store,
    call            \* the operation and the entry of the last call

vars == <<store, call>>

Without(id)     == [k \in DOMAIN store \ {id} |-> store[k]]
With(id, entry) == [k \in DOMAIN store \cup {id} |-> IF k = id THEN entry ELSE store[k]]

Init ==
    /\ store = [k \in {} |-> k]
    /\ call = <<>>

Put(entry) ==
    /\ call' = <<"insert", entry>>
    /\ store' = With(entry.id, entry)

\* An id without an entry gets none.
Change(entry) ==
    /\ call' = <<"update", entry>>
    /\ store' = IF entry.id \in DOMAIN store THEN With(entry.id, entry) ELSE store

\* An entry is only removed by an entry that equals it.
Remove(entry) ==
    /\ call' = <<"delete", entry>>
    /\ store' = IF entry.id \in DOMAIN store /\ store[entry.id] = entry
                THEN Without(entry.id) ELSE store

Next == \E entry \in Entries : Put(entry) \/ Change(entry) \/ Remove(entry)

Spec == Init /\ [][Next]_vars

=============================================================================
