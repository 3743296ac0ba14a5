--------------------------- MODULE FifoBroadcast ----------------------------
(***************************************************************************)
(* What the reliable multicast promises to its users when every sender     *)
(* waits for its own message before it sends the next.  A server never     *)
(* delivers a message twice.  As long as it has not taken the sender off   *)
(* its ring, nor the sender itself, it delivers the messages of the sender *)
(* in the order in which they were multicast and, if servers go on, leaves *)
(* none out.                                                               *)
(***************************************************************************)
EXTENDS Integers, Sequences, FiniteSets

CONSTANTS
    Servers,
    Items

VARIABLES
    issued,     \* the items each server has multicast, in order
    delivered,  \* the deliveries of each server, in order: [from, item]
    doubted     \* <<n, s>> when n has taken s off its ring

vars == <<issued, delivered, doubted>>

\* How many messages of s were delivered at n.
Count(n, s) == Cardinality({i \in DOMAIN delivered[n] : delivered[n][i].from = s})

Trusted(n, s) == <<n, s>> \notin doubted /\ <<s, s>> \notin doubted

Init ==
    /\ issued = [s \in Servers |-> <<>>]
    /\ delivered = [n \in Servers |-> <<>>]
    /\ doubted = {}

Multicast(s, item) ==
    /\ issued' = [issued EXCEPT ![s] = Append(@, item)]
    /\ UNCHANGED <<delivered, doubted>>

Deliver(n, s) ==
    LET next == Count(n, s) + 1
    IN  /\ Trusted(n, s)
        /\ next <= Len(issued[s])
        /\ delivered' = [delivered EXCEPT ![n] = Append(@, [from |-> s, item |-> issued[s][next]])]
        /\ UNCHANGED <<issued, doubted>>

\* Out of order, with others left out, but still no message twice.
DeliverAny(n, s) ==
    /\ ~Trusted(n, s)
    /\ \E k \in DOMAIN issued[s] :
          LET entry == [from |-> s, item |-> issued[s][k]]
          IN  /\ \A i \in DOMAIN delivered[n] : delivered[n][i] # entry
              /\ delivered' = [delivered EXCEPT ![n] = Append(@, entry)]
    /\ UNCHANGED <<issued, doubted>>

Doubt(n, s) ==
    /\ doubted' = doubted \cup {<<n, s>>}
    /\ UNCHANGED <<issued, delivered>>

Next ==
    \E s \in Servers :
       \/ \E item \in Items : Multicast(s, item)
       \/ \E n \in Servers : Deliver(n, s) \/ DeliverAny(n, s) \/ Doubt(n, s)

Spec     == Init /\ [][Next]_vars
FairSpec == Spec /\ \A n, s \in Servers : WF_vars(Deliver(n, s))

=============================================================================
