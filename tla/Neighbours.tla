----------------------------- MODULE Neighbours -----------------------------
(***************************************************************************)
(* The logical ring: servers ordered by the binary value of their IP       *)
(* address (Ring._form_ring, ring.py:15-18) and the two neighbours of a    *)
(* server on it (Ring.get_neighbour, ring.py:52-70).  An address is its    *)
(* 32-bit value, a natural number, which is what inet_aton and             *)
(* compare_adresses order addresses by.                                    *)
(*                                                                         *)
(* Here a ring is the SET of addresses on it: the "left" neighbour is the  *)
(* next higher address, the lowest one for the highest; the "right"        *)
(* neighbour is the next lower address, the highest one for the lowest.    *)
(***************************************************************************)
EXTENDS Naturals

\* get_neighbour returns None when the server's own address is not on the
\* ring.  0 is no server's address.
NoAddress == 0

Lowest(S)  == CHOOSE m \in S : \A k \in S : m <= k
Highest(S) == CHOOSE m \in S : \A k \in S : k <= m

Above(S, n) == {m \in S : m > n}
Below(S, n) == {m \in S : m < n}

\* get_neighbour(direction="left"), the successor that SE messages go to.
LeftNeighbour(S, n) ==
    IF n \notin S THEN NoAddress
    ELSE Lowest(IF Above(S, n) # {} THEN Above(S, n) ELSE S)

\* get_neighbour(direction="right"), the predecessor whose heartbeat is watched.
RightNeighbour(S, n) ==
    IF n \notin S THEN NoAddress
    ELSE Highest(IF Below(S, n) # {} THEN Below(S, n) ELSE S)

=============================================================================
