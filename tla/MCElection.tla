----------------------------- MODULE MCElection -----------------------------
(***************************************************************************)
(* Scenarios for model checking Election.                                  *)
(***************************************************************************)
EXTENDS Election

\* The state a ring of the founders reaches when elections are over.
SettledInit ==
    /\ up = Founders
    /\ members = [n \in Servers |-> IF n \in Founders THEN Founders ELSE {}]
    /\ participant = [n \in Servers |-> FALSE]
    /\ isLeader = [n \in Servers |-> n \in Founders /\ n = Highest(Founders)]
    /\ elected_leader =
          [n \in Servers |-> IF n \in Founders THEN Highest(Founders) ELSE NoAddress]
    /\ main = [n \in Servers |-> IF n \in Founders THEN "done" ELSE "off"]
    /\ watch = [n \in Servers |-> "idle"]
    /\ handler = [n \in Servers |-> Idle]
    /\ net = [m \in Messages |-> 0]
    /\ le = [a \in Addresses |-> 0]
    /\ leader_id = Highest(Founders)
    /\ lost = 0
    /\ claimants = {}

\* No election is under way, every view is complete and no participant mark
\* is left over.
AtRest ==
    /\ \A m \in Messages : ~InTransit(m)
    /\ \A a \in Addresses : le[a] = 0
    /\ \A n \in up : /\ main[n] = "done" /\ watch[n] = "idle" /\ handler[n] = Idle
                     /\ members[n] = up
                     /\ ~participant[n]

\* Servers crash and join one at a time, the ring coming to rest in between.
OneAtATime == up' # up => AtRest

SettledSpec == SettledInit /\ [][Next /\ OneAtATime]_vars /\ Fairness

\* Servers crash and join at any moment.
FailoverSpec == SettledInit /\ [][Next]_vars

=============================================================================
