---------------------------- MODULE MCReplication ---------------------------
(***************************************************************************)
(* Scenarios for model checking Replication.                               *)
(***************************************************************************)
EXTENDS Replication, TLC

CONSTANTS
    FirstLeader,    \* the leader of the servers that are up at the start
    Ids             \* the ids of the quotes to publish

OneServer  == (1 :> <<1>>)
TwoServers == (1 :> <<1, 2>>) @@ (2 :> <<2, 1>>)
ThreeServers == (1 :> <<1, 2, 3>>) @@ (2 :> <<2, 1, 3>>) @@ (3 :> <<3, 1, 2>>)

\* With one quote and one reply to it for every id, or without the replies.
AllQuotes        == [type : {"CO"}, id : Ids]
QuotesAndReplies == [type : {"CO", "CR"}, id : Ids]
IdSymmetry       == Permutations(Ids)

\* The first servers have introduced themselves to each other, to a leader that
\* had nothing to send them.
SettledInit ==
    LET founders == DOMAIN FirstMembers
        heard    == {[from |-> s, id |-> 0] : s \in founders}
        known    == [i \in DOMAIN FirstMembers[FirstLeader] |->
                        Introduction(FirstMembers[FirstLeader][i])]
    IN  /\ up = founders
        /\ members = [n \in Servers |-> IF n \in founders THEN FirstMembers[n] ELSE <<>>]
        /\ isLeader = [n \in Servers |-> n = FirstLeader]
        /\ asked = founders
        /\ calls = [n \in Servers |-> [t \in Threads |-> NoCall]]
        /\ message_id_counter = [n \in Servers |-> IF n \in founders THEN 1 ELSE 0]
        /\ my_timestamp = [n \in Servers |-> IF n \in founders THEN [s \in founders |-> 1]
                                                               ELSE [s \in {n} |-> 0]]
        /\ has_received = [n \in Servers |-> IF n \in founders THEN heard ELSE {}]
        /\ has_acknowledged = [n \in Servers |-> IF n \in founders THEN heard ELSE {}]
        /\ unack_messages = [n \in Servers |-> {}]
        /\ holdback_queue = [n \in Servers |-> <<>>]
        /\ receiver = [n \in Servers |-> Listening]
        /\ database = [n \in Servers |-> IF n \in founders \ {FirstLeader} THEN known ELSE <<>>]
        /\ shown = [n \in Servers |-> {}]
        /\ net = {}
        /\ lost = 0
        /\ copied = 0
        /\ issued = [n \in Servers |-> <<>>]
        /\ delivered = [n \in Servers |-> <<>>]
        /\ past = [item \in Items |-> {}]
        /\ doubted = {}

SettledSpec == SettledInit /\ [][Next]_vars /\ Fairness

\* The loop of a multicast is over before the server delivers its own copy.
Steady == \A n \in Servers, t \in Threads :
    calls[n][t].pc = "send" => my_timestamp'[n][n] = my_timestamp[n][n]

DeliveredOwn(n) == {i \in DOMAIN delivered[n] : delivered[n][i].from = n}

\* A server starts a multicast when it has delivered its own last one.
Paced == \A n \in Servers :
    issued'[n] # issued[n] =>
        /\ \A t \in Threads : calls[n][t] = NoCall
        /\ Cardinality(DeliveredOwn(n)) = Len(issued[n])

\* A server starts, and a multicast starts, when no message is under way.
OneAtATime == issued' # issued \/ ~(up' \subseteq up) =>
    /\ net = {}
    /\ \A n \in up : /\ receiver[n].pc \in {"listen", "dead"}
                     /\ \A t \in Threads : calls[n][t] = NoCall

\* No more than two things go wrong, and while a ring is or was wrong nothing is
\* lost or doubled.
TwoFaults ==
    /\ lost + copied + Cardinality(Servers \ up) + Cardinality(doubted) <= 2
    /\ doubted = {} \/ lost + copied = 0

FaultySpec == SettledInit /\ [][Next /\ Paced /\ TwoFaults']_vars /\ Fairness

SteadySpec == SettledInit /\ [][Next /\ Steady]_vars /\ Fairness
PacedSpec  == SettledInit /\ [][Next /\ Paced]_vars /\ Fairness
OrderlySpec == SettledInit /\ [][Next /\ Steady /\ Paced]_vars /\ Fairness

\* A server is started again before it multicasts anything but its introduction.
RestartFirst == \E n \in Servers : issued[n] = <<>> /\ Restart(n)
RestartSpec  ==
    SettledInit /\ [][(Next \/ RestartFirst) /\ Steady /\ OneAtATime]_vars /\ Fairness

NewcomerSpec == SettledInit /\ [][Next /\ Steady /\ OneAtATime]_vars /\ Fairness

\* The ids are numbers, the quotes are published in their order: it does not
\* matter which quote is the first.
InOrder ==
    \A n \in Servers : \A item \in Elements(issued'[n]) \ Elements(issued[n]) :
        item.type = "CO" => \A id \in Ids : id < item.id =>
            \E s \in Servers : [type |-> "CO", id |-> id] \in Elements(issued[s])

JoinSpec == SettledInit /\ [][Next /\ Steady /\ OneAtATime /\ InOrder]_vars /\ Fairness

Fifo == INSTANCE FifoBroadcast
FifoSafety   == Fifo!Spec
FifoDelivery == Fifo!FairSpec

=============================================================================
