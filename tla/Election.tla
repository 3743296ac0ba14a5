------------------------------ MODULE Election ------------------------------
(***************************************************************************)
(* Leader election among the backend servers (components/election.py), a   *)
(* Chang-Roberts ring election, with everything that touches its state:    *)
(* the main thread of a server (run.py) that announces the server, starts  *)
(* an election and waits at most a second for its outcome; the discovery   *)
(* thread that handles SA, RP, SE and FF datagrams; the watch thread that  *)
(* restarts the election when the leader is gone; and the frontend server  *)
(* that is told of leaders with LE datagrams.                              *)
(*                                                                         *)
(* Every server has its own view members[n] of the ring and sends to the   *)
(* left neighbour in that view.  Datagrams are unordered and may be lost,  *)
(* at most MaxLost of them.  Time is not modelled: heartbeats are replaced *)
(* by a watch thread that notices a crashed right neighbour at any later   *)
(* moment, and a one-second wait of a server in Hasty may end at any time, *)
(* of any other server when no datagram it waits for is on its way: what   *)
(* is lost does not keep it waiting.                                       *)
(***************************************************************************)
EXTENDS Neighbours

CONSTANTS
    Servers,    \* addresses of the backend servers
    Founders,   \* the servers that are up, and know each other, at the start
    Hasty,      \* the servers whose one-second waits may be too short
    Mortal,     \* the servers that may crash
    Losable,    \* the types of datagrams of which some may be lost
    MaxLost     \* bound on the number of datagrams lost

ASSUME ServersAssumption  == Servers \subseteq Nat \ {NoAddress}
ASSUME FoundersAssumption == Founders \subseteq Servers
ASSUME MaxLostAssumption  == MaxLost \in Nat

VARIABLES
    up,              \* the servers that run
    members,         \* Ring.members of each server
    participant,     \* Election.participant
    isLeader,        \* Election.isLeader
    elected_leader,  \* Election.elected_leader, NoAddress for ""
    main,            \* where the main thread is
    watch,           \* where the watch thread that restarts an election is
    handler,         \* where the discovery thread is in an SE message, and its id
    net,             \* datagrams between servers: how many copies of each
    le,              \* LE datagrams to the frontend: how many per address named
    leader_id,       \* the leader the frontend hands to clients
    lost,            \* number of datagrams lost
    claimants        \* history: the servers that made themselves leader on a timeout

local == <<participant, isLeader, elected_leader>>
threads == <<main, watch, handler>>
frontend == <<le, leader_id>>
vars == <<up, members, local, threads, net, frontend, lost, claimants>>

-----------------------------------------------------------------------------
Addresses == Servers \cup {NoAddress}

SE(to, id, elected) == [type |-> "SE", to |-> to, id |-> id, elected |-> elected]
SA(to, id)          == [type |-> "SA", to |-> to, id |-> id]
RP(to, id)          == [type |-> "RP", to |-> to, id |-> id]
FF(to, id, from)    == [type |-> "FF", to |-> to, id |-> id, from |-> from]

ElectionMessages == [type : {"SE"}, to : Servers, id : Servers, elected : BOOLEAN]
RingMessages     == [type : {"SA", "RP"}, to : Servers, id : Servers]
FailureMessages  == [type : {"FF"}, to : Servers, id : Servers, from : Servers]
Messages         == ElectionMessages \cup RingMessages \cup FailureMessages

InTransit(m) == net[m] > 0

\* A datagram to a server that is not up is gone.
Sent(b, msgs) == [m \in Messages |-> IF m \in msgs /\ m.to \in up THEN b[m] + 1 ELSE b[m]]
Taken(b, m)   == [b EXCEPT ![m] = @ - 1]

Send(msgs)             == net' = Sent(net, msgs)
Receive(m)             == InTransit(m) /\ net' = Taken(net, m)
ReceiveAndSend(m, msgs) == InTransit(m) /\ net' = Sent(Taken(net, m), msgs)

Others(n) == up \ {n}
Left(n)   == LeftNeighbour(members[n], n)

\* send_election_to_frontend, with the leader as recorded at that moment
NotifyFrontend(leader) == le' = [le EXCEPT ![leader] = @ + 1]

Idle == [pc |-> "idle", id |-> NoAddress]

Init ==
    /\ up = Founders
    /\ members = [n \in Servers |-> IF n \in Founders THEN Founders ELSE {}]
    /\ participant = [n \in Servers |-> FALSE]
    /\ isLeader = [n \in Servers |-> FALSE]
    /\ elected_leader = [n \in Servers |-> NoAddress]
    /\ main = [n \in Servers |-> IF n \in Founders THEN "start" ELSE "off"]
    /\ watch = [n \in Servers |-> "idle"]
    /\ handler = [n \in Servers |-> Idle]
    /\ net = [m \in Messages |-> 0]
    /\ le = [a \in Addresses |-> 0]
    /\ leader_id = NoAddress
    /\ lost = 0
    /\ claimants = {}

-----------------------------------------------------------------------------
(* The main thread.                                                        *)

\* The ring holds the server itself, the discovery thread listens, then the
\* server announces itself to every server that is up.
Boot(n) ==
    /\ main[n] = "off"
    /\ up' = up \cup {n}
    /\ members' = [members EXCEPT ![n] = {n}]
    /\ main' = [main EXCEPT ![n] = "start"]
    /\ Send({SA(p, n) : p \in Others(n)})
    /\ UNCHANGED <<local, watch, handler, frontend, lost, claimants>>

\* The second of sleep after a service announcement: no announcement of n and
\* no reply to one is still on its way.
Announced(n) == \A p \in Servers : ~InTransit(SA(p, n)) /\ ~InTransit(RP(n, p))

\* announce_service has slept a second.
Introduced(n) == n \in Hasty \/ Announced(n)

StartElection(n) ==
    /\ main[n] = "start"
    /\ Introduced(n)
    /\ participant' = [participant EXCEPT ![n] = TRUE]
    /\ main' = [main EXCEPT ![n] = "send"]
    /\ UNCHANGED <<up, members, isLeader, elected_leader, watch, handler, net,
                   frontend, lost, claimants>>

SendCandidacy(n) ==
    /\ main[n] = "send"
    /\ Send({SE(Left(n), n, isLeader[n])})
    /\ main' = [main EXCEPT ![n] = "wait"]
    /\ UNCHANGED <<up, members, local, watch, handler, frontend, lost, claimants>>

StopWaiting(n) ==
    /\ main[n] = "wait"
    /\ elected_leader[n] # NoAddress
    /\ main' = [main EXCEPT ![n] = "done"]
    /\ UNCHANGED <<up, members, local, watch, handler, net, frontend, lost, claimants>>

\* A second is over without an answer.  A server that is not hasty would have
\* got any answer that is on its way.
Unanswered(n) ==
    \/ n \in Hasty
    \/ /\ \A m \in ElectionMessages : InTransit(m) => m.id \notin up
       /\ \A p \in up : handler[p] = Idle /\ main[p] # "send" /\ watch[p] # "send"

\* The test of elected_leader and the assignment are two steps: the discovery
\* thread may record a leader in between.
TimeOut(n) ==
    /\ main[n] = "wait"
    /\ elected_leader[n] = NoAddress
    /\ Unanswered(n)
    /\ main' = [main EXCEPT ![n] = "claim"]
    /\ UNCHANGED <<up, members, local, watch, handler, net, frontend, lost, claimants>>

ClaimElected(n) ==
    /\ main[n] = "claim"
    /\ elected_leader' = [elected_leader EXCEPT ![n] = n]
    /\ main' = [main EXCEPT ![n] = "lead"]
    /\ claimants' = claimants \cup {n}
    /\ UNCHANGED <<up, members, participant, isLeader, watch, handler, net,
                   frontend, lost>>

ClaimLeadership(n) ==
    /\ main[n] = "lead"
    /\ isLeader' = [isLeader EXCEPT ![n] = TRUE]
    /\ main' = [main EXCEPT ![n] = "report"]
    /\ UNCHANGED <<up, members, participant, elected_leader, watch, handler, net,
                   frontend, lost, claimants>>

ReportClaim(n) ==
    /\ main[n] = "report"
    /\ NotifyFrontend(elected_leader[n])
    /\ main' = [main EXCEPT ![n] = "done"]
    /\ UNCHANGED <<up, members, local, watch, handler, net, leader_id, lost, claimants>>

Main(n) ==
    \/ StartElection(n) \/ SendCandidacy(n) \/ StopWaiting(n)
    \/ TimeOut(n) \/ ClaimElected(n) \/ ClaimLeadership(n) \/ ReportClaim(n)

-----------------------------------------------------------------------------
(* The discovery thread: one datagram after the other.  A branch of        *)
(* forward_election_message whose assignments another thread can see half  *)
(* done is one action per assignment.                                      *)

\* 4.1 A larger id goes on to the next member.
ForwardCandidate(n, id) ==
    /\ id > n
    /\ ReceiveAndSend(SE(n, id, FALSE), {SE(Left(n), id, FALSE)})
    /\ participant' = [participant EXCEPT ![n] = TRUE]
    /\ UNCHANGED <<up, members, isLeader, elected_leader, threads, frontend, lost, claimants>>

\* 4.2 A smaller id is replaced by the server's own.
ReplaceCandidate(n, id) ==
    /\ id < n
    /\ ~participant[n]
    /\ ReceiveAndSend(SE(n, id, FALSE), {SE(Left(n), n, FALSE)})
    /\ participant' = [participant EXCEPT ![n] = TRUE]
    /\ UNCHANGED <<up, members, isLeader, elected_leader, threads, frontend, lost, claimants>>

\* Mutant of DiscardCandidate: the smaller id goes on.
PassOnCandidate(n, id) ==
    /\ id < n
    /\ participant[n]
    /\ ReceiveAndSend(SE(n, id, FALSE), {SE(Left(n), id, FALSE)})
    /\ UNCHANGED <<up, members, local, threads, frontend, lost, claimants>>

\* 4.3 A smaller id ends at a participant.
DiscardCandidate(n, id) ==
    /\ id < n
    /\ participant[n]
    /\ Receive(SE(n, id, FALSE))
    /\ UNCHANGED <<up, members, local, threads, frontend, lost, claimants>>

\* 4.4 The server's own id came back: it is the leader.
WinElection(n) ==
    /\ Receive(SE(n, n, FALSE))
    /\ participant' = [participant EXCEPT ![n] = FALSE]
    /\ handler' = [handler EXCEPT ![n] = [pc |-> "winning", id |-> n]]
    /\ UNCHANGED <<up, members, isLeader, elected_leader, main, watch, frontend, lost, claimants>>

\* Mutant of BecomeLeader: the flag is not set.
SkipBecomingLeader(n) ==
    /\ handler[n].pc = "winning"
    /\ handler' = [handler EXCEPT ![n].pc = "won"]
    /\ UNCHANGED <<up, members, local, main, watch, net, frontend, lost, claimants>>

BecomeLeader(n) ==
    /\ handler[n].pc = "winning"
    /\ isLeader' = [isLeader EXCEPT ![n] = TRUE]
    /\ handler' = [handler EXCEPT ![n].pc = "won"]
    /\ UNCHANGED <<up, members, participant, elected_leader, main, watch, net,
                   frontend, lost, claimants>>

AnnounceVictory(n) ==
    /\ handler[n].pc = "won"
    /\ elected_leader' = [elected_leader EXCEPT ![n] = n]
    /\ Send({SE(Left(n), n, TRUE)})
    /\ NotifyFrontend(n)
    /\ handler' = [handler EXCEPT ![n] = Idle]
    /\ UNCHANGED <<up, members, participant, isLeader, main, watch, leader_id, lost, claimants>>

\* The test "sender_id is self.current_member_ip" compares the identity of two
\* strings, one cut out of the datagram: it is never true, so a server treats
\* an elected message with its own id like any other.
AdoptLeader(n, id) ==
    /\ participant[n]
    /\ Receive(SE(n, id, TRUE))
    /\ participant' = [participant EXCEPT ![n] = FALSE]
    /\ handler' = [handler EXCEPT ![n] = [pc |-> "adopting", id |-> id]]
    /\ UNCHANGED <<up, members, isLeader, elected_leader, main, watch, frontend, lost, claimants>>

StepDown(n) ==
    /\ handler[n].pc = "adopting"
    /\ isLeader' = [isLeader EXCEPT ![n] = FALSE]
    /\ handler' = [handler EXCEPT ![n].pc = "adopted"]
    /\ UNCHANGED <<up, members, participant, elected_leader, main, watch, net,
                   frontend, lost, claimants>>

\* Mutant of RecordLeader: the elected message is not passed on.
RecordLeaderSilently(n) ==
    /\ handler[n].pc = "adopted"
    /\ elected_leader' = [elected_leader EXCEPT ![n] = handler[n].id]
    /\ handler' = [handler EXCEPT ![n] = Idle]
    /\ UNCHANGED <<up, members, participant, isLeader, main, watch, net, frontend,
                   lost, claimants>>

RecordLeader(n) ==
    /\ handler[n].pc = "adopted"
    /\ elected_leader' = [elected_leader EXCEPT ![n] = handler[n].id]
    /\ Send({SE(Left(n), handler[n].id, TRUE)})
    /\ handler' = [handler EXCEPT ![n] = Idle]
    /\ UNCHANGED <<up, members, participant, isLeader, main, watch, frontend, lost, claimants>>

\* An elected message ends at a server that does not participate, which tells
\* the frontend of the leader it has on record, not of the one in the message.
EndElection(n, id) ==
    /\ ~participant[n]
    /\ Receive(SE(n, id, TRUE))
    /\ NotifyFrontend(elected_leader[n])
    /\ UNCHANGED <<up, members, local, threads, leader_id, lost, claimants>>

HandleAnnouncement(n, id) ==
    /\ ReceiveAndSend(SA(n, id), {RP(id, n)})
    /\ members' = [members EXCEPT ![n] = @ \cup {id}]
    /\ UNCHANGED <<up, local, threads, frontend, lost, claimants>>

HandleReply(n, id) ==
    /\ Receive(RP(n, id))
    /\ members' = [members EXCEPT ![n] = @ \cup {id}]
    /\ UNCHANGED <<up, local, threads, frontend, lost, claimants>>

HandleFailure(n, id) ==
    /\ \E from \in Servers : Receive(FF(n, id, from))
    /\ members' = IF id # n THEN [members EXCEPT ![n] = @ \ {id}] ELSE members
    /\ UNCHANGED <<up, local, threads, frontend, lost, claimants>>

HandleDatagram(n, id) ==
    /\ handler[n] = Idle
    /\ \/ ForwardCandidate(n, id) \/ ReplaceCandidate(n, id) \/ DiscardCandidate(n, id)
       \/ AdoptLeader(n, id) \/ EndElection(n, id)
       \/ id = n /\ WinElection(n)
       \/ HandleAnnouncement(n, id) \/ HandleReply(n, id) \/ HandleFailure(n, id)

FinishHandler(n) ==
    BecomeLeader(n) \/ AnnounceVictory(n) \/ StepDown(n) \/ RecordLeader(n)

-----------------------------------------------------------------------------
(* The watch thread.  Its wait for an answer ends at once, because the     *)
(* server has a leader on record already.                                  *)

\* Mutant of NoticeCrash: the election is not restarted.
RemoveCrashed(n) ==
    LET failed == RightNeighbour(members[n], n)
    IN  /\ n \in up
        /\ watch[n] = "idle"
        /\ failed \in Servers \ up
        /\ members' = [members EXCEPT ![n] = @ \ {failed}]
        /\ Send({FF(p, failed, n) : p \in Others(n)})
        /\ UNCHANGED <<up, local, threads, frontend, lost, claimants>>

NoticeCrash(n) ==
    LET failed == RightNeighbour(members[n], n)
        restart == failed = elected_leader[n]
    IN  /\ n \in up
        /\ watch[n] = "idle"
        /\ failed \in Servers \ up
        /\ members' = [members EXCEPT ![n] = @ \ {failed}]
        /\ Send({FF(p, failed, n) : p \in Others(n)}
                  \cup {SA(p, n) : p \in {q \in Others(n) : restart}})
        /\ watch' = IF restart THEN [watch EXCEPT ![n] = "start"] ELSE watch
        /\ UNCHANGED <<up, local, main, handler, frontend, lost, claimants>>

\* The second of sleep in which n's FF and SA datagrams reach the others.
Heard(n) ==
    \/ n \in Hasty
    \/ Announced(n) /\ \A p, id \in Servers : ~InTransit(FF(p, id, n))

RestartElection(n) ==
    /\ watch[n] = "start"
    /\ Heard(n)
    /\ participant' = [participant EXCEPT ![n] = TRUE]
    /\ watch' = [watch EXCEPT ![n] = "send"]
    /\ UNCHANGED <<up, members, isLeader, elected_leader, main, handler, net,
                   frontend, lost, claimants>>

ResendCandidacy(n) ==
    /\ watch[n] = "send"
    /\ Send({SE(Left(n), n, isLeader[n])})
    /\ watch' = [watch EXCEPT ![n] = "idle"]
    /\ UNCHANGED <<up, members, local, main, handler, frontend, lost, claimants>>

Watch(n) == NoticeCrash(n) \/ RestartElection(n) \/ ResendCandidacy(n)

-----------------------------------------------------------------------------
(* The frontend, and what goes wrong.                                      *)

HandleLeader(a) ==
    /\ le[a] > 0
    /\ le' = [le EXCEPT ![a] = @ - 1]
    /\ leader_id' = a
    /\ UNCHANGED <<up, members, local, threads, net, lost, claimants>>

Crash(n) ==
    /\ n \in Mortal \cap up
    /\ up' = up \ {n}
    /\ members' = [members EXCEPT ![n] = {}]
    /\ participant' = [participant EXCEPT ![n] = FALSE]
    /\ isLeader' = [isLeader EXCEPT ![n] = FALSE]
    /\ elected_leader' = [elected_leader EXCEPT ![n] = NoAddress]
    /\ main' = [main EXCEPT ![n] = "crashed"]
    /\ watch' = [watch EXCEPT ![n] = "idle"]
    /\ handler' = [handler EXCEPT ![n] = Idle]
    /\ net' = [m \in Messages |-> IF m.to = n THEN 0 ELSE net[m]]
    /\ UNCHANGED <<frontend, lost, claimants>>

Lose(m) ==
    /\ m.type \in Losable /\ lost < MaxLost
    /\ Receive(m)
    /\ lost' = lost + 1
    /\ UNCHANGED <<up, members, local, threads, frontend, claimants>>

Next ==
    \/ \E n \in Servers : Boot(n) \/ Main(n) \/ FinishHandler(n) \/ Watch(n) \/ Crash(n)
    \/ \E n, id \in Servers : HandleDatagram(n, id)
    \/ \E a \in Addresses : HandleLeader(a)
    \/ \E m \in Messages : Lose(m)

\* Threads are scheduled and datagrams that are not lost arrive.  A server need
\* not boot, nor a hasty one time out.
Fairness ==
    /\ \A n \in Servers : WF_vars(Main(n)) /\ WF_vars(FinishHandler(n)) /\ WF_vars(Watch(n))
    /\ \A n, id \in Servers : WF_vars(HandleDatagram(n, id))
    /\ \A a \in Addresses : WF_vars(HandleLeader(a))

Spec == Init /\ [][Next]_vars
FairSpec == Spec /\ Fairness

-----------------------------------------------------------------------------
MainStates    == {"off", "start", "send", "wait", "claim", "lead", "report", "done", "crashed"}
WatchStates   == {"idle", "start", "send"}
HandlerStates == [pc : {"idle", "winning", "won", "adopting", "adopted"}, id : Addresses]

(* Every variable has values of its type.                                  *)
TypeOK ==
    /\ up \in SUBSET Servers
    /\ members \in [Servers -> SUBSET Servers]
    /\ participant \in [Servers -> BOOLEAN]
    /\ isLeader \in [Servers -> BOOLEAN]
    /\ elected_leader \in [Servers -> Addresses]
    /\ main \in [Servers -> MainStates]
    /\ watch \in [Servers -> WatchStates]
    /\ handler \in [Servers -> HandlerStates]
    /\ net \in [Messages -> Nat]
    /\ le \in [Addresses -> Nat]
    /\ leader_id \in Addresses
    /\ lost \in Nat
    /\ claimants \in SUBSET Servers

Outranks(id) == \A y \in Founders \cap up : y <= id

(* No server leads, and none is on record as the leader, while a founder   *)
(* with a higher address is up, unless it made itself leader because its   *)
(* wait timed out: elections started by anyone, at any time, several at    *)
(* once, with datagrams lost and servers crashing in the middle, are only  *)
(* ever won by the highest address (comments 4.1 to 4.4 of                 *)
(* forward_election_message).                                              *)
ElectedOutranksFounders ==
    \A n \in up :
        /\ isLeader[n] => Outranks(n) \/ n \in claimants
        /\ elected_leader[n] # NoAddress =>
              Outranks(elected_leader[n]) \/ elected_leader[n] \in claimants

(* All servers have the highest address on record, and the frontend sends  *)
(* the clients there.                                                      *)
Agreement == up # {} =>
    /\ \A n \in up : elected_leader[n] = Highest(up)
    /\ leader_id = Highest(up)

(* Elections end, in agreement.                                            *)
EventuallyAgreement == <>[]Agreement

(* In the end the server with the highest address takes itself for the     *)
(* leader, so that it serves the clients (ContentProvider.work_func), and  *)
(* no other does.                                                          *)
EventuallyLed == <>[](\A n \in up : isLeader[n] <=> n = Highest(up))

(* "Message came back to sender. Election is over." (election.py:104): a   *)
(* leader does not give up the lead on the elected message with its own    *)
(* address.                                                                *)
ElectionOverAtSender ==
    [][\A n \in up : isLeader[n] /\ handler[n] = [pc |-> "adopting", id |-> n]
                        => isLeader'[n]]_vars

(* "Already participant of an election. Discard message."                  *)
(* (election.py:82): a server discards a candidate only while an election  *)
(* is under way in which another message will be sent or is on the ring.   *)
DiscardedForAnElection ==
    [][\A n, id \in Servers :
          handler[n] = Idle /\ DiscardCandidate(n, id) =>
              \/ \E m \in ElectionMessages : net'[m] > 0
              \/ \E p \in up : handler[p] # Idle \/ main[p] \in {"start", "send"}]_vars

(* An LE message carries the "IP address of current leader" (README.md:127) *)
(* and not the empty string.                                               *)
LENamesALeader == le[NoAddress] = 0

-----------------------------------------------------------------------------
(* Why ElectedOutranksFounders holds when no server joins.                 *)

Deserving(id) == Outranks(id) \/ id \in claimants

\* A server that is down has no thread.
DownIsSilent ==
    \A n \in Servers \ up : /\ main[n] \in {"off", "crashed"}
                            /\ watch[n] = "idle"
                            /\ handler[n] = Idle
                            /\ ~isLeader[n]
                            /\ elected_leader[n] = NoAddress

\* Every view of the ring holds every server that is up.
ViewsAreComplete ==
    /\ \A n \in Servers : main[n] # "off"
    /\ \A n \in up : up \subseteq members[n]

\* Datagrams go to servers that are up and report servers that are not; a
\* candidate that went past the highest address on the ring, where the next
\* server is a lower one, outranks everyone; only who deserves it is announced
\* as the leader.
DatagramsAreTrue ==
    /\ \A m \in Messages : InTransit(m) => m.to \in up
    /\ \A n, id \in Servers :
          /\ \A from \in Servers : InTransit(FF(n, id, from)) => id \notin up
          /\ InTransit(SE(n, id, FALSE)) => n > id \/ Outranks(id)
          /\ InTransit(SE(n, id, TRUE)) => Deserving(id)

WinnersDeserveIt ==
    \A n \in Servers :
        /\ handler[n].pc \in {"winning", "won"} => Outranks(n)
        /\ handler[n].pc \in {"adopting", "adopted"} =>
              handler[n].id \in Servers /\ Deserving(handler[n].id)
        /\ main[n] = "lead" => n \in claimants
        /\ isLeader[n] => Deserving(n)
        /\ elected_leader[n] # NoAddress => Deserving(elected_leader[n])

(* The inductive invariant: a ring without joins has complete views, on a  *)
(* complete view a candidate passes the highest address only if it is the  *)
(* highest, and only such a candidate, or a server whose wait timed out,   *)
(* is announced and recorded.                                              *)
IInv == TypeOK /\ DownIsSilent /\ ViewsAreComplete /\ DatagramsAreTrue /\ WinnersDeserveIt

=============================================================================
