----------------------------- MODULE Heartbeat ------------------------------
(***************************************************************************)
(* Failure detection on the ring (components/heartbeat.py), what it does   *)
(* to the ring (components/ring.py), and the elections that follow.  The   *)
(* leader sends a heartbeat to its left neighbour every Interval seconds;  *)
(* every server passes it on to the left; one that hears nothing for       *)
(* Timeout seconds takes its right neighbour for failed.  The discovery    *)
(* thread of a server and its watch threads change the same two lists,     *)
(* Ring.members and Ring.sorted_ring, step by step.                        *)
(*                                                                         *)
(* The clock ticks in seconds.  A datagram arrives, and a thread that has  *)
(* something to do gets it done, within a second, and the discovery thread *)
(* makes at least one turn of its loop in each.  A heartbeat that no       *)
(* leader takes goes round the ring, here once a second.  The handler of   *)
(* an election message is one step here; module Election has its steps,    *)
(* the main thread and the frontend, but no time.                          *)
(***************************************************************************)
EXTENDS Neighbours, FiniteSets

CONSTANTS
    Servers,    \* addresses of the servers, all on the ring at the start
    Mortal,     \* the servers that may crash
    MaxCrashes, \* bound on the number of crashes
    Watchers,   \* bound on the watch threads of a server that found it late at a time
    Discovery,  \* the discovery thread, which also changes the ring
    Interval,   \* heartbeat_intervall, in seconds
    Timeout     \* heartbeat_timeout, in seconds

ASSUME ServersAssumption == /\ Servers \subseteq Nat \ {NoAddress}
                            /\ Servers # {} /\ IsFiniteSet(Servers)
ASSUME TimingAssumption  == Interval \in Nat /\ Timeout \in Nat
ASSUME ThreadsAssumption == Discovery \notin Watchers

VARIABLES
    up,           \* the servers that run
    participant, isLeader, elected_leader,  \* as in module Election
    members,      \* Ring.members, as a set
    sorted_ring,  \* Ring.sorted_ring: the list is the set in ascending order
    silence,      \* seconds since last_heartbeat_received, at most Timeout
    rest,         \* seconds since last_heartbeat_sent, at most Interval
    turned,       \* whether the discovery thread waits for a datagram
    thread,       \* where the threads of each server are
    net           \* datagrams in flight

election == <<participant, isLeader, elected_leader>>
ring == <<members, sorted_ring>>
time == <<silence, rest>>
vars == <<up, election, ring, time, turned, thread, net>>

-----------------------------------------------------------------------------
Threads == Watchers \cup {Discovery}

\* A thread that is busy with a host of the ring; new is the sorted list that
\* _form_ring has computed and not assigned yet.
Busy(pc, host, new) == [pc |-> pc, host |-> host, new |-> new]
Idle == Busy("idle", NoAddress, {})

\* via: the servers that passed a heartbeat on since the last tick of the clock.
Datagram(type, from, to, host) ==
    [type |-> type, from |-> from, to |-> to, host |-> host, via |-> {}]
Beat(from, to, via) == [Datagram("HB", from, to, NoAddress) EXCEPT !.via = via]
Types == {"HB", "FF", "SA", "RP", "SE", "elected"}
Datagrams == [type : Types, from : Servers, to : Servers,
              host : Servers \cup {NoAddress}, via : SUBSET Servers]

\* Mutant of Sent: an address of None is not noticed.
SentAnywhere(datagrams) == {m \in datagrams : m.to \in up \cup {NoAddress}}

\* A datagram to a server that is not up, or to None, is gone.
Sent(datagrams) == {m \in datagrams : m.to \in up}
\* A multicast comes back to its sender, too.
ToAll(type, n, host) == {Datagram(type, n, p, host) : p \in up}
ToLeft(type, n, host) ==
    Sent({Datagram(type, n, LeftNeighbour(sorted_ring[n], n), host)})
BeatLeft(n, via) == Sent({Beat(n, LeftNeighbour(sorted_ring[n], n), via)})

Enter(n, t, state) == thread' = [thread EXCEPT ![n][t] = state]

Init ==
    /\ up = Servers
    /\ participant = [n \in Servers |-> FALSE]
    /\ isLeader = [n \in Servers |-> n = Highest(Servers)]
    /\ elected_leader = [n \in Servers |-> Highest(Servers)]
    /\ members = [n \in Servers |-> Servers]
    /\ sorted_ring = [n \in Servers |-> Servers]
    /\ silence = [n \in Servers |-> 0]
    /\ rest = [n \in Servers |-> Interval]
    /\ turned = [n \in Servers |-> FALSE]
    /\ thread = [n \in Servers |-> [t \in Threads |-> Idle]]
    /\ net = {}

-----------------------------------------------------------------------------
(* The discovery thread: the end of a turn of its loop.  A leader sends a  *)
(* heartbeat when it is time, and a watch thread is started.  One that     *)
(* will do nothing is left out: a server that has heard something in time  *)
(* has done so until the clock ticks.                                      *)

SendHeartbeat(n) ==
    IF isLeader[n] /\ rest[n] >= Interval
    THEN net' = net \cup BeatLeft(n, {}) /\ rest' = [rest EXCEPT ![n] = 0]
    ELSE UNCHANGED <<net, rest>>

IdleWatchers(n) == {w \in Watchers : thread[n][w] = Idle}

StartWatching(n) ==
    IF silence[n] >= Timeout /\ IdleWatchers(n) # {}
    THEN \E w \in IdleWatchers(n) : Enter(n, w, Busy("check", NoAddress, {}))
    ELSE UNCHANGED thread

Turn(n) ==
    /\ n \in up
    /\ ~turned[n]
    /\ thread[n][Discovery] = Idle
    /\ SendHeartbeat(n)
    /\ StartWatching(n)
    /\ turned' = [turned EXCEPT ![n] = TRUE]
    /\ UNCHANGED <<up, election, ring, silence>>

-----------------------------------------------------------------------------
(* The discovery thread: datagrams.  Each of them resets the time of the   *)
(* last heartbeat when it has been handled.                                *)

Takes(n, m) == m \in net /\ m.to = n /\ thread[n][Discovery] = Idle

Heard(n) ==
    /\ silence' = [silence EXCEPT ![n] = 0]
    /\ turned' = [turned EXCEPT ![n] = FALSE]

\* Mutant of HandleHeartbeat: left and right are mixed up.
HandleHeartbeatFromLeft(n, m) ==
    LET forward == ~isLeader[n] /\ m.from = LeftNeighbour(sorted_ring[n], n)
    IN  /\ Takes(n, m)
        /\ m.type = "HB" /\ n \notin m.via
        /\ net' = (net \ {m}) \cup (IF forward THEN BeatLeft(n, m.via \cup {n}) ELSE {})
        /\ Heard(n)
        /\ UNCHANGED <<up, election, ring, rest, thread>>

\* A server that does not lead passes on what comes from its right neighbour.
HandleHeartbeat(n, m) ==
    LET forward == ~isLeader[n] /\ m.from = RightNeighbour(sorted_ring[n], n)
    IN  /\ Takes(n, m)
        /\ m.type = "HB" /\ n \notin m.via
        /\ net' = (net \ {m}) \cup (IF forward THEN BeatLeft(n, m.via \cup {n}) ELSE {})
        /\ Heard(n)
        /\ UNCHANGED <<up, election, ring, rest, thread>>

\* Nothing is removed: the host is gone already, or the server itself.
IgnoreFailure(n, m) ==
    /\ Takes(n, m)
    /\ m.type = "FF"
    /\ m.host = n \/ m.host \notin members[n]
    /\ net' = net \ {m}
    /\ Heard(n)
    /\ UNCHANGED <<up, election, ring, rest, thread>>

HandleFailure(n, m) ==
    /\ Takes(n, m)
    /\ m.type = "FF"
    /\ m.host # n /\ m.host \in members[n]
    /\ net' = net \ {m}
    /\ Enter(n, Discovery, Busy("remove", m.host, {}))
    /\ UNCHANGED <<up, election, ring, time, turned>>

\* The own announcement, which comes back.
IgnoreAnnouncement(n, m) ==
    /\ Takes(n, m)
    /\ m.type = "SA" /\ m.from = n
    /\ net' = net \ {m}
    /\ Heard(n)
    /\ UNCHANGED <<up, election, ring, rest, thread>>

\* add_host, and form_ring in any case.
HandleAnnouncement(n, m) ==
    /\ Takes(n, m)
    /\ m.type = "SA" /\ m.from # n
    /\ net' = net \ {m}
    /\ members' = [members EXCEPT ![n] = @ \cup {m.from}]
    /\ Enter(n, Discovery, Busy("form", m.from, members'[n]))
    /\ UNCHANGED <<up, election, sorted_ring, time, turned>>

HandleReply(n, m) ==
    /\ Takes(n, m)
    /\ m.type = "RP" /\ m.from \notin members[n]
    /\ net' = net \ {m}
    /\ members' = [members EXCEPT ![n] = @ \cup {m.from}]
    /\ Enter(n, Discovery, Busy("assign", NoAddress, members'[n]))
    /\ UNCHANGED <<up, election, sorted_ring, time, turned>>

IgnoreReply(n, m) ==
    /\ Takes(n, m)
    /\ m.type = "RP" /\ m.from \in members[n]
    /\ net' = net \ {m}
    /\ Heard(n)
    /\ UNCHANGED <<up, election, ring, rest, thread>>

\* forward_election_message, while a leader is to be found.
HandleCandidate(n, m) ==
    LET won == m.host = n
    IN  /\ Takes(n, m)
        /\ m.type = "SE"
        /\ participant' = [participant EXCEPT ![n] = ~won]
        /\ isLeader' = [isLeader EXCEPT ![n] = @ \/ won]
        /\ elected_leader' = [elected_leader EXCEPT ![n] = IF won THEN n ELSE @]
        /\ net' = (net \ {m}) \cup
              (IF won THEN ToLeft("elected", n, n)
               ELSE IF m.host > n THEN ToLeft("SE", n, m.host)
               ELSE IF participant[n] THEN {} ELSE ToLeft("SE", n, n))
        /\ Heard(n)
        /\ UNCHANGED <<up, ring, rest, thread>>

\* Mutant of HandleElected: a server that does not participate gives up the lead.
StepDownAlways(n, m) ==
    /\ Takes(n, m)
    /\ m.type = "elected"
    /\ participant' = [participant EXCEPT ![n] = FALSE]
    /\ isLeader' = [isLeader EXCEPT ![n] = FALSE]
    /\ elected_leader' = [elected_leader EXCEPT ![n] = m.host]
    /\ net' = (net \ {m}) \cup (IF participant[n] THEN ToLeft("elected", n, m.host) ELSE {})
    /\ Heard(n)
    /\ UNCHANGED <<up, ring, rest, thread>>

\* forward_election_message, with the leader.
HandleElected(n, m) ==
    /\ Takes(n, m)
    /\ m.type = "elected"
    /\ IF participant[n]
       THEN /\ participant' = [participant EXCEPT ![n] = FALSE]
            /\ isLeader' = [isLeader EXCEPT ![n] = FALSE]
            /\ elected_leader' = [elected_leader EXCEPT ![n] = m.host]
            /\ net' = (net \ {m}) \cup ToLeft("elected", n, m.host)
       ELSE net' = net \ {m} /\ UNCHANGED election
    /\ Heard(n)
    /\ UNCHANGED <<up, ring, rest, thread>>

Handle(n, m) ==
    \/ HandleHeartbeat(n, m) \/ HandleFailure(n, m) \/ IgnoreFailure(n, m)
    \/ HandleAnnouncement(n, m) \/ IgnoreAnnouncement(n, m)
    \/ HandleReply(n, m) \/ IgnoreReply(n, m)
    \/ HandleCandidate(n, m) \/ HandleElected(n, m)

-----------------------------------------------------------------------------
(* remove_host and the end of add_host, step by step: another thread may   *)
(* have changed the members since the test, or may change them before the  *)
(* list that was formed from them is assigned.                             *)

At(n, t, pc) == thread[n][t].pc = pc
Host(n, t)   == thread[n][t].host

\* Mutant of Remove: the sorted list is not formed again.
RemoveOnly(n, t) ==
    /\ At(n, t, "remove")
    /\ Host(n, t) \in members[n]
    /\ members' = [members EXCEPT ![n] = @ \ {Host(n, t)}]
    /\ Enter(n, t, IF t = Discovery THEN Idle ELSE Busy("tell", Host(n, t), {}))
    /\ UNCHANGED <<up, election, sorted_ring, time, turned, net>>

Remove(n, t) ==
    /\ At(n, t, "remove")
    /\ Host(n, t) \in members[n]
    /\ members' = [members EXCEPT ![n] = @ \ {Host(n, t)}]
    /\ Enter(n, t, Busy("assign", Host(n, t), members'[n]))
    /\ UNCHANGED <<up, election, sorted_ring, time, turned, net>>

\* list.remove raises ValueError.  A watch thread is over; the discovery thread
\* logs it, and does not note the time.
RemoveFails(n, t) ==
    /\ At(n, t, "remove")
    /\ Host(n, t) \notin members[n]
    /\ Enter(n, t, Idle)
    /\ turned' = IF t = Discovery THEN [turned EXCEPT ![n] = FALSE] ELSE turned
    /\ UNCHANGED <<up, election, ring, time, net>>

Assign(n, t) ==
    /\ At(n, t, "assign")
    /\ sorted_ring' = [sorted_ring EXCEPT ![n] = thread[n][t].new]
    /\ IF t = Discovery
       THEN Enter(n, t, Idle) /\ Heard(n)
       ELSE Enter(n, t, Busy("tell", Host(n, t), {})) /\ UNCHANGED <<silence, turned>>
    /\ UNCHANGED <<up, election, members, rest, net>>

\* form_ring, then the reply to the announcement.
Reply(n) ==
    /\ At(n, Discovery, "form")
    /\ sorted_ring' = [sorted_ring EXCEPT ![n] = thread[n][Discovery].new]
    /\ net' = net \cup Sent({Datagram("RP", n, Host(n, Discovery), NoAddress)})
    /\ Enter(n, Discovery, Idle)
    /\ Heard(n)
    /\ UNCHANGED <<up, election, members, rest>>

-----------------------------------------------------------------------------
(* The watch thread.  Between its steps the discovery thread goes on, and  *)
(* may note the time or change the ring.                                   *)

\* The time check, the last before which the thread can end without a trace.
Check(n, w) ==
    /\ At(n, w, "check")
    /\ Enter(n, w, IF silence[n] >= Timeout THEN Busy("look", NoAddress, {}) ELSE Idle)
    /\ UNCHANGED <<up, election, ring, time, turned, net>>

\* Mutant of Look: left and right are mixed up.
LookLeft(n, w) ==
    /\ At(n, w, "look")
    /\ Enter(n, w, Busy("test", LeftNeighbour(sorted_ring[n], n), {}))
    /\ UNCHANGED <<up, election, ring, time, turned, net>>

\* get_neighbour, and a test that compares identities ("is not"): a server that
\* is its own neighbour accuses itself.
Look(n, w) ==
    /\ At(n, w, "look")
    /\ Enter(n, w, Busy("test", RightNeighbour(sorted_ring[n], n), {}))
    /\ UNCHANGED <<up, election, ring, time, turned, net>>

\* remove_host(failed) finds it in the list, or has nothing to remove.
Test(n, w) ==
    /\ At(n, w, "test")
    /\ Enter(n, w, Busy(IF Host(n, w) \in members[n] THEN "remove" ELSE "tell",
                        Host(n, w), {}))
    /\ UNCHANGED <<up, election, ring, time, turned, net>>

\* The host is removed.  The others are told; if the leader is gone an announcement and, after a
\* second of sleep, an election follow.
Tell(n, w) ==
    LET failed  == Host(n, w)
        restart == failed = elected_leader[n]
    IN  /\ At(n, w, "tell")
        /\ net' = net \cup ToAll("FF", n, failed)
                      \cup (IF restart THEN ToAll("SA", n, NoAddress) ELSE {})
        /\ Enter(n, w, IF restart THEN Busy("sleep", NoAddress, {}) ELSE Idle)
        /\ silence' = IF restart THEN silence ELSE [silence EXCEPT ![n] = 0]
        /\ UNCHANGED <<up, election, ring, rest, turned>>

\* start_election; the wait for a leader on record is over at once.
Elect(n, w) ==
    /\ At(n, w, "elect")
    /\ participant' = [participant EXCEPT ![n] = TRUE]
    /\ net' = net \cup ToLeft(IF isLeader[n] THEN "elected" ELSE "SE", n, n)
    /\ silence' = [silence EXCEPT ![n] = 0]
    /\ Enter(n, w, Idle)
    /\ UNCHANGED <<up, isLeader, elected_leader, ring, rest, turned>>

Step(n) ==
    \/ \E t \in Threads : Remove(n, t) \/ RemoveFails(n, t) \/ Assign(n, t)
    \/ Reply(n)
    \/ \E w \in Watchers : Check(n, w) \/ Look(n, w) \/ Test(n, w) \/ Tell(n, w) \/ Elect(n, w)

-----------------------------------------------------------------------------
AtMost(max, d) == IF d < max THEN d + 1 ELSE max

\* A second is over: everything that had to be done in it is done, and what is
\* still in flight are heartbeats that have been all round.
Tick ==
    /\ \A m \in net : m.type = "HB" /\ m.to \in m.via
    /\ \A n \in up : turned[n] /\ \A t \in Threads : thread[n][t].pc \in {"idle", "sleep"}
    /\ silence' = [n \in Servers |-> IF n \in up THEN AtMost(Timeout, silence[n]) ELSE 0]
    /\ rest' = [n \in Servers |-> IF n \in up THEN AtMost(Interval, rest[n]) ELSE 0]
    /\ turned' = [n \in Servers |-> FALSE]
    /\ thread' = [n \in Servers |-> [t \in Threads |->
                     IF At(n, t, "sleep") THEN Busy("elect", NoAddress, {}) ELSE Idle]]
    /\ net' = {[m EXCEPT !.via = {}] : m \in net}
    /\ UNCHANGED <<up, election, ring>>

Crash(n) ==
    /\ n \in Mortal \cap up
    /\ Cardinality(Servers \ up) < MaxCrashes
    /\ up' = up \ {n}
    /\ participant' = [participant EXCEPT ![n] = FALSE]
    /\ isLeader' = [isLeader EXCEPT ![n] = FALSE]
    /\ elected_leader' = [elected_leader EXCEPT ![n] = NoAddress]
    /\ members' = [members EXCEPT ![n] = {}]
    /\ sorted_ring' = [sorted_ring EXCEPT ![n] = {}]
    /\ thread' = [thread EXCEPT ![n] = [t \in Threads |-> Idle]]
    /\ net' = {m \in net : m.to # n}
    /\ UNCHANGED <<time, turned>>

Next ==
    \/ Tick
    \/ \E n \in Servers : Turn(n) \/ Step(n) \/ Crash(n)
    \/ \E m \in net : Handle(m.to, m)

\* Time goes on, threads are scheduled and datagrams arrive.
Fairness ==
    /\ WF_vars(Tick)
    /\ \A n \in Servers : WF_vars(Turn(n)) /\ WF_vars(Step(n))
    /\ \A n \in Servers : WF_vars(\E m \in net : Handle(n, m))

Spec == Init /\ [][Next]_vars /\ Fairness

-----------------------------------------------------------------------------
ThreadStates ==
    [pc : {"idle", "check", "look", "test", "remove", "assign", "form", "tell", "sleep", "elect"},
     host : Servers \cup {NoAddress}, new : SUBSET Servers]

(* Every variable has values of its type.                                  *)
TypeOK ==
    /\ up \in SUBSET Servers
    /\ participant \in [Servers -> BOOLEAN]
    /\ isLeader \in [Servers -> BOOLEAN]
    /\ elected_leader \in [Servers -> Servers \cup {NoAddress}]
    /\ members \in [Servers -> SUBSET Servers]
    /\ sorted_ring \in [Servers -> SUBSET Servers]
    /\ silence \in [Servers -> 0..Timeout]
    /\ rest \in [Servers -> 0..Interval]
    /\ turned \in [Servers -> BOOLEAN]
    /\ thread \in [Servers -> [Threads -> ThreadStates]]
    /\ net \in SUBSET Datagrams

(* As long as every server is up no one is taken for failed.               *)
NoAccusationWithoutCrash ==
    up = Servers => \A n \in Servers : members[n] = Servers /\ sorted_ring[n] = Servers

(* A server that crashed is removed from the members of every other and    *)
(* stays out, whoever else is wrongly accused, told late, announced again  *)
(* or removed by two threads at once in the meantime.                      *)
DeadForgotten == <>[](\A n \in up : members[n] \subseteq up)

\* No list is about to be assigned that was formed from other members.
ListsFresh == \A n \in up, t \in Threads :
                  thread[n][t].pc \in {"assign", "form"} => thread[n][t].new = members[n]

(* The neighbours follow: a server that crashed is no one's neighbour in   *)
(* the end, unless a thread assigns a list that it formed from the members *)
(* before another thread changed them.                                     *)
DeadAreNoNeighbours == []ListsFresh => <>[](\A n \in up : sorted_ring[n] \subseteq up)

Founder == Highest(Servers)

(* A leader that is up keeps the lead or gets it back, whoever else        *)
(* crashes, and whoever takes it for failed and starts an election.        *)
LeadKept == [](Founder \in up) => <>[]isLeader[Founder]

(* After a crash every ring ends up with the servers that are up.          *)
RingHeals == <>[](\A n \in up : members[n] = up /\ sorted_ring[n] = up)

(* "if own address, then do nothing" (heartbeat.py:28): no server takes    *)
(* itself for failed.                                                      *)
NoSelfAccusation == \A n \in up, w \in Watchers : At(n, w, "remove") => Host(n, w) # n

(* "FF | IP address of failed node" (README.md:125): only servers that     *)
(* crashed are reported as failed.                                         *)
FailedHasFailed == \A m \in net : m.type = "FF" => m.host \notin up

=============================================================================
