--------------------------- MODULE HeartbeatProofs --------------------------
(***************************************************************************)
(* Proofs about Heartbeat, for any number of servers, any number of watch  *)
(* threads and any interleaving: the type invariant, and, if the leader    *)
(* beats more often than the others lose patience, that no one is taken    *)
(* for failed as long as every server is up.                               *)
(***************************************************************************)
EXTENDS Heartbeat, NeighboursProofs

Addresses == Servers \cup {NoAddress}

(* The values the actions are built from have their types.                 *)
LEMMA BusyTypes ==
    /\ Idle \in ThreadStates
    /\ \A pc \in {"idle", "check", "look", "test", "remove", "assign", "form", "tell", "sleep", "elect"},
          host \in Addresses, new \in SUBSET Servers : Busy(pc, host, new) \in ThreadStates
BY DEF Idle, Busy, ThreadStates, Addresses

LEMMA FiniteRings ==
    ASSUME NEW S \in SUBSET Servers
    PROVE  S \in SUBSET Nat /\ IsFiniteSet(S)
BY ServersAssumption, FS_Subset

LEMMA NeighbourTypes ==
    ASSUME NEW S \in SUBSET Servers, NEW n \in Servers
    PROVE  RightNeighbour(S, n) \in Addresses
<1>1. CASE n \in S
  BY <1>1, FiniteRings, RightNeighbourProperties DEF Addresses
<1>2. CASE n \notin S
  BY <1>2 DEF RightNeighbour, Addresses
<1> QED  BY <1>1, <1>2

LEMMA DatagramTypes ==
    ASSUME TypeOK, NEW n \in Servers, NEW type \in Types, NEW host \in Addresses
    PROVE  /\ ToLeft(type, n, host) \in SUBSET Datagrams
           /\ ToAll(type, n, host) \in SUBSET Datagrams
           /\ \A to : Sent({Datagram(type, n, to, host)}) \in SUBSET Datagrams
           /\ \A via \in SUBSET Servers : BeatLeft(n, via) \in SUBSET Datagrams
<1>1. up \subseteq Servers
  BY DEF TypeOK
<1>2. \A to \in Servers : Datagram(type, n, to, host) \in Datagrams
  BY DEF Datagram, Datagrams, Addresses
<1>3. \A to : Sent({Datagram(type, n, to, host)}) \in SUBSET Datagrams
  BY <1>1, <1>2 DEF Sent, Datagram
<1>4. ASSUME NEW via \in SUBSET Servers PROVE BeatLeft(n, via) \in SUBSET Datagrams
  <2>1. \A to : /\ Beat(n, to, via).to = to
                /\ to \in Servers => Beat(n, to, via) \in Datagrams
    BY DEF Beat, Datagram, Datagrams, Types
  <2> QED  BY <1>1, <2>1 DEF BeatLeft, Sent
<1> QED  BY <1>1, <1>2, <1>3, <1>4 DEF ToLeft, ToAll

LEMMA EnterTypes ==
    ASSUME TypeOK, NEW n \in Servers, NEW t \in Threads, NEW state \in ThreadStates,
           Enter(n, t, state)
    PROVE  thread' \in [Servers -> [Threads -> ThreadStates]]
BY DEF Enter, TypeOK

LEMMA HeardTypes ==
    ASSUME TypeOK, NEW n \in Servers, Heard(n)
    PROVE  silence' \in [Servers -> 0..Timeout] /\ turned' \in [Servers -> BOOLEAN]
BY TimingAssumption DEF Heard, TypeOK

LEMMA InitTypeOK == Init => TypeOK
<1> SUFFICES ASSUME Init PROVE TypeOK
  OBVIOUS
<1>1. Highest(Servers) \in Servers
  BY ServersAssumption, HighestIsGreatest
<1>2. 0 \in 0..Timeout /\ Interval \in 0..Interval
  BY TimingAssumption
<1> QED  BY <1>1, <1>2, BusyTypes DEF Init, TypeOK

LEMMA HandleTypeOK ==
    ASSUME TypeOK, NEW m \in net, Handle(m.to, m)
    PROVE  TypeOK'
<1> DEFINE n == m.to
<1>0. /\ m \in Datagrams /\ n \in Servers /\ m.host \in Addresses /\ m.from \in Servers
      /\ n \in Addresses /\ NoAddress \in Addresses /\ Discovery \in Threads
      /\ net \in SUBSET Datagrams /\ net \ {m} \in SUBSET Datagrams
  BY DEF TypeOK, Datagrams, Addresses, Threads
<1> HIDE DEF n
<1>a. ASSUME NEW type \in Types, NEW host \in Addresses
      PROVE  ToLeft(type, n, host) \in SUBSET Datagrams
  BY <1>0, DatagramTypes
<1>1. CASE HandleHeartbeat(n, m)
  <2>1. BeatLeft(n, m.via \cup {n}) \in SUBSET Datagrams
    <3>1. m.via \cup {n} \in SUBSET Servers /\ "HB" \in Types
      BY <1>0 DEF Datagrams, Types
    <3> QED  BY <1>0, <3>1, DatagramTypes
  <2>2. net' \in SUBSET Datagrams
    BY <1>0, <1>1, <2>1 DEF HandleHeartbeat
  <2> QED  BY <1>0, <1>1, <2>2, HeardTypes DEF HandleHeartbeat, TypeOK, election, ring
<1>2. CASE IgnoreFailure(n, m) \/ IgnoreAnnouncement(n, m) \/ IgnoreReply(n, m)
  BY <1>0, <1>2, HeardTypes
     DEF IgnoreFailure, IgnoreAnnouncement, IgnoreReply, TypeOK, election, ring
<1>3. CASE HandleFailure(n, m)
  <2>1. thread' \in [Servers -> [Threads -> ThreadStates]]
    BY <1>0, <1>3, BusyTypes, EnterTypes DEF HandleFailure
  <2> QED  BY <1>0, <1>3, <2>1 DEF HandleFailure, TypeOK, election, ring, time
<1>4. CASE HandleAnnouncement(n, m)
  <2>1. members' \in [Servers -> SUBSET Servers] /\ members'[n] \in SUBSET Servers
    BY <1>0, <1>4 DEF HandleAnnouncement, TypeOK
  <2>2. thread' \in [Servers -> [Threads -> ThreadStates]]
    BY <1>0, <1>4, <2>1, BusyTypes, EnterTypes DEF HandleAnnouncement, Addresses
  <2> QED  BY <1>0, <1>4, <2>1, <2>2 DEF HandleAnnouncement, TypeOK, election, time
<1>5. CASE HandleReply(n, m)
  <2>1. members' \in [Servers -> SUBSET Servers] /\ members'[n] \in SUBSET Servers
    BY <1>0, <1>5 DEF HandleReply, TypeOK
  <2>2. thread' \in [Servers -> [Threads -> ThreadStates]]
    BY <1>0, <1>5, <2>1, BusyTypes, EnterTypes DEF HandleReply
  <2> QED  BY <1>0, <1>5, <2>1, <2>2 DEF HandleReply, TypeOK, election, time
<1>6. CASE HandleCandidate(n, m)
  <2>1. /\ ToLeft("SE", n, m.host) \in SUBSET Datagrams
        /\ ToLeft("SE", n, n) \in SUBSET Datagrams
        /\ ToLeft("elected", n, n) \in SUBSET Datagrams
    BY <1>0, <1>a DEF Types
  <2>2. net' \in SUBSET Datagrams
    BY <1>0, <1>6, <2>1 DEF HandleCandidate
  <2>3. /\ participant' \in [Servers -> BOOLEAN]
        /\ isLeader' \in [Servers -> BOOLEAN]
        /\ elected_leader' \in [Servers -> Servers \cup {NoAddress}]
    BY <1>0, <1>6 DEF HandleCandidate, TypeOK
  <2> QED  BY <1>0, <1>6, <2>2, <2>3, HeardTypes DEF HandleCandidate, TypeOK, ring
<1>7. CASE HandleElected(n, m)
  <2>1. ToLeft("elected", n, m.host) \in SUBSET Datagrams
    BY <1>0, <1>a DEF Types
  <2>2. net' \in SUBSET Datagrams
    BY <1>0, <1>7, <2>1 DEF HandleElected
  <2>3. /\ participant' \in [Servers -> BOOLEAN]
        /\ isLeader' \in [Servers -> BOOLEAN]
        /\ elected_leader' \in [Servers -> Servers \cup {NoAddress}]
    BY <1>0, <1>7 DEF HandleElected, TypeOK, election, Addresses
  <2> QED  BY <1>0, <1>7, <2>2, <2>3, HeardTypes DEF HandleElected, TypeOK, ring
<1> QED  BY <1>1, <1>2, <1>3, <1>4, <1>5, <1>6, <1>7 DEF Handle, n

LEMMA StepTypeOK == TypeOK /\ [Next]_vars => TypeOK'
<1> SUFFICES ASSUME TypeOK, [Next]_vars PROVE TypeOK'
  OBVIOUS
<1>1. CASE Tick
  <2>1. thread' \in [Servers -> [Threads -> ThreadStates]]
    BY <1>1, BusyTypes DEF Tick, Addresses
  <2>2. silence' \in [Servers -> 0..Timeout] /\ rest' \in [Servers -> 0..Interval]
    BY <1>1, TimingAssumption DEF Tick, AtMost, TypeOK
  <2>3. net' \in SUBSET Datagrams
    <3>1. \A m \in Datagrams : [m EXCEPT !.via = {}] \in Datagrams
      BY DEF Datagrams
    <3> QED  BY <1>1, <3>1 DEF Tick, TypeOK
  <2> QED  BY <1>1, <2>1, <2>2, <2>3 DEF Tick, TypeOK, election, ring
<1>2. ASSUME NEW n \in Servers, Turn(n) PROVE TypeOK'
  <2>1. net' \in SUBSET Datagrams /\ rest' \in [Servers -> 0..Interval]
    <3>1. BeatLeft(n, {}) \in SUBSET Datagrams
      BY DatagramTypes DEF Types, Addresses
    <3>2. CASE UNCHANGED <<net, rest>>
      BY <3>2 DEF TypeOK
    <3>3. CASE net' = net \cup BeatLeft(n, {}) /\ rest' = [rest EXCEPT ![n] = 0]
      <4>1. 0 \in 0..Interval
        BY TimingAssumption
      <4> QED  BY <3>1, <3>3, <4>1 DEF TypeOK
    <3> QED  BY <1>2, <3>2, <3>3 DEF Turn, SendHeartbeat
  <2>2. thread' \in [Servers -> [Threads -> ThreadStates]]
    <3>1. Busy("check", NoAddress, {}) \in ThreadStates
      BY BusyTypes DEF Addresses
    <3> QED  BY <1>2, <3>1, EnterTypes DEF Turn, StartWatching, IdleWatchers, Threads, TypeOK
  <2> QED  BY <1>2, <2>1, <2>2 DEF Turn, TypeOK, election, ring
<1>3. ASSUME NEW n \in Servers, NEW t \in Threads, Remove(n, t) PROVE TypeOK'
  <2>1. members' \in [Servers -> SUBSET Servers] /\ members'[n] \in SUBSET Servers
    BY <1>3 DEF Remove, TypeOK
  <2>2. thread[n][t] \in ThreadStates /\ Host(n, t) \in Addresses
    BY DEF TypeOK, Host, ThreadStates, Addresses
  <2>3. thread' \in [Servers -> [Threads -> ThreadStates]]
    BY <1>3, <2>1, <2>2, BusyTypes, EnterTypes DEF Remove
  <2> QED  BY <1>3, <2>1, <2>3 DEF Remove, TypeOK, election, time
<1>4. ASSUME NEW n \in Servers, NEW t \in Threads, RemoveFails(n, t) PROVE TypeOK'
  <2>1. thread' \in [Servers -> [Threads -> ThreadStates]]
    BY <1>4, BusyTypes, EnterTypes DEF RemoveFails
  <2> QED  BY <1>4, <2>1 DEF RemoveFails, TypeOK, election, time, ring
<1>5. ASSUME NEW n \in Servers, NEW t \in Threads, Assign(n, t) PROVE TypeOK'
  <2>2. thread[n][t] \in ThreadStates /\ Host(n, t) \in Addresses
    BY DEF TypeOK, Host, ThreadStates, Addresses
  <2>1. sorted_ring' \in [Servers -> SUBSET Servers]
    BY <1>5, <2>2 DEF Assign, TypeOK, ThreadStates
  <2>3. thread' \in [Servers -> [Threads -> ThreadStates]]
    BY <1>5, <2>2, BusyTypes, EnterTypes DEF Assign
  <2> QED  BY <1>5, <2>1, <2>3, HeardTypes DEF Assign, TypeOK, election
<1>6. ASSUME NEW n \in Servers, Reply(n) PROVE TypeOK'
  <2>2. thread[n][Discovery] \in ThreadStates
    BY DEF TypeOK, Threads
  <2>1. sorted_ring' \in [Servers -> SUBSET Servers]
    BY <1>6, <2>2 DEF Reply, TypeOK, ThreadStates
  <2>3. thread' \in [Servers -> [Threads -> ThreadStates]]
    BY <1>6, BusyTypes, EnterTypes DEF Reply, Threads
  <2>4. net' \in SUBSET Datagrams
    BY <1>6, DatagramTypes DEF Reply, Types, Addresses, TypeOK
  <2> QED  BY <1>6, <2>1, <2>3, <2>4, HeardTypes DEF Reply, TypeOK, election
<1>7. ASSUME NEW n \in Servers, NEW w \in Watchers, Tell(n, w) PROVE TypeOK'
  <2>2. thread[n][w] \in ThreadStates /\ Host(n, w) \in Addresses /\ w \in Threads
    BY DEF TypeOK, Host, ThreadStates, Addresses, Threads
  <2>3. thread' \in [Servers -> [Threads -> ThreadStates]]
    <3>1. Busy("sleep", NoAddress, {}) \in ThreadStates /\ Idle \in ThreadStates
      BY BusyTypes DEF Addresses
    <3> QED  BY <1>7, <2>2, <3>1, EnterTypes DEF Tell
  <2>4. net' \in SUBSET Datagrams
    <3>1. ToAll("FF", n, Host(n, w)) \in SUBSET Datagrams
      BY <2>2, DatagramTypes DEF Types
    <3>2. ToAll("SA", n, NoAddress) \in SUBSET Datagrams
      BY DatagramTypes DEF Types, Addresses
    <3> QED  BY <1>7, <3>1, <3>2 DEF Tell, TypeOK
  <2>5. silence' \in [Servers -> 0..Timeout]
    BY <1>7, TimingAssumption DEF Tell, TypeOK
  <2> QED  BY <1>7, <2>3, <2>4, <2>5 DEF Tell, TypeOK, election, ring
<1>8. ASSUME NEW n \in Servers, NEW w \in Watchers, Elect(n, w) PROVE TypeOK'
  <2>1. w \in Threads /\ n \in Addresses
    BY DEF Threads, Addresses
  <2>3. thread' \in [Servers -> [Threads -> ThreadStates]]
    BY <1>8, <2>1, BusyTypes, EnterTypes DEF Elect
  <2>4. net' \in SUBSET Datagrams
    <3>1. /\ ToLeft("elected", n, n) \in SUBSET Datagrams
          /\ ToLeft("SE", n, n) \in SUBSET Datagrams
      BY <2>1, DatagramTypes DEF Types
    <3> QED  BY <1>8, <3>1 DEF Elect, TypeOK
  <2>5. silence' \in [Servers -> 0..Timeout] /\ participant' \in [Servers -> BOOLEAN]
    BY <1>8, TimingAssumption DEF Elect, TypeOK
  <2> QED  BY <1>8, <2>3, <2>4, <2>5 DEF Elect, TypeOK, ring
<1>11. ASSUME NEW n \in Servers, NEW w \in Watchers, Check(n, w) \/ Look(n, w) \/ Test(n, w)
       PROVE  TypeOK'
  <2>1. /\ w \in Threads
        /\ Host(n, w) \in Addresses /\ RightNeighbour(sorted_ring[n], n) \in Addresses
    BY NeighbourTypes DEF TypeOK, Host, ThreadStates, Addresses, Threads
  <2>2. \A pc \in {"look", "test", "remove", "tell"}, host \in Addresses :
           Busy(pc, host, {}) \in ThreadStates
    BY BusyTypes
  <2>3. PICK state \in ThreadStates : Enter(n, w, state)
    <3>1. CASE Check(n, w)
      BY <3>1, <2>2, BusyTypes DEF Check, Addresses
    <3>2. CASE Look(n, w) \/ Test(n, w)
      BY <3>2, <2>1, <2>2 DEF Look, Test
    <3> QED  BY <1>11, <3>1, <3>2
  <2>4. thread' \in [Servers -> [Threads -> ThreadStates]]
    BY <2>1, <2>3, EnterTypes
  <2> QED  BY <1>11, <2>4 DEF Check, Look, Test, TypeOK, election, ring, time
<1>9. ASSUME NEW n \in Servers, Crash(n) PROVE TypeOK'
  <2>1. thread' \in [Servers -> [Threads -> ThreadStates]]
    BY <1>9, BusyTypes DEF Crash, TypeOK
  <2> QED  BY <1>9, <2>1 DEF Crash, TypeOK, time
<1>10. CASE UNCHANGED vars
  BY <1>10 DEF vars, TypeOK, election, ring, time
<1> QED  BY <1>1, <1>2, <1>3, <1>4, <1>5, <1>6, <1>7, <1>8, <1>9, <1>10, <1>11, HandleTypeOK
         DEF Next, Step

(* Theorem TypeCorrect: every variable has values of its type; in          *)
(* particular no list of the ring ever holds the None that a server        *)
(* without neighbours accuses, and no datagram is sent to it.              *)
THEOREM TypeCorrect == Spec => []TypeOK
<1> QED  BY InitTypeOK, StepTypeOK, PTL DEF Spec

-----------------------------------------------------------------------------
(* As long as every server is up there is at most one heartbeat under way, *)
(* and it says how long each server has waited: those that it has passed   *)
(* since the leader sent it have just heard it, and when it is back no one *)
(* has waited longer than the leader has rested.                           *)

UnderWay(p) == \E via \in SUBSET {n \in Servers : n < p} :
                  net = {Beat(RightNeighbour(Servers, p), p, via)}

Healthy ==
    /\ \A n \in Servers :
          /\ isLeader[n] <=> n = Founder
          /\ members[n] = Servers /\ sorted_ring[n] = Servers
          /\ \A t \in Threads : thread[n][t] = Idle
          /\ silence[n] <= Interval
    /\ turned[Founder] => rest[Founder] < Interval
    /\ \/ net = {} /\ \A n \in Servers : silence[n] <= rest[Founder]
       \/ \E p \in Servers : /\ UnderWay(p)
                             /\ rest[Founder] = 0
                             /\ \A n \in Servers : n < p => silence[n] = 0

HealthInv == up = Servers => Healthy

LEMMA FounderIsHighest == Founder \in Servers /\ \A n \in Servers : n <= Founder
BY ServersAssumption, HighestIsGreatest DEF Founder

(* The heartbeat goes up the ring, and from the highest, the leader, to    *)
(* the lowest.                                                             *)
LEMMA HeartbeatClimbs ==
    ASSUME NEW n \in Servers
    PROVE  LET l == LeftNeighbour(Servers, n)
           IN  /\ l \in Servers
               /\ RightNeighbour(Servers, l) = n
               /\ n # Founder => n < l /\ \A k \in Servers : k < l => k <= n
               /\ n = Founder => \A k \in Servers : ~(k < l)
<1> DEFINE l == LeftNeighbour(Servers, n)
<1>1. Servers \in SUBSET Nat /\ IsFiniteSet(Servers)
  BY FiniteRings
<1>2. /\ l \in Servers
      /\ \/ l > n /\ \A k \in Servers : k > n => l <= k
         \/ \A k \in Servers : k <= n /\ l <= k
  BY <1>1, LeftNeighbourProperties
<1>3. RightNeighbour(Servers, l) = n
  BY <1>1, RightOfLeft
<1>4. Founder \in Servers /\ \A k \in Servers : k <= Founder
  BY FounderIsHighest
<1> HIDE DEF l
<1>5. n # Founder => n < l /\ \A k \in Servers : k < l => k <= n
  <2>1. l \in Nat /\ n \in Nat /\ Founder \in Nat /\ n <= Founder
    BY <1>1, <1>2, <1>4
  <2> QED  BY <1>1, <1>2, <1>4, <2>1
<1>6. n = Founder => \A k \in Servers : ~(k < l)
  BY <1>1, <1>2, <1>4
<1> QED  BY <1>2, <1>3, <1>5, <1>6 DEF l

LEMMA SentLeft ==
    ASSUME NEW n \in Servers, NEW via, up = Servers, sorted_ring[n] = Servers
    PROVE  BeatLeft(n, via) = {Beat(n, LeftNeighbour(Servers, n), via)}
BY HeartbeatClimbs DEF BeatLeft, Sent, Beat, Datagram

LEMMA InitHealthy == Interval >= 1 /\ Init => HealthInv
<1> SUFFICES ASSUME Interval >= 1, Init PROVE Healthy
  BY DEF HealthInv
<1>1. Founder \in Servers
  BY FounderIsHighest
<1>2. \A n \in Servers : isLeader[n] <=> n = Founder
  BY Zenon DEF Init, Founder
<1>3. /\ \A n \in Servers : /\ members[n] = Servers /\ sorted_ring[n] = Servers
                            /\ \A t \in Threads : thread[n][t] = Idle
      /\ ~turned[Founder]
  BY <1>1 DEF Init
<1>4. net = {} /\ rest[Founder] = Interval /\ \A n \in Servers : silence[n] = 0
  BY <1>1 DEF Init
<1> QED  BY <1>2, <1>3, <1>4, TimingAssumption DEF Healthy

LEMMA StepHealthy ==
    ASSUME 1 <= Interval, Interval < Timeout, TypeOK, HealthInv, [Next]_vars
    PROVE  HealthInv'
<1> SUFFICES ASSUME up' = Servers PROVE Healthy'
  BY DEF HealthInv
<1>a. up = Servers
  <2>1. up' \subseteq up
    BY ZenonT(40) DEF Next, Tick, Turn, Step, Crash, Remove, RemoveFails, Assign, Reply, Check, Look,
           Test, Tell, Elect, Handle, HandleHeartbeat, HandleFailure, IgnoreFailure, HandleAnnouncement,
           IgnoreAnnouncement, HandleReply, IgnoreReply, HandleCandidate, HandleElected, vars
  <2> QED  BY <2>1 DEF TypeOK
<1>b. Healthy
  BY <1>a DEF HealthInv
<1>c. Founder \in Servers /\ Servers \subseteq Nat /\ Interval \in Nat /\ Timeout \in Nat
  BY FounderIsHighest, FiniteRings, TimingAssumption
<1>d. \A n \in Servers : silence[n] \in 0..Timeout /\ rest[n] \in 0..Interval
  BY DEF TypeOK
<1>t. \A n \in Servers, t \in Threads : thread[n][t].pc = "idle"
  BY <1>b DEF Healthy, Idle, Busy
<1>n. \A m \in net : m.type = "HB"
  BY <1>b DEF Healthy, UnderWay, Beat, Datagram
<1>1. CASE Tick
  <2>1. /\ net = {} /\ net' = {}
        /\ \A n \in Servers : silence[n] <= rest[Founder]
    <3>1. ASSUME NEW p \in Servers, UnderWay(p) PROVE FALSE
      <4>1. PICK via \in SUBSET {n \in Servers : n < p} :
               net = {Beat(RightNeighbour(Servers, p), p, via)}
        BY <3>1 DEF UnderWay
      <4>2. p \in via
        BY <1>1, <4>1 DEF Tick, Beat, Datagram
      <4> QED  BY <1>c, <4>2
    <3>2. net = {} /\ \A n \in Servers : silence[n] <= rest[Founder]
      BY <1>b, <3>1 DEF Healthy
    <3> QED  BY <1>1, <3>2 DEF Tick
  <2>2. rest[Founder] < Interval /\ rest[Founder] \in Nat
    BY <1>1, <1>a, <1>b, <1>c, <1>d DEF Tick, Healthy
  <2>3. rest'[Founder] = rest[Founder] + 1
    BY <1>1, <1>a, <1>c, <2>2 DEF Tick, AtMost
  <2>4. ASSUME NEW n \in Servers
        PROVE  silence'[n] <= rest[Founder] + 1 /\ silence'[n] <= Interval
    <3>1. silence'[n] = AtMost(Timeout, silence[n])
      BY <1>1, <1>a DEF Tick
    <3> QED  BY <1>c, <1>d, <2>1, <2>2, <3>1 DEF AtMost
  <2>5. \A n \in Servers, t \in Threads : thread'[n][t] = Idle
    BY <1>1, <1>t DEF Tick, At
  <2>6. ~turned'[Founder]
    BY <1>1, <1>c DEF Tick
  <2> QED  BY <1>1, <1>b, <2>1, <2>3, <2>4, <2>5, <2>6
           DEF Tick, Healthy, election, ring, Founder
<1>2. ASSUME NEW n \in Servers, Turn(n) PROVE Healthy'
  <2>1. UNCHANGED thread
    BY <1>2, <1>b, <1>c, <1>d DEF Turn, StartWatching, Healthy
  <2>2. CASE n # Founder
    <3>1. UNCHANGED <<net, rest>> /\ turned'[Founder] = turned[Founder]
      BY <1>2, <1>b, <1>c, <2>2 DEF Turn, SendHeartbeat, Healthy, TypeOK
    <3> QED  BY <1>2, <1>b, <2>1, <3>1 DEF Turn, Healthy, UnderWay, election, ring, Founder
  <2>3. CASE n = Founder /\ rest[n] < Interval
    <3>1. UNCHANGED <<net, rest>>
      BY <1>2, <1>c, <1>d, <2>3 DEF Turn, SendHeartbeat
    <3> QED  BY <1>2, <1>b, <2>1, <2>3, <3>1 DEF Turn, Healthy, UnderWay, election, ring, Founder
  <2>4. CASE n = Founder /\ ~(rest[n] < Interval)
    <3> DEFINE l == LeftNeighbour(Servers, n)
    <3>1. net = {}
      BY <1>b, <1>c, <2>4 DEF Healthy
    <3>2. rest' = [rest EXCEPT ![n] = 0] /\ net' = BeatLeft(n, {})
      BY <1>2, <1>b, <1>c, <1>d, <2>4, <3>1 DEF Turn, SendHeartbeat, Healthy
    <3>3. /\ l \in Servers /\ RightNeighbour(Servers, l) = n
          /\ \A k \in Servers : ~(k < l)
      BY <2>4, HeartbeatClimbs
    <3>4. UnderWay(l)'
      BY <1>a, <1>b, <3>2, <3>3, SentLeft DEF Healthy, UnderWay
    <3>5. rest'[Founder] = 0 /\ 0 < Interval
      BY <1>c, <2>4, <3>2 DEF TypeOK
    <3> HIDE DEF l
    <3> QED  BY <1>2, <1>b, <2>1, <3>3, <3>4, <3>5 DEF Turn, Healthy, election, ring, Founder
  <2> QED  BY <2>2, <2>3, <2>4
<1>3. ASSUME NEW n \in Servers, Step(n) PROVE FALSE
  BY <1>3, <1>t DEF Step, Remove, RemoveFails, Assign, Reply, Check, Look, Test, Tell, Elect,
                    At, Threads
<1>4. ASSUME NEW n \in Servers, Crash(n) PROVE FALSE
  BY <1>4, <1>a DEF Crash
<1>5. ASSUME NEW m \in net, Handle(m.to, m) PROVE Healthy'
  <2>1. HandleHeartbeat(m.to, m)
    BY <1>5, <1>n DEF Handle, HandleFailure, IgnoreFailure, HandleAnnouncement,
           IgnoreAnnouncement, HandleReply, IgnoreReply, HandleCandidate, HandleElected
  <2>2. PICK p \in Servers : /\ UnderWay(p)
                             /\ rest[Founder] = 0
                             /\ \A n \in Servers : n < p => silence[n] = 0
    BY <1>5, <1>b DEF Healthy
  <2>a. PICK via \in SUBSET {n \in Servers : n < p} :
           net = {Beat(RightNeighbour(Servers, p), p, via)}
    BY <2>2 DEF UnderWay
  <2>3. /\ m.to = p /\ m.via = via
        /\ m.from = RightNeighbour(Servers, p) /\ net = {m}
    BY <1>5, <2>a DEF Beat, Datagram
  <2>4. /\ silence' = [silence EXCEPT ![p] = 0]
        /\ turned' = [turned EXCEPT ![p] = FALSE]
        /\ UNCHANGED <<election, ring, rest, thread>>
    BY <2>1, <2>3 DEF HandleHeartbeat, Heard
  <2>5. /\ \A n \in Servers : silence'[n] = IF n = p THEN 0 ELSE silence[n]
        /\ turned'[Founder] => turned[Founder]
    BY <1>c, <2>4 DEF TypeOK
  <2>6. CASE p = Founder
    <3>1. net' = {}
      BY <1>b, <2>1, <2>3, <2>6 DEF HandleHeartbeat, Healthy
    <3>2. \A n \in Servers : silence'[n] = 0
      <4> TAKE n \in Servers
      <4>1. n = p \/ n < p
        BY <1>c, <2>6, FounderIsHighest
      <4> QED  BY <2>2, <2>5, <4>1
    <3> QED  BY <1>b, <1>c, <2>2, <2>4, <2>5, <3>1, <3>2 DEF Healthy, election, ring, Founder
  <2>7. CASE p # Founder
    <3> DEFINE l == LeftNeighbour(Servers, p)
    <3>1. net' = BeatLeft(p, via \cup {p})
      BY <1>b, <2>1, <2>3, <2>7 DEF HandleHeartbeat, Healthy
    <3>2. /\ l \in Servers /\ RightNeighbour(Servers, l) = p
          /\ p < l /\ \A k \in Servers : k < l => k <= p
      BY <2>7, HeartbeatClimbs
    <3>6. net' = {Beat(p, l, via \cup {p})}
      BY <1>a, <1>b, <3>1, SentLeft DEF Healthy
    <3> HIDE DEF l
    <3>3. UnderWay(l)'
      <4>1. ASSUME NEW k \in via \cup {p} PROVE k \in Servers /\ k < l
        <5>1. k \in Servers /\ (k = p \/ k < p)
          OBVIOUS
        <5>2. k \in Nat /\ p \in Nat /\ l \in Nat /\ p < l
          BY <1>c, <3>2, <5>1
        <5> QED  BY <5>1, <5>2
      <4> QED  BY <3>2, <3>6, <4>1 DEF UnderWay
    <3>4. \A n \in Servers : n < l => silence'[n] = 0
      <4> TAKE n \in Servers
      <4> HAVE n < l
      <4>1. n = p \/ n < p
        BY <1>c, <3>2
      <4> QED  BY <2>2, <2>5, <4>1
    <3>5. \A n \in Servers : silence'[n] <= Interval
      BY <1>b, <1>c, <2>5 DEF Healthy
    <3> QED  BY <1>b, <2>2, <2>4, <2>5, <3>2, <3>3, <3>4, <3>5
             DEF Healthy, election, ring, Founder
  <2> QED  BY <2>6, <2>7
<1>6. CASE UNCHANGED vars
  BY <1>6, <1>b DEF vars, election, ring, time, Healthy, UnderWay, Founder
<1> QED  BY <1>1, <1>2, <1>3, <1>4, <1>5, <1>6 DEF Next

(* Theorem NoOneIsAccused: if the leader sends heartbeats more often than  *)
(* the others lose patience (2 and 6 seconds in config.py), then as long   *)
(* as every server is up no ring loses a member, on a ring of any size.    *)
THEOREM NoOneIsAccused ==
    ASSUME 1 <= Interval, Interval < Timeout
    PROVE  Spec => []NoAccusationWithoutCrash
<1>1. Init => TypeOK /\ HealthInv
  BY InitTypeOK, InitHealthy, TimingAssumption
<1>2. TypeOK /\ HealthInv /\ [Next]_vars => (TypeOK /\ HealthInv)'
  BY StepTypeOK, StepHealthy
<1>3. HealthInv => NoAccusationWithoutCrash
  BY DEF HealthInv, Healthy, NoAccusationWithoutCrash
<1> QED  BY <1>1, <1>2, <1>3, PTL DEF Spec

=============================================================================
