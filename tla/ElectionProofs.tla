--------------------------- MODULE ElectionProofs ---------------------------
(***************************************************************************)
(* Proofs about Election, for any set of servers, any number of crashes    *)
(* and lost datagrams and any timing: the type invariant, and, for a ring  *)
(* that no server joins, ElectedOutranksFounders.                          *)
(***************************************************************************)
EXTENDS Election, NeighboursProofs

(* Sending and receiving keep the network a bag of messages; a message in  *)
(* it afterwards was in it before or has just been sent to a server that   *)
(* is up.                                                                  *)
LEMMA SentMessages ==
    ASSUME NEW b \in [Messages -> Nat], NEW S
    PROVE  /\ Sent(b, S) \in [Messages -> Nat]
           /\ \A m \in Messages : Sent(b, S)[m] > 0 => b[m] > 0 \/ (m \in S /\ m.to \in up)
BY DEF Sent

LEMMA TakenMessages ==
    ASSUME NEW b \in [Messages -> Nat], NEW m \in Messages, b[m] > 0
    PROVE  /\ Taken(b, m) \in [Messages -> Nat]
           /\ \A k \in Messages : Taken(b, m)[k] > 0 => b[k] > 0
BY DEF Taken

LEMMA MessageTypes ==
    \A n, id \in Servers, e \in BOOLEAN :
        /\ SE(n, id, e) \in Messages
        /\ SA(n, id) \in Messages
        /\ RP(n, id) \in Messages
        /\ \A from \in Servers : FF(n, id, from) \in Messages
BY DEF Messages, ElectionMessages, RingMessages, FailureMessages, SE, SA, RP, FF

(* The three ways an action changes the network.                           *)
LEMMA SendStep ==
    ASSUME TypeOK, NEW S, Send(S)
    PROVE  /\ net' \in [Messages -> Nat]
           /\ \A k \in Messages : net'[k] > 0 => net[k] > 0 \/ (k \in S /\ k.to \in up)
BY SentMessages DEF Send, TypeOK

LEMMA ReceiveStep ==
    ASSUME TypeOK, NEW m \in Messages, Receive(m)
    PROVE  /\ net[m] > 0
           /\ net' \in [Messages -> Nat]
           /\ \A k \in Messages : net'[k] > 0 => net[k] > 0
BY TakenMessages DEF Receive, InTransit, TypeOK

LEMMA ReceiveAndSendStep ==
    ASSUME TypeOK, NEW m \in Messages, NEW S, ReceiveAndSend(m, S)
    PROVE  /\ net[m] > 0
           /\ net' \in [Messages -> Nat]
           /\ \A k \in Messages : net'[k] > 0 => net[k] > 0 \/ (k \in S /\ k.to \in up)
<1>1. net[m] > 0 /\ net \in [Messages -> Nat] /\ net' = Sent(Taken(net, m), S)
  BY DEF ReceiveAndSend, InTransit, TypeOK
<1>2. /\ Taken(net, m) \in [Messages -> Nat]
      /\ \A k \in Messages : Taken(net, m)[k] > 0 => net[k] > 0
  BY <1>1, TakenMessages
<1> QED  BY <1>1, <1>2, SentMessages

LEMMA NotifyStep ==
    ASSUME TypeOK, NEW a \in Addresses, NotifyFrontend(a)
    PROVE  le' \in [Addresses -> Nat]
BY DEF TypeOK, NotifyFrontend

-----------------------------------------------------------------------------
(* The main thread keeps the types. *)
LEMMA MainType ==
    ASSUME TypeOK, NEW n \in Servers, Boot(n) \/ Main(n)
    PROVE  TypeOK'
<1> USE DEF TypeOK, MainStates, local, threads, frontend
<1>1. CASE Boot(n)
  <2>1. net' \in [Messages -> Nat]
    BY <1>1, SendStep DEF Boot
  <2> QED  BY <1>1, <2>1 DEF Boot
<1>2. CASE StartElection(n)
  BY <1>2 DEF StartElection
<1>3. CASE SendCandidacy(n)
  <2>1. net' \in [Messages -> Nat]
    BY <1>3, SendStep DEF SendCandidacy
  <2> QED  BY <1>3, <2>1 DEF SendCandidacy
<1>4. CASE StopWaiting(n)
  BY <1>4 DEF StopWaiting
<1>5. CASE TimeOut(n)
  BY <1>5 DEF TimeOut
<1>6. CASE ClaimElected(n)
  BY <1>6 DEF ClaimElected, Addresses
<1>7. CASE ClaimLeadership(n)
  BY <1>7 DEF ClaimLeadership
<1>8. CASE ReportClaim(n)
  <2>1. le' \in [Addresses -> Nat]
    BY <1>8, NotifyStep DEF ReportClaim
  <2> QED  BY <1>8, <2>1 DEF ReportClaim
<1> QED  BY <1>1, <1>2, <1>3, <1>4, <1>5, <1>6, <1>7, <1>8 DEF Main

(* The discovery thread keeps the types. *)
LEMMA HandleType ==
    ASSUME TypeOK, NEW n \in Servers, NEW id \in Servers, HandleDatagram(n, id)
    PROVE  TypeOK'
<1> USE DEF TypeOK, local, threads, frontend
<1>0. /\ \A e \in BOOLEAN : SE(n, id, e) \in Messages
      /\ SE(n, n, FALSE) \in Messages
      /\ SA(n, id) \in Messages
      /\ RP(n, id) \in Messages
      /\ \A from \in Servers : FF(n, id, from) \in Messages
  BY MessageTypes
<1>1. CASE ForwardCandidate(n, id)
  <2>1. net' \in [Messages -> Nat]
    BY <1>0, <1>1, ReceiveAndSendStep DEF ForwardCandidate
  <2> QED  BY <1>1, <2>1 DEF ForwardCandidate
<1>2. CASE ReplaceCandidate(n, id)
  <2>1. net' \in [Messages -> Nat]
    BY <1>0, <1>2, ReceiveAndSendStep DEF ReplaceCandidate
  <2> QED  BY <1>2, <2>1 DEF ReplaceCandidate
<1>3. CASE DiscardCandidate(n, id)
  <2>1. net' \in [Messages -> Nat]
    BY <1>0, <1>3, ReceiveStep DEF DiscardCandidate
  <2> QED  BY <1>3, <2>1 DEF DiscardCandidate
<1>4. CASE WinElection(n)
  <2>1. net' \in [Messages -> Nat]
    BY <1>0, <1>4, ReceiveStep DEF WinElection
  <2> QED  BY <1>4, <2>1 DEF WinElection, HandlerStates, Addresses
<1>5. CASE AdoptLeader(n, id)
  <2>1. net' \in [Messages -> Nat]
    BY <1>0, <1>5, ReceiveStep DEF AdoptLeader
  <2> QED  BY <1>5, <2>1 DEF AdoptLeader, HandlerStates, Addresses
<1>6. CASE EndElection(n, id)
  <2>1. net' \in [Messages -> Nat]
    BY <1>0, <1>6, ReceiveStep DEF EndElection
  <2>2. le' \in [Addresses -> Nat]
    BY <1>6, NotifyStep DEF EndElection
  <2> QED  BY <1>6, <2>1, <2>2 DEF EndElection
<1>7. CASE HandleAnnouncement(n, id)
  <2>1. net' \in [Messages -> Nat]
    BY <1>0, <1>7, ReceiveAndSendStep DEF HandleAnnouncement
  <2> QED  BY <1>7, <2>1 DEF HandleAnnouncement
<1>8. CASE HandleReply(n, id)
  <2>1. net' \in [Messages -> Nat]
    BY <1>0, <1>8, ReceiveStep DEF HandleReply
  <2> QED  BY <1>8, <2>1 DEF HandleReply
<1>9. CASE HandleFailure(n, id)
  <2>1. net' \in [Messages -> Nat]
    BY <1>0, <1>9, ReceiveStep DEF HandleFailure
  <2> QED  BY <1>9, <2>1 DEF HandleFailure
<1> QED
  BY <1>1, <1>2, <1>3, <1>4, <1>5, <1>6, <1>7, <1>8, <1>9 DEF HandleDatagram

LEMMA FinishType ==
    ASSUME TypeOK, NEW n \in Servers, FinishHandler(n)
    PROVE  TypeOK'
<1> USE DEF TypeOK, local, threads, frontend, HandlerStates, Addresses
<1>1. CASE BecomeLeader(n)
  BY <1>1 DEF BecomeLeader
<1>2. CASE AnnounceVictory(n)
  <2>1. net' \in [Messages -> Nat]
    BY <1>2, SendStep DEF AnnounceVictory
  <2>2. le' \in [Addresses -> Nat]
    BY <1>2, NotifyStep DEF AnnounceVictory
  <2> QED  BY <1>2, <2>1, <2>2 DEF AnnounceVictory, Idle
<1>3. CASE StepDown(n)
  BY <1>3 DEF StepDown
<1>4. CASE RecordLeader(n)
  <2>1. net' \in [Messages -> Nat]
    BY <1>4, SendStep DEF RecordLeader
  <2> QED  BY <1>4, <2>1 DEF RecordLeader, Idle
<1> QED  BY <1>1, <1>2, <1>3, <1>4 DEF FinishHandler

(* The watch thread, a crash and the frontend keep the types. *)
LEMMA WatchType ==
    ASSUME TypeOK, NEW n \in Servers, Watch(n) \/ Crash(n)
    PROVE  TypeOK'
<1> USE DEF TypeOK, local, threads, frontend
<1>1. CASE NoticeCrash(n)
  <2>1. net' \in [Messages -> Nat]
    BY <1>1, SendStep DEF NoticeCrash
  <2> QED  BY <1>1, <2>1 DEF NoticeCrash, WatchStates
<1>2. CASE RestartElection(n)
  BY <1>2 DEF RestartElection, WatchStates
<1>3. CASE ResendCandidacy(n)
  <2>1. net' \in [Messages -> Nat]
    BY <1>3, SendStep DEF ResendCandidacy
  <2> QED  BY <1>3, <2>1 DEF ResendCandidacy, WatchStates
<1>4. CASE Crash(n)
  BY <1>4 DEF Crash, Idle, HandlerStates, WatchStates, MainStates, Addresses
<1> QED  BY <1>1, <1>2, <1>3, <1>4 DEF Watch

LEMMA TypeStep ==
    ASSUME TypeOK, [Next]_vars
    PROVE  TypeOK'
<1>1. ASSUME NEW n \in Servers,
             Boot(n) \/ Main(n) \/ FinishHandler(n) \/ Watch(n) \/ Crash(n)
      PROVE  TypeOK'
  BY <1>1, MainType, FinishType, WatchType
<1>2. ASSUME NEW n \in Servers, NEW id \in Servers, HandleDatagram(n, id)
      PROVE  TypeOK'
  BY <1>2, HandleType
<1>3. ASSUME NEW a \in Addresses, HandleLeader(a)
      PROVE  TypeOK'
  BY <1>3 DEF TypeOK, HandleLeader, local, threads
<1>4. ASSUME NEW m \in Messages, Lose(m)
      PROVE  TypeOK'
  <2>1. net' \in [Messages -> Nat]
    BY <1>4, ReceiveStep DEF Lose
  <2> QED  BY <1>4, <2>1 DEF TypeOK, Lose, local, threads, frontend
<1>5. CASE UNCHANGED vars
  BY <1>5 DEF TypeOK, vars, local, threads, frontend
<1> QED  BY <1>1, <1>2, <1>3, <1>4, <1>5 DEF Next

(* Every variable has values of its type in every reachable state.         *)
THEOREM TypeCorrect == Spec => []TypeOK
<1>1. Init => TypeOK
  BY FoundersAssumption
     DEF Init, TypeOK, Addresses, MainStates, WatchStates, HandlerStates, Idle
<1>2. TypeOK /\ [Next]_vars => TypeOK'
  BY TypeStep
<1> QED  BY <1>1, <1>2, PTL DEF Spec

-----------------------------------------------------------------------------
(* ElectedOutranksFounders.                                                *)

(* A server's rank only rises as servers crash, and claims are not undone. *)
LEMMA RankRises ==
    ASSUME up' \subseteq up, claimants \subseteq claimants'
    PROVE  \A id : /\ Outranks(id) => Outranks(id)'
                   /\ Deserving(id) => Deserving(id)'
BY DEF Outranks, Deserving

(* A candidate that is sent to the next server either climbs or outranks   *)
(* every server that is up.                                                *)
LEMMA CandidacyClimbs ==
    ASSUME TypeOK, ViewsAreComplete, NEW n \in up
    PROVE  Left(n) > n \/ Outranks(n)
<1>1. members[n] \in SUBSET Nat /\ n \in members[n]
  BY ServersAssumption DEF TypeOK, ViewsAreComplete
<1>2. Left(n) > n \/ \A k \in members[n] : k <= n
  BY <1>1, LeftNeighbourProperties DEF Left
<1> QED  BY <1>2 DEF Outranks, ViewsAreComplete

(* Only new datagrams can break DatagramsAreTrue.                          *)
LEMMA DatagramStep ==
    ASSUME IInv, NEW S, up' = up, claimants \subseteq claimants',
           \A k \in Messages : net'[k] > 0 => net[k] > 0 \/ (k \in S /\ k.to \in up),
           \A n, id \in Servers :
              /\ \A from \in Servers : FF(n, id, from) \in S => id \notin up
              /\ SE(n, id, FALSE) \in S => n > id \/ Outranks(id)
              /\ SE(n, id, TRUE) \in S => Deserving(id)
    PROVE  DatagramsAreTrue'
<1>1. \A id : (Outranks(id) => Outranks(id)') /\ (Deserving(id) => Deserving(id)')
  BY RankRises
<1>2. \A m \in Messages : InTransit(m)' => InTransit(m) \/ (m \in S /\ m.to \in up)
  BY DEF InTransit
<1>3. \A m \in Messages : InTransit(m)' => m.to \in up'
  BY <1>2 DEF IInv, DatagramsAreTrue
<1>4. ASSUME NEW n \in Servers, NEW id \in Servers
      PROVE  /\ \A from \in Servers : InTransit(FF(n, id, from))' => id \notin up'
             /\ InTransit(SE(n, id, FALSE))' => n > id \/ Outranks(id)'
             /\ InTransit(SE(n, id, TRUE))' => Deserving(id)'
  <2>1. \A e \in BOOLEAN, from \in Servers :
            SE(n, id, e) \in Messages /\ FF(n, id, from) \in Messages
    BY MessageTypes
  <2> QED  BY <1>1, <1>2, <2>1 DEF IInv, DatagramsAreTrue
<1> QED  BY <1>3, <1>4 DEF DatagramsAreTrue, InTransit, FF, SE

(* The datagrams are told apart. *)
LEMMA DistinctMessages ==
    \A n, id, p, q, d, e, f, g :
        /\ SE(n, id, d) = SE(p, q, e) <=> n = p /\ id = q /\ d = e
        /\ FF(n, id, f) = FF(p, q, g) <=> n = p /\ id = q /\ f = g
        /\ SE(n, id, d) # FF(p, q, f)
        /\ SE(n, id, d) # SA(p, q)
        /\ SE(n, id, d) # RP(p, q)
        /\ FF(n, id, f) # SA(p, q)
        /\ FF(n, id, f) # RP(p, q)
BY DEF SE, FF, SA, RP

(* An action that sends and receives nothing cannot break DatagramsAreTrue. *)
LEMMA NoDatagramStep ==
    ASSUME IInv, up' = up, claimants \subseteq claimants', net' = net
    PROVE  DatagramsAreTrue'
<1> DEFINE S == {}
<1>1. \A k \in Messages : net'[k] > 0 => net[k] > 0 \/ (k \in S /\ k.to \in up)
  OBVIOUS
<1>2. \A n, id \in Servers :
         /\ \A from \in Servers : FF(n, id, from) \in S => id \notin up
         /\ SE(n, id, FALSE) \in S => n > id \/ Outranks(id)
         /\ SE(n, id, TRUE) \in S => Deserving(id)
  OBVIOUS
<1> HIDE DEF S
<1> QED  BY <1>1, <1>2, DatagramStep, Zenon

(* What a server sends about itself or passes on keeps DatagramsAreTrue.   *)
LEMMA ElectionDatagramIsTrue ==
    ASSUME NEW to, NEW cand, NEW e \in BOOLEAN,
           ~e => to > cand \/ Outranks(cand),
           e => Deserving(cand)
    PROVE  \A p, id \in Servers :
              /\ \A from \in Servers : FF(p, id, from) \in {SE(to, cand, e)} => id \notin up
              /\ SE(p, id, FALSE) \in {SE(to, cand, e)} => p > id \/ Outranks(id)
              /\ SE(p, id, TRUE) \in {SE(to, cand, e)} => Deserving(id)
<1> SUFFICES ASSUME NEW p \in Servers, NEW id \in Servers
             PROVE  /\ \A from \in Servers : FF(p, id, from) # SE(to, cand, e)
                    /\ SE(p, id, FALSE) = SE(to, cand, e) => p > id \/ Outranks(id)
                    /\ SE(p, id, TRUE) = SE(to, cand, e) => Deserving(id)
  OBVIOUS
<1>1. \A from \in Servers : FF(p, id, from) # SE(to, cand, e)
  BY DEF SE, FF
<1>2. SE(p, id, FALSE) = SE(to, cand, e) => p = to /\ id = cand /\ ~e
  BY DEF SE
<1>3. SE(p, id, TRUE) = SE(to, cand, e) => p = to /\ id = cand /\ e
  BY DEF SE
<1> QED  BY <1>1, <1>2, <1>3

LEMMA MainKeepsIInv ==
    ASSUME IInv, NEW n \in Servers, Main(n)
    PROVE  IInv'
<1>0. TypeOK'
  BY MainType DEF IInv
<1> USE DEF IInv, local, threads, frontend
<1>1. CASE StartElection(n)
  <2> USE <1>1 DEF StartElection
  <2>1. DatagramsAreTrue'
    BY NoDatagramStep
  <2>2. DownIsSilent' /\ ViewsAreComplete'
    BY DEF DownIsSilent, ViewsAreComplete, TypeOK
  <2>3. WinnersDeserveIt'
    BY RankRises DEF WinnersDeserveIt, TypeOK
  <2> QED  BY <1>0, <2>1, <2>2, <2>3
<1>2. CASE SendCandidacy(n)
  <2> USE <1>2 DEF SendCandidacy
  <2>1. n \in up
    BY DEF DownIsSilent
  <2>2. Left(n) > n \/ Outranks(n)
    BY <2>1, CandidacyClimbs
  <2>3. DatagramsAreTrue'
    <3> DEFINE S == {SE(Left(n), n, isLeader[n])}
    <3>1. \A k \in Messages : net'[k] > 0 => net[k] > 0 \/ (k \in S /\ k.to \in up)
      BY SendStep
    <3>2. isLeader[n] \in BOOLEAN /\ (isLeader[n] => Deserving(n))
      BY DEF WinnersDeserveIt, TypeOK
    <3>3. \A p, id \in Servers :
             /\ \A from \in Servers : FF(p, id, from) \in S => id \notin up
             /\ SE(p, id, FALSE) \in S => p > id \/ Outranks(id)
             /\ SE(p, id, TRUE) \in S => Deserving(id)
      BY <2>2, <3>2, ElectionDatagramIsTrue
    <3> HIDE DEF S
    <3> QED  BY <3>1, <3>3, DatagramStep, Zenon
  <2>4. DownIsSilent' /\ ViewsAreComplete'
    BY <2>1 DEF DownIsSilent, ViewsAreComplete, TypeOK
  <2>5. WinnersDeserveIt'
    BY RankRises DEF WinnersDeserveIt, TypeOK
  <2> QED  BY <1>0, <2>3, <2>4, <2>5
<1>3. CASE StopWaiting(n)
  <2> USE <1>3 DEF StopWaiting
  <2>1. DatagramsAreTrue'
    BY NoDatagramStep
  <2>2. DownIsSilent' /\ ViewsAreComplete'
    BY DEF DownIsSilent, ViewsAreComplete, TypeOK
  <2>3. WinnersDeserveIt'
    BY RankRises DEF WinnersDeserveIt, TypeOK
  <2> QED  BY <1>0, <2>1, <2>2, <2>3
<1>4. CASE TimeOut(n)
  <2> USE <1>4 DEF TimeOut
  <2>1. DatagramsAreTrue'
    BY NoDatagramStep
  <2>2. DownIsSilent' /\ ViewsAreComplete'
    BY DEF DownIsSilent, ViewsAreComplete, TypeOK
  <2>3. WinnersDeserveIt'
    BY RankRises DEF WinnersDeserveIt, TypeOK
  <2> QED  BY <1>0, <2>1, <2>2, <2>3
<1>5. CASE ClaimElected(n)
  <2> USE <1>5 DEF ClaimElected
  <2>1. DatagramsAreTrue'
    BY NoDatagramStep
  <2>2. DownIsSilent' /\ ViewsAreComplete'
    BY DEF DownIsSilent, ViewsAreComplete, TypeOK
  <2>3. WinnersDeserveIt'
    BY RankRises DEF WinnersDeserveIt, Deserving, TypeOK
  <2> QED  BY <1>0, <2>1, <2>2, <2>3
<1>6. CASE ClaimLeadership(n)
  <2> USE <1>6 DEF ClaimLeadership
  <2>1. DatagramsAreTrue'
    BY NoDatagramStep
  <2>2. DownIsSilent' /\ ViewsAreComplete'
    BY DEF DownIsSilent, ViewsAreComplete, TypeOK
  <2>3. WinnersDeserveIt'
    BY RankRises DEF WinnersDeserveIt, Deserving, TypeOK
  <2> QED  BY <1>0, <2>1, <2>2, <2>3
<1>7. CASE ReportClaim(n)
  <2> USE <1>7 DEF ReportClaim
  <2>1. DatagramsAreTrue'
    BY NoDatagramStep
  <2>2. DownIsSilent' /\ ViewsAreComplete'
    BY DEF DownIsSilent, ViewsAreComplete, TypeOK
  <2>3. WinnersDeserveIt'
    BY RankRises DEF WinnersDeserveIt, TypeOK
  <2> QED  BY <1>0, <2>1, <2>2, <2>3
<1> QED  BY <1>1, <1>2, <1>3, <1>4, <1>5, <1>6, <1>7 DEF Main

(* The datagrams of an action, in the form DatagramStep takes them. *)
LEMMA OneDatagramStep ==
    ASSUME IInv, NEW to, NEW cand, NEW e \in BOOLEAN, up' = up, claimants' = claimants,
           \A k \in Messages :
              net'[k] > 0 => net[k] > 0 \/ (k \in {SE(to, cand, e)} /\ k.to \in up),
           ~e => to > cand \/ Outranks(cand),
           e => Deserving(cand)
    PROVE  DatagramsAreTrue'
<1> DEFINE S == {SE(to, cand, e)}
<1>1. \A k \in Messages : net'[k] > 0 => net[k] > 0 \/ (k \in S /\ k.to \in up)
  OBVIOUS
<1>2. \A p, id \in Servers :
         /\ \A from \in Servers : FF(p, id, from) \in S => id \notin up
         /\ SE(p, id, FALSE) \in S => p > id \/ Outranks(id)
         /\ SE(p, id, TRUE) \in S => Deserving(id)
  BY ElectionDatagramIsTrue
<1>3. claimants \subseteq claimants'
  OBVIOUS
<1> HIDE DEF S
<1> QED  BY <1>1, <1>2, <1>3, DatagramStep, Zenon

LEMMA RingDatagramStep ==
    ASSUME IInv, NEW S, up' = up, claimants' = claimants,
           \A k \in Messages : net'[k] > 0 => net[k] > 0 \/ (k \in S /\ k.to \in up),
           \A k \in S : k.type \in {"SA", "RP"} \/ (k.type = "FF" /\ k.id \notin up)
    PROVE  DatagramsAreTrue'
<1>1. \A p, id \in Servers :
         /\ \A from \in Servers : FF(p, id, from) \in S => id \notin up
         /\ SE(p, id, FALSE) \in S => p > id \/ Outranks(id)
         /\ SE(p, id, TRUE) \in S => Deserving(id)
  BY DEF FF, SE
<1>2. claimants \subseteq claimants'
  OBVIOUS
<1> QED  BY <1>1, <1>2, DatagramStep, Zenon

(* A datagram that was received changes nothing else in the network. *)
LEMMA FewerDatagramsStep ==
    ASSUME IInv, up' = up, claimants' = claimants,
           \A k \in Messages : net'[k] > 0 => net[k] > 0
    PROVE  DatagramsAreTrue'
<1>1. /\ \A k \in Messages : net'[k] > 0 => net[k] > 0 \/ (k \in {} /\ k.to \in up)
      /\ \A k \in {} : k.type \in {"SA", "RP"} \/ (k.type = "FF" /\ k.id \notin up)
  OBVIOUS
<1> DEFINE S == {}
<1>2. /\ \A k \in Messages : net'[k] > 0 => net[k] > 0 \/ (k \in S /\ k.to \in up)
      /\ \A k \in S : k.type \in {"SA", "RP"} \/ (k.type = "FF" /\ k.id \notin up)
  BY <1>1
<1> HIDE DEF S
<1> QED  BY <1>2, RingDatagramStep, Zenon

(* What DatagramsAreTrue says of a candidate in transit. *)
LEMMA CandidateInTransit ==
    ASSUME IInv, NEW n \in Servers, NEW id \in Servers, net[SE(n, id, FALSE)] > 0
    PROVE  /\ n \in up
           /\ n <= id => Outranks(id)
<1>1. InTransit(SE(n, id, FALSE)) /\ SE(n, id, FALSE) \in Messages /\ SE(n, id, FALSE).to = n
  BY MessageTypes DEF InTransit, SE
<1>2. n \in up /\ (n > id \/ Outranks(id))
  BY <1>1 DEF IInv, DatagramsAreTrue
<1>3. n \in Nat /\ id \in Nat
  BY ServersAssumption
<1>4. ~ (n <= id /\ n > id)
  BY <1>3
<1> QED  BY <1>2, <1>4

LEMMA HandleKeepsIInv ==
    ASSUME IInv, NEW n \in Servers, NEW id \in Servers, HandleDatagram(n, id)
    PROVE  IInv'
<1>0. TypeOK' /\ TypeOK
  BY HandleType DEF IInv
<1>a. /\ \A e \in BOOLEAN : SE(n, id, e) \in Messages /\ SE(n, id, e).to = n
      /\ SE(n, n, FALSE) \in Messages
      /\ SA(n, id) \in Messages
      /\ RP(n, id) \in Messages
      /\ \A from \in Servers : FF(n, id, from) \in Messages
  BY MessageTypes DEF SE
<1>b. n \in Nat /\ id \in Nat
  BY ServersAssumption
<1> USE DEF IInv, local, threads, frontend
<1>1. CASE ForwardCandidate(n, id)
  <2> USE <1>1 DEF ForwardCandidate
  <2>1. /\ net[SE(n, id, FALSE)] > 0
        /\ \A k \in Messages :
              net'[k] > 0 => net[k] > 0 \/ (k \in {SE(Left(n), id, FALSE)} /\ k.to \in up)
    BY <1>a, ReceiveAndSendStep
  <2>2. Outranks(id)
    <3>1. n <= id
      BY <1>b
    <3> QED  BY <2>1, <3>1, CandidateInTransit
  <2>3. DatagramsAreTrue'
    BY <2>1, <2>2, OneDatagramStep
  <2>4. DownIsSilent' /\ ViewsAreComplete'
    BY DEF DownIsSilent, ViewsAreComplete
  <2>5. WinnersDeserveIt'
    BY RankRises DEF WinnersDeserveIt
  <2> QED  BY <1>0, <2>3, <2>4, <2>5
<1>2. CASE ReplaceCandidate(n, id)
  <2> USE <1>2 DEF ReplaceCandidate
  <2>1. /\ net[SE(n, id, FALSE)] > 0
        /\ \A k \in Messages :
              net'[k] > 0 => net[k] > 0 \/ (k \in {SE(Left(n), n, FALSE)} /\ k.to \in up)
    BY <1>a, ReceiveAndSendStep
  <2>2. n \in up
    BY <1>a, <2>1 DEF DatagramsAreTrue, InTransit
  <2>3. Left(n) > n \/ Outranks(n)
    BY <2>2, CandidacyClimbs
  <2>4. DatagramsAreTrue'
    BY <2>1, <2>3, OneDatagramStep
  <2>5. DownIsSilent' /\ ViewsAreComplete'
    BY DEF DownIsSilent, ViewsAreComplete
  <2>6. WinnersDeserveIt'
    BY RankRises DEF WinnersDeserveIt
  <2> QED  BY <1>0, <2>4, <2>5, <2>6
<1>3. CASE DiscardCandidate(n, id)
  <2> USE <1>3 DEF DiscardCandidate
  <2>1. DatagramsAreTrue'
    BY <1>a, ReceiveStep, FewerDatagramsStep
  <2>2. DownIsSilent' /\ ViewsAreComplete'
    BY DEF DownIsSilent, ViewsAreComplete
  <2>3. WinnersDeserveIt'
    BY RankRises DEF WinnersDeserveIt
  <2> QED  BY <1>0, <2>1, <2>2, <2>3
<1>4. CASE WinElection(n)
  <2> USE <1>4 DEF WinElection
  <2>1. net[SE(n, n, FALSE)] > 0 /\ DatagramsAreTrue'
    BY <1>a, ReceiveStep, FewerDatagramsStep
  <2>2. Outranks(n) /\ n \in up
    <3>1. n <= n
      BY <1>b
    <3> QED  BY <2>1, <3>1, CandidateInTransit
  <2>3. DownIsSilent' /\ ViewsAreComplete'
    BY <2>2 DEF DownIsSilent, ViewsAreComplete, TypeOK
  <2>4. WinnersDeserveIt'
    BY <2>2, RankRises DEF WinnersDeserveIt, TypeOK
  <2> QED  BY <1>0, <2>1, <2>3, <2>4
<1>5. CASE AdoptLeader(n, id)
  <2> USE <1>5 DEF AdoptLeader
  <2>1. net[SE(n, id, TRUE)] > 0 /\ DatagramsAreTrue'
    BY <1>a, ReceiveStep, FewerDatagramsStep
  <2>2. Deserving(id) /\ n \in up
    BY <1>a, <2>1 DEF DatagramsAreTrue, InTransit
  <2>3. DownIsSilent' /\ ViewsAreComplete'
    BY <2>2 DEF DownIsSilent, ViewsAreComplete, TypeOK
  <2>4. WinnersDeserveIt'
    BY <2>2, RankRises DEF WinnersDeserveIt, TypeOK
  <2> QED  BY <1>0, <2>1, <2>3, <2>4
<1>6. CASE EndElection(n, id)
  <2> USE <1>6 DEF EndElection
  <2>1. DatagramsAreTrue'
    BY <1>a, ReceiveStep, FewerDatagramsStep
  <2>2. DownIsSilent' /\ ViewsAreComplete'
    BY DEF DownIsSilent, ViewsAreComplete
  <2>3. WinnersDeserveIt'
    BY RankRises DEF WinnersDeserveIt
  <2> QED  BY <1>0, <2>1, <2>2, <2>3
<1>7. CASE HandleAnnouncement(n, id)
  <2> USE <1>7 DEF HandleAnnouncement
  <2>1. \A k \in Messages :
           net'[k] > 0 => net[k] > 0 \/ (k \in {RP(id, n)} /\ k.to \in up)
    BY <1>a, ReceiveAndSendStep
  <2>2. \A k \in {RP(id, n)} :
           k.type \in {"SA", "RP"} \/ (k.type = "FF" /\ k.id \notin up)
    BY DEF RP
  <2>3. DatagramsAreTrue'
    BY <2>1, <2>2, RingDatagramStep
  <2>4. DownIsSilent' /\ ViewsAreComplete'
    BY <1>0 DEF DownIsSilent, ViewsAreComplete, TypeOK
  <2>5. WinnersDeserveIt'
    BY RankRises DEF WinnersDeserveIt
  <2> QED  BY <1>0, <2>3, <2>4, <2>5
<1>8. CASE HandleReply(n, id)
  <2> USE <1>8 DEF HandleReply
  <2>1. DatagramsAreTrue'
    BY <1>a, ReceiveStep, FewerDatagramsStep
  <2>2. DownIsSilent' /\ ViewsAreComplete'
    BY <1>0 DEF DownIsSilent, ViewsAreComplete, TypeOK
  <2>3. WinnersDeserveIt'
    BY RankRises DEF WinnersDeserveIt
  <2> QED  BY <1>0, <2>1, <2>2, <2>3
<1>9. CASE HandleFailure(n, id)
  <2> USE <1>9 DEF HandleFailure
  <2>1. (\E from \in Servers : net[FF(n, id, from)] > 0) /\ DatagramsAreTrue'
    BY <1>a, ReceiveStep, FewerDatagramsStep
  <2>2. id \notin up
    BY <2>1 DEF DatagramsAreTrue, InTransit
  <2>3. DownIsSilent' /\ ViewsAreComplete'
    BY <1>0, <2>2 DEF DownIsSilent, ViewsAreComplete, TypeOK
  <2>4. WinnersDeserveIt'
    BY RankRises DEF WinnersDeserveIt
  <2> QED  BY <1>0, <2>1, <2>3, <2>4
<1> QED
  BY <1>1, <1>2, <1>3, <1>4, <1>5, <1>6, <1>7, <1>8, <1>9 DEF HandleDatagram

LEMMA FinishKeepsIInv ==
    ASSUME IInv, NEW n \in Servers, FinishHandler(n)
    PROVE  IInv'
<1>0. TypeOK' /\ TypeOK
  BY FinishType DEF IInv
<1> USE DEF IInv, local, threads, frontend
<1>1. n \in up
  BY <1>0 DEF FinishHandler, BecomeLeader, AnnounceVictory, StepDown, RecordLeader,
              DownIsSilent, Idle
<1>2. CASE BecomeLeader(n)
  <2> USE <1>2 DEF BecomeLeader
  <2>1. DatagramsAreTrue'
    BY NoDatagramStep
  <2>2. DownIsSilent' /\ ViewsAreComplete'
    BY <1>0, <1>1 DEF DownIsSilent, ViewsAreComplete, TypeOK
  <2>3. WinnersDeserveIt'
    BY <1>0, RankRises DEF WinnersDeserveIt, Deserving, TypeOK, HandlerStates
  <2> QED  BY <1>0, <2>1, <2>2, <2>3
<1>3. CASE AnnounceVictory(n)
  <2> USE <1>3 DEF AnnounceVictory
  <2>1. Outranks(n) /\ Deserving(n)
    BY DEF WinnersDeserveIt, Deserving
  <2>2. \A k \in Messages :
           net'[k] > 0 => net[k] > 0 \/ (k \in {SE(Left(n), n, TRUE)} /\ k.to \in up)
    BY SendStep
  <2>3. DatagramsAreTrue'
    BY <2>1, <2>2, OneDatagramStep
  <2>4. DownIsSilent' /\ ViewsAreComplete'
    BY <1>0, <1>1 DEF DownIsSilent, ViewsAreComplete, TypeOK
  <2>5. WinnersDeserveIt'
    BY <1>0, <2>1, RankRises DEF WinnersDeserveIt, TypeOK, Idle
  <2> QED  BY <1>0, <2>3, <2>4, <2>5
<1>4. CASE StepDown(n)
  <2> USE <1>4 DEF StepDown
  <2>1. DatagramsAreTrue'
    BY NoDatagramStep
  <2>2. DownIsSilent' /\ ViewsAreComplete'
    BY <1>0, <1>1 DEF DownIsSilent, ViewsAreComplete, TypeOK
  <2>3. WinnersDeserveIt'
    BY <1>0, RankRises DEF WinnersDeserveIt, TypeOK, HandlerStates
  <2> QED  BY <1>0, <2>1, <2>2, <2>3
<1>5. CASE RecordLeader(n)
  <2> USE <1>5 DEF RecordLeader
  <2>1. Deserving(handler[n].id)
    BY DEF WinnersDeserveIt
  <2>2. \A k \in Messages :
           net'[k] > 0 =>
              net[k] > 0 \/ (k \in {SE(Left(n), handler[n].id, TRUE)} /\ k.to \in up)
    BY SendStep
  <2>3. DatagramsAreTrue'
    BY <2>1, <2>2, OneDatagramStep
  <2>4. DownIsSilent' /\ ViewsAreComplete'
    BY <1>0, <1>1 DEF DownIsSilent, ViewsAreComplete, TypeOK
  <2>5. WinnersDeserveIt'
    BY <1>0, <2>1, RankRises DEF WinnersDeserveIt, TypeOK, Idle
  <2> QED  BY <1>0, <2>3, <2>4, <2>5
<1> QED  BY <1>2, <1>3, <1>4, <1>5 DEF FinishHandler

LEMMA WatchKeepsIInv ==
    ASSUME IInv, NEW n \in Servers, Watch(n)
    PROVE  IInv'
<1>0. TypeOK' /\ TypeOK
  BY WatchType DEF IInv
<1> USE DEF IInv, local, threads, frontend
<1>1. n \in up
  BY <1>0 DEF Watch, NoticeCrash, RestartElection, ResendCandidacy, DownIsSilent
<1>2. CASE NoticeCrash(n)
  <2> USE <1>2 DEF NoticeCrash
  <2> DEFINE failed == RightNeighbour(members[n], n)
             S == {FF(p, failed, n) : p \in Others(n)}
                     \cup {SA(p, n) : p \in {q \in Others(n) : failed = elected_leader[n]}}
  <2>1. failed \in Servers \ up
    OBVIOUS
  <2>2. \A k \in Messages : net'[k] > 0 => net[k] > 0 \/ (k \in S /\ k.to \in up)
    BY SendStep
  <2>3. \A k \in S : k.type \in {"SA", "RP"} \/ (k.type = "FF" /\ k.id \notin up)
    BY <2>1 DEF FF, SA
  <2>4. DatagramsAreTrue'
    <3> HIDE DEF S, failed
    <3> QED  BY <2>2, <2>3, RingDatagramStep
  <2>5. DownIsSilent' /\ ViewsAreComplete'
    BY <1>0, <1>1, <2>1 DEF DownIsSilent, ViewsAreComplete, TypeOK
  <2>6. WinnersDeserveIt'
    BY RankRises DEF WinnersDeserveIt
  <2> QED  BY <1>0, <2>4, <2>5, <2>6
<1>3. CASE RestartElection(n)
  <2> USE <1>3 DEF RestartElection
  <2>1. DatagramsAreTrue'
    BY NoDatagramStep
  <2>2. DownIsSilent' /\ ViewsAreComplete'
    BY <1>0, <1>1 DEF DownIsSilent, ViewsAreComplete, TypeOK
  <2>3. WinnersDeserveIt'
    BY RankRises DEF WinnersDeserveIt
  <2> QED  BY <1>0, <2>1, <2>2, <2>3
<1>4. CASE ResendCandidacy(n)
  <2> USE <1>4 DEF ResendCandidacy
  <2>1. Left(n) > n \/ Outranks(n)
    BY <1>1, CandidacyClimbs
  <2>2. isLeader[n] \in BOOLEAN /\ (isLeader[n] => Deserving(n))
    BY DEF WinnersDeserveIt, TypeOK
  <2>3. \A k \in Messages :
           net'[k] > 0 => net[k] > 0 \/ (k \in {SE(Left(n), n, isLeader[n])} /\ k.to \in up)
    BY SendStep
  <2>4. DatagramsAreTrue'
    BY <2>1, <2>2, <2>3, OneDatagramStep
  <2>5. DownIsSilent' /\ ViewsAreComplete'
    BY <1>0, <1>1 DEF DownIsSilent, ViewsAreComplete, TypeOK
  <2>6. WinnersDeserveIt'
    BY RankRises DEF WinnersDeserveIt
  <2> QED  BY <1>0, <2>4, <2>5, <2>6
<1> QED  BY <1>2, <1>3, <1>4 DEF Watch

LEMMA CrashKeepsIInv ==
    ASSUME IInv, NEW n \in Servers, Crash(n)
    PROVE  IInv'
<1>0. TypeOK' /\ TypeOK
  BY WatchType DEF IInv
<1> USE DEF IInv, local, threads, frontend, Crash
<1>1. \A id : (Outranks(id) => Outranks(id)') /\ (Deserving(id) => Deserving(id)')
  BY RankRises
<1>2. DatagramsAreTrue'
  <2>1. \A m \in Messages : InTransit(m)' => InTransit(m) /\ m.to # n
    BY DEF InTransit
  <2>2. \A m \in Messages : InTransit(m)' => m.to \in up'
    BY <2>1 DEF DatagramsAreTrue
  <2>3. ASSUME NEW p \in Servers, NEW id \in Servers
        PROVE  /\ \A from \in Servers : InTransit(FF(p, id, from))' => id \notin up'
               /\ InTransit(SE(p, id, FALSE))' => p > id \/ Outranks(id)'
               /\ InTransit(SE(p, id, TRUE))' => Deserving(id)'
    <3>1. \A e \in BOOLEAN, from \in Servers :
                SE(p, id, e) \in Messages /\ FF(p, id, from) \in Messages
      BY MessageTypes
    <3> QED  BY <1>1, <2>1, <3>1 DEF DatagramsAreTrue
  <2> QED  BY <2>2, <2>3 DEF DatagramsAreTrue, InTransit, FF, SE
<1>3. DownIsSilent' /\ ViewsAreComplete'
  BY <1>0 DEF DownIsSilent, ViewsAreComplete, TypeOK, Idle
<1>4. WinnersDeserveIt'
  BY <1>0, <1>1 DEF WinnersDeserveIt, TypeOK, Idle
<1> QED  BY <1>0, <1>2, <1>3, <1>4

LEMMA EnvironmentKeepsIInv ==
    ASSUME IInv,
           (\E a \in Addresses : HandleLeader(a)) \/ (\E m \in Messages : Lose(m)) \/ UNCHANGED vars,
           TypeOK'
    PROVE  IInv'
<1> USE DEF IInv, local, threads, frontend, vars
<1>1. DatagramsAreTrue'
  <2>1. CASE UNCHANGED vars \/ \E a \in Addresses : HandleLeader(a)
    BY <2>1, NoDatagramStep DEF HandleLeader
  <2>2. CASE \E m \in Messages : Lose(m)
    BY <2>2, ReceiveStep, FewerDatagramsStep DEF Lose
  <2> QED  BY <2>1, <2>2
<1>2. UNCHANGED <<up, members, local, threads, claimants>>
  BY DEF HandleLeader, Lose
<1>3. DownIsSilent' /\ ViewsAreComplete'
  BY <1>2 DEF DownIsSilent, ViewsAreComplete
<1>4. WinnersDeserveIt'
  BY <1>2, RankRises DEF WinnersDeserveIt
<1> QED  BY <1>1, <1>3, <1>4

(* The inductive invariant of a ring that no server joins.                 *)
THEOREM InductiveInvariant == Founders = Servers => (Spec => []IInv)
<1>1. Founders = Servers => (Init => IInv)
  <2> SUFFICES ASSUME Founders = Servers, Init
               PROVE  IInv
    OBVIOUS
  <2>1. TypeOK
    BY DEF Init, TypeOK, Addresses, MainStates, WatchStates, HandlerStates, Idle
  <2>2. DownIsSilent /\ ViewsAreComplete
    BY DEF Init, DownIsSilent, ViewsAreComplete
  <2>3. DatagramsAreTrue
    <3>1. \A m \in Messages : ~InTransit(m)
      BY DEF Init, InTransit
    <3> QED  BY <3>1, MessageTypes DEF DatagramsAreTrue
  <2>4. WinnersDeserveIt
    BY DEF Init, WinnersDeserveIt, Idle
  <2> QED  BY <2>1, <2>2, <2>3, <2>4 DEF IInv
<1>2. IInv /\ [Next]_vars => IInv'
  <2> SUFFICES ASSUME IInv, [Next]_vars
               PROVE  IInv'
    OBVIOUS
  <2>1. ASSUME NEW n \in Servers, Boot(n)
        PROVE  FALSE
    BY <2>1 DEF Boot, IInv, ViewsAreComplete
  <2>2. ASSUME NEW n \in Servers, Main(n) \/ FinishHandler(n) \/ Watch(n) \/ Crash(n)
        PROVE  IInv'
    BY <2>2, MainKeepsIInv, FinishKeepsIInv, WatchKeepsIInv, CrashKeepsIInv
  <2>3. ASSUME NEW n \in Servers, NEW id \in Servers, HandleDatagram(n, id)
        PROVE  IInv'
    BY <2>3, HandleKeepsIInv
  <2>4. CASE (\E a \in Addresses : HandleLeader(a)) \/ (\E m \in Messages : Lose(m))
               \/ UNCHANGED vars
    BY <2>4, TypeStep, EnvironmentKeepsIInv DEF IInv
  <2> QED  BY <2>1, <2>2, <2>3, <2>4 DEF Next
<1> QED  BY <1>1, <1>2, PTL DEF Spec

(* No server of a ring that no server joins leads, or is on record as the  *)
(* leader, while one with a higher address is up, unless it made itself    *)
(* leader on a timeout.                                                    *)
THEOREM OnlyHighestIsElected == Founders = Servers => (Spec => []ElectedOutranksFounders)
<1>1. IInv => ElectedOutranksFounders
  BY DEF IInv, WinnersDeserveIt, Deserving, ElectedOutranksFounders, TypeOK
<1> QED  BY <1>1, InductiveInvariant, PTL

=============================================================================
