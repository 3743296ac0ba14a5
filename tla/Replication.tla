----------------------------- MODULE Replication ----------------------------
(***************************************************************************)
(* Replication of the quotes: the reliable multicast of the backend        *)
(* servers (ReliableSocketWorker in utils/reliable_socket_sender.py) with  *)
(* its two users, the ContentProvider, which multicasts what it publishes  *)
(* and stores what is delivered, and the Database.  Threads of a server:   *)
(* those that call multicast, the one that receives datagrams, and the one *)
(* that forgets acknowledged messages.  The discovery thread adds a server *)
(* to the ring when that is heard of, and removes one that is taken for    *)
(* crashed, rightly or not.                                                *)
(*                                                                         *)
(* Datagrams are unordered; at most MaxLost are lost and MaxCopied         *)
(* delivered twice.  Of a vector timestamp only the entry of the sender is *)
(* ever looked at, so only that is kept.  The queue in which datagrams     *)
(* wait for the sending thread is part of the network.                     *)
(***************************************************************************)
EXTENDS DatabaseOps, FiniteSets

CONSTANTS
    Servers,      \* the backend servers
    FirstMembers, \* Ring.members of the servers that are up at the start
    Content,      \* the quotes (CO) and replies to quotes (CR) to publish
    Threads,      \* the threads of a server that call multicast
    Candidates,   \* the servers that may be elected
    Mortal,       \* the servers that may crash
    MaxLost,      \* bound on the number of datagrams lost
    MaxCopied,    \* bound on the number of datagrams delivered twice
    MaxDoubted,   \* bound on the number of pairs in doubted
    Latest        \* how many entries a new server is sent

VARIABLES
    up,                  \* the servers that run
    members,             \* Ring.members of each server: a list
    isLeader,            \* Election.isLeader
    asked,               \* the servers whose ContentProvider was constructed
    calls,               \* where each thread is in multicast
    message_id_counter,
    my_timestamp,        \* how many messages of each server came, in one's own count
    has_received,        \* [from, id] of messages
    has_acknowledged,    \* [from, id] of acknowledgements
    unack_messages,      \* [to, id, item] that wait for an acknowledgement
    holdback_queue,      \* [from, v, item], in order of arrival
    receiver,            \* the receiving thread: where it is, its removed_messages and
                         \* the entries it still has to send to a new server
    database,
    shown,               \* what each server sent to its clients
    net,                 \* datagrams in flight
    lost, copied,        \* how many datagrams were lost or delivered twice
    issued,              \* history: what each server multicast, in order
    delivered,           \* history: what each server delivered, in order
    past,                \* history: what the sender of an item had delivered before
    doubted              \* history: <<n, p>> when n has removed p from its ring

process == <<members, isLeader, asked>>
sender  == <<calls, message_id_counter, shown>>
socket  == <<my_timestamp, has_received, has_acknowledged, unack_messages, holdback_queue>>
network == <<net, lost, copied>>
history == <<issued, delivered, past, doubted>>
vars == <<up, process, sender, socket, receiver, database, network, history>>

-----------------------------------------------------------------------------
Introduction(n) == [type |-> "AA", id |-> n]
Items == Content \cup {Introduction(n) : n \in Servers}

ASSUME ContentAssumption == \A item \in Content : item.type \in {"CO", "CR"}
ASSUME ServersAssumption == IsFiniteSet(Servers)
ASSUME BoundsAssumption ==
    MaxLost \in Nat /\ MaxCopied \in Nat /\ MaxDoubted \in Nat /\ Latest \in Nat

Elements(list) == {list[i] : i \in DOMAIN list}

ASSUME MembersAssumption ==
    /\ DOMAIN FirstMembers \subseteq Servers
    /\ \A n \in DOMAIN FirstMembers :
          FirstMembers[n] \in Seq(Servers) /\ n \in Elements(FirstMembers[n])

\* What a list has at the given places, in the same order.
Place(places, k) == CHOOSE i \in places : Cardinality({j \in places : j <= i}) = k
Picked(list, places) == [k \in 1..Cardinality(places) |-> list[Place(places, k)]]

\* Two identical datagrams in flight count once: to the second the receiver would
\* only say again what it said to the first.
Message(from, to, id, v, item) ==
    [type |-> "message", from |-> from, to |-> to, id |-> id, v |-> v, item |-> item, copy |-> 0]
Ack(from, to, id, v) ==
    [type |-> "ack", from |-> from, to |-> to, id |-> id, v |-> v, copy |-> 0]

\* A datagram to a server that is not up is gone.
Sent(datagrams) == {m \in datagrams : m.to \in up}

\* What a datagram of a server carries that keeps no count of itself.
NoCount == -1
Stamp(n) == IF n \in DOMAIN my_timestamp[n] THEN my_timestamp[n][n] ELSE NoCount

NoCall    == [pc |-> "none"]
Listening == [pc |-> "listen", batch |-> <<>>, answers |-> <<>>]

Init ==
    LET founders == DOMAIN FirstMembers
    IN  /\ up = founders
        /\ members = [n \in Servers |-> IF n \in founders THEN FirstMembers[n] ELSE <<>>]
        /\ isLeader = [n \in Servers |-> FALSE]
        /\ asked = {}
        /\ calls = [n \in Servers |-> [t \in Threads |-> NoCall]]
        /\ message_id_counter = [n \in Servers |-> 0]
        /\ my_timestamp = [n \in Servers |-> [s \in {n} |-> 0]]
        /\ has_received = [n \in Servers |-> {}]
        /\ has_acknowledged = [n \in Servers |-> {}]
        /\ unack_messages = [n \in Servers |-> {}]
        /\ holdback_queue = [n \in Servers |-> <<>>]
        /\ receiver = [n \in Servers |-> Listening]
        /\ database = [n \in Servers |-> <<>>]
        /\ shown = [n \in Servers |-> {}]
        /\ net = {}
        /\ lost = 0
        /\ copied = 0
        /\ issued = [n \in Servers |-> <<>>]
        /\ delivered = [n \in Servers |-> <<>>]
        /\ past = [item \in Items |-> {}]
        /\ doubted = {}

-----------------------------------------------------------------------------
(* multicast: one unicast_send after the other to the members, in the list *)
(* as it is by then; then the counter is read and written back, and        *)
(* content is sent to the clients.                                         *)

StartCall(n, t, item) ==
    /\ calls[n][t] = NoCall
    /\ calls' = [calls EXCEPT ![n][t] =
                    [pc |-> "send", item |-> item, next |-> 1, sent |-> {}]]
    /\ issued' = [issued EXCEPT ![n] = Append(@, item)]
    /\ past' = [past EXCEPT ![item] = Elements(delivered[n])]

\* The ContentProvider is constructed.
AskForDatabase(n, t) ==
    /\ n \in up \ asked
    /\ asked' = asked \cup {n}
    /\ StartCall(n, t, Introduction(n))
    /\ UNCHANGED <<up, members, isLeader, message_id_counter, shown, socket, receiver,
                   database, network, delivered, doubted>>

\* A quote of the content provider or of a client, each once and with a new
\* id, or a reply of a client to a quote that it was shown.  Clients may still
\* be connected to a server that does not lead any more: Elect takes the lead
\* back right after such a message.
Publish(n, t, item) ==
    /\ n \in up \cap asked
    /\ isLeader[n]
    /\ \A s \in Servers : item \notin Elements(issued[s])
    /\ item.type = "CR" =>
          \E s \in Servers : \E quote \in shown[s] : quote.type = "CO" /\ quote.id = item.id
    /\ StartCall(n, t, item)
    /\ UNCHANGED <<up, process, message_id_counter, shown, socket, receiver, database,
                   network, delivered, doubted>>

SendNext(n, t) ==
    LET call == calls[n][t]
        to   == members[n][call.next]
        id   == message_id_counter[n]
    IN  /\ call.pc = "send"
        /\ call.next <= Len(members[n])
        /\ net' = net \cup Sent({Message(n, to, id, Stamp(n), call.item)})
        /\ unack_messages' = [unack_messages EXCEPT ![n] =
                                 @ \cup {[to |-> to, id |-> id, item |-> call.item]}]
        /\ calls' = [calls EXCEPT ![n][t].next = @ + 1, ![n][t].sent = @ \cup {to}]
        /\ UNCHANGED <<up, process, message_id_counter, shown, my_timestamp, has_received,
                       has_acknowledged, holdback_queue, receiver, database, lost, copied,
                       history>>

\* Mutant of ReadCounter: the counter stays as it is.
SkipCounter(n, t) ==
    LET call == calls[n][t]
    IN  /\ call.pc = "send"
        /\ call.next > Len(members[n])
        /\ calls' = [calls EXCEPT ![n][t] =
                        [pc |-> "count", item |-> call.item, read |-> message_id_counter[n] - 1]]
        /\ UNCHANGED <<up, process, message_id_counter, shown, socket, receiver, database,
                       network, history>>

ReadCounter(n, t) ==
    LET call == calls[n][t]
    IN  /\ call.pc = "send"
        /\ call.next > Len(members[n])
        /\ calls' = [calls EXCEPT ![n][t] =
                        [pc |-> "count", item |-> call.item, read |-> message_id_counter[n]]]
        /\ UNCHANGED <<up, process, message_id_counter, shown, socket, receiver, database,
                       network, history>>

FinishCall(n, t) ==
    LET call == calls[n][t]
    IN  /\ call.pc = "count"
        /\ message_id_counter' = [message_id_counter EXCEPT ![n] = call.read + 1]
        /\ shown' = IF call.item \in Content
                    THEN [shown EXCEPT ![n] = @ \cup {call.item}]
                    ELSE shown
        /\ calls' = [calls EXCEPT ![n][t] = NoCall]
        /\ UNCHANGED <<up, process, socket, receiver, database, network, history>>

Call(n, t) == SendNext(n, t) \/ ReadCounter(n, t) \/ FinishCall(n, t)

-----------------------------------------------------------------------------
(* The receiving thread.                                                   *)

\* A sender that is new is taken at its own count; then all but the members
\* are forgotten, the server itself too when it is not in its ring any more.
Refreshed(n, m) ==
    [s \in (DOMAIN my_timestamp[n] \cup {m.from}) \cap Elements(members[n]) |->
        IF s \in DOMAIN my_timestamp[n] THEN my_timestamp[n][s] ELSE m.v]

Incoming(n, m) ==
    /\ receiver[n] = Listening
    /\ m \in net
    /\ m.to = n

Unstamped(n, m) == m.from \notin DOMAIN my_timestamp[n] /\ m.v = NoCount

Arrives(n, m) ==
    /\ Incoming(n, m)
    /\ ~Unstamped(n, m)
    /\ my_timestamp' = [my_timestamp EXCEPT ![n] = Refreshed(n, m)]

ReceiveAck(n, m) ==
    /\ Arrives(n, m)
    /\ m.type = "ack"
    /\ net' = net \ {m}
    /\ has_acknowledged' = [has_acknowledged EXCEPT ![n] = @ \cup {[from |-> m.from, id |-> m.id]}]
    /\ UNCHANGED <<up, process, sender, has_received, unack_messages, holdback_queue,
                   receiver, database, lost, copied, history>>

Answered(n, m) == (net \ {m}) \cup Sent({Ack(n, m.from, m.id, Stamp(n)')})

\* A message seen before is acknowledged again, and no more.
ReceiveAgain(n, m) ==
    /\ Arrives(n, m)
    /\ m.type = "message"
    /\ [from |-> m.from, id |-> m.id] \in has_received[n]
    /\ net' = Answered(n, m)
    /\ UNCHANGED <<up, process, sender, has_received, has_acknowledged, unack_messages,
                   holdback_queue, receiver, database, lost, copied, history>>

ReceiveNew(n, m) ==
    /\ Arrives(n, m)
    /\ m.type = "message"
    /\ [from |-> m.from, id |-> m.id] \notin has_received[n]
    /\ net' = Answered(n, m)
    /\ has_received' = [has_received EXCEPT ![n] = @ \cup {[from |-> m.from, id |-> m.id]}]
    /\ holdback_queue' = [holdback_queue EXCEPT ![n] =
                             Append(@, [from |-> m.from, v |-> m.v, item |-> m.item])]
    /\ receiver' = [receiver EXCEPT ![n].pc = "scan"]
    /\ UNCHANGED <<up, process, sender, has_acknowledged, unack_messages, database,
                   lost, copied, history>>

Receive(n, m) == ReceiveAck(n, m) \/ ReceiveAgain(n, m) \/ ReceiveNew(n, m)

\* KeyError, which nobody catches: for the count of a new sender that keeps none;
\* for the sender of a held message, or of one to be delivered, that is not a
\* member.
LookupFails(n) ==
    LET unknown(s) == s \notin DOMAIN my_timestamp[n]
    IN  \/ \E m \in net : Incoming(n, m) /\ Unstamped(n, m)
        \/ /\ receiver[n].pc = "scan"
           /\ \E e \in Elements(holdback_queue[n]) : e.v # NoCount /\ unknown(e.from)
        \/ receiver[n].pc = "deliver" /\ unknown(Head(receiver[n].batch).from)

\* The thread is over.
ThreadDies(n) ==
    /\ LookupFails(n)
    /\ receiver' = [receiver EXCEPT ![n].pc = "dead"]
    /\ UNCHANGED <<up, process, sender, socket, database, network, history>>

\* Mutant of Scan: a message that is ahead of its turn is due.
ScanEager(n) ==
    LET queue == holdback_queue[n]
        due   == {i \in DOMAIN queue : \/ queue[i].v = NoCount
                                       \/ queue[i].v >= my_timestamp[n][queue[i].from]}
    IN  /\ receiver[n].pc = "scan"
        /\ ~LookupFails(n)
        /\ holdback_queue' = [holdback_queue EXCEPT ![n] = Picked(queue, DOMAIN queue \ due)]
        /\ receiver' = [receiver EXCEPT ![n] =
                           IF due = {} THEN Listening
                           ELSE [pc |-> "deliver", batch |-> Picked(queue, due),
                                 answers |-> <<>>]]
        /\ UNCHANGED <<up, process, sender, my_timestamp, has_received, has_acknowledged,
                       unack_messages, database, network, history>>

\* One round of update_holdback_queue_casual: the messages that are due are
\* taken out, all against the same timestamps, then delivered one by one.  One
\* without a count is always due.
Scan(n) ==
    LET queue == holdback_queue[n]
        due   == {i \in DOMAIN queue : \/ queue[i].v = NoCount
                                       \/ queue[i].v = my_timestamp[n][queue[i].from]}
    IN  /\ receiver[n].pc = "scan"
        /\ ~LookupFails(n)
        /\ holdback_queue' = [holdback_queue EXCEPT ![n] = Picked(queue, DOMAIN queue \ due)]
        /\ receiver' = [receiver EXCEPT ![n] =
                           IF due = {} THEN Listening
                           ELSE [pc |-> "deliver", batch |-> Picked(queue, due),
                                 answers |-> <<>>]]
        /\ UNCHANGED <<up, process, sender, my_timestamp, has_received, has_acknowledged,
                       unack_messages, database, network, history>>

\* Where the thread is when a message of the batch is dealt with.
Onward(batch) ==
    [pc |-> IF Tail(batch) = <<>> THEN "scan" ELSE "deliver", batch |-> Tail(batch),
     answers |-> <<>>]

Delivering(n) ==
    LET e == Head(receiver[n].batch)
    IN  /\ receiver[n].pc = "deliver"
        /\ ~LookupFails(n)
        /\ my_timestamp' = [my_timestamp EXCEPT ![n][e.from] = @ + 1]
        /\ delivered' = [delivered EXCEPT ![n] = Append(@, [from |-> e.from, item |-> e.item])]

\* Before the ContentProvider is constructed nobody looks at what is delivered.
Discard(n) ==
    /\ Delivering(n)
    /\ n \notin asked
    /\ receiver' = [receiver EXCEPT ![n] = Onward(@.batch)]
    /\ UNCHANGED <<up, process, sender, has_received, has_acknowledged, unack_messages,
                   holdback_queue, database, network, issued, past, doubted>>

Asks(n) == Head(receiver[n].batch).item.type = "AA" /\ isLeader[n]

\* multicast_delivered at the leader: a new server is sent the latest entries.
AnswerNewServer(n) ==
    LET latest == Recent(database[n], Latest)
    IN  /\ Delivering(n)
        /\ n \in asked /\ Asks(n)
        /\ receiver' = [receiver EXCEPT ![n] =
                           IF latest = <<>> THEN Onward(@.batch)
                           ELSE [@ EXCEPT !.pc = "answer", !.answers = latest]]
        /\ UNCHANGED <<up, process, sender, has_received, has_acknowledged, unack_messages,
                       holdback_queue, database, network, issued, past, doubted>>


\* All with the same timestamp, and with the message id of the next multicast.
SendAnswer(n) ==
    LET to   == Head(receiver[n].batch).from
        id   == message_id_counter[n]
        item == Head(receiver[n].answers)
        rest == Tail(receiver[n].answers)
    IN  /\ receiver[n].pc = "answer"
        /\ net' = net \cup Sent({Message(n, to, id, Stamp(n), item)})
        /\ unack_messages' = [unack_messages EXCEPT ![n] =
                                 @ \cup {[to |-> to, id |-> id, item |-> item]}]
        /\ receiver' = [receiver EXCEPT ![n] =
                           IF rest = <<>> THEN Onward(@.batch) ELSE [@ EXCEPT !.answers = rest]]
        /\ UNCHANGED <<up, process, sender, my_timestamp, has_received, has_acknowledged,
                       holdback_queue, database, lost, copied, history>>

\* Everything else is stored, an AA message too.
Store(n) ==
    /\ Delivering(n)
    /\ n \in asked /\ ~Asks(n)
    /\ receiver' = [receiver EXCEPT ![n] = Onward(@.batch)]
    /\ database' = [database EXCEPT ![n] = Insert(@, Head(receiver[n].batch).item)]
    /\ UNCHANGED <<up, process, sender, has_received, has_acknowledged, unack_messages,
                   holdback_queue, network, issued, past, doubted>>

Work(n) == \/ ThreadDies(n) \/ Scan(n) \/ Discard(n)
           \/ AnswerNewServer(n) \/ SendAnswer(n) \/ Store(n)

\* Mutant of ForgetAcknowledged: an acknowledgement counts for all destinations.
ForgetForAll(n) ==
    LET pending == {u \in unack_messages[n] : \A a \in has_acknowledged[n] : a.id # u.id}
    IN  /\ n \in up
        /\ pending # unack_messages[n]
        /\ unack_messages' = [unack_messages EXCEPT ![n] = pending]
        /\ UNCHANGED <<up, process, sender, my_timestamp, has_received, has_acknowledged,
                       holdback_queue, receiver, database, network, history>>

\* ack_handler: what was acknowledged is forgotten; nothing is sent again.
ForgetAcknowledged(n) ==
    LET pending == {u \in unack_messages[n] : [from |-> u.to, id |-> u.id] \notin has_acknowledged[n]}
    IN  /\ n \in up
        /\ pending # unack_messages[n]
        /\ unack_messages' = [unack_messages EXCEPT ![n] = pending]
        /\ UNCHANGED <<up, process, sender, my_timestamp, has_received, has_acknowledged,
                       holdback_queue, receiver, database, network, history>>

-----------------------------------------------------------------------------
(* The ring, the election and what goes wrong.                             *)

\* A new process: it and the others find each other (announce_service).
Boot(n) ==
    /\ n \notin up /\ receiver[n].pc # "dead"
    /\ up' = up \cup {n}
    /\ \E others \in [1..Cardinality(up) -> up] :
          /\ Elements(others) = up
          /\ members' = [p \in Servers |->
                 IF p = n THEN <<n>> \o others
                 ELSE IF p \in up /\ n \notin Elements(members[p]) THEN Append(members[p], n)
                 ELSE members[p]]
    /\ UNCHANGED <<isLeader, asked, sender, socket, receiver, database, network, history>>

\* A process that is started again at the same address (not part of Next): all
\* that it knew is gone, the others know it still or find it again.
Restart(n) ==
    /\ n \notin up /\ receiver[n].pc = "dead"
    /\ up' = up \cup {n}
    /\ \E others \in [1..Cardinality(up) -> up] :
          /\ Elements(others) = up
          /\ members' = [p \in Servers |->
                 IF p = n THEN <<n>> \o others
                 ELSE IF p \in up /\ n \notin Elements(members[p]) THEN Append(members[p], n)
                 ELSE members[p]]
    /\ asked' = asked \ {n}
    /\ message_id_counter' = [message_id_counter EXCEPT ![n] = 0]
    /\ my_timestamp' = [my_timestamp EXCEPT ![n] = [s \in {n} |-> 0]]
    /\ has_received' = [has_received EXCEPT ![n] = {}]
    /\ has_acknowledged' = [has_acknowledged EXCEPT ![n] = {}]
    /\ unack_messages' = [unack_messages EXCEPT ![n] = {}]
    /\ holdback_queue' = [holdback_queue EXCEPT ![n] = <<>>]
    /\ receiver' = [receiver EXCEPT ![n] = Listening]
    /\ database' = [database EXCEPT ![n] = <<>>]
    /\ shown' = [shown EXCEPT ![n] = {}]
    /\ delivered' = [delivered EXCEPT ![n] = <<>>]
    /\ UNCHANGED <<isLeader, calls, network, issued, past, doubted>>

\* remove_host: no heartbeat in time, or an FF message of another server.  Not
\* only crashed servers: an FF message may be wrong, and who is alone in the ring
\* removes itself.
RemoveHost(n, p) ==
    /\ n \in up
    /\ p \in Elements(members[n])
    /\ p = n => Elements(members[n]) = {n}
    /\ doubted' = doubted \cup {<<n, p>>}
    /\ Cardinality(doubted') <= MaxDoubted
    /\ members' = [members EXCEPT ![n] = RemoveFirst(@, p)]
    /\ UNCHANGED <<up, isLeader, asked, sender, socket, receiver, database, network,
                   issued, delivered, past>>

\* add_host: an SA or RP message of a server that was removed, even a late one
\* of a server that has crashed since.
AddHost(n, p) ==
    /\ n \in up
    /\ p # n /\ <<n, p>> \in doubted
    /\ p \notin Elements(members[n])
    /\ members' = [members EXCEPT ![n] = Append(@, p)]
    /\ UNCHANGED <<up, isLeader, asked, sender, socket, receiver, database, network, history>>

\* The election makes a server the leader or takes that back, at any time;
\* there may be two leaders for a while.
Elect(n) ==
    /\ n \in up \cap Candidates
    /\ isLeader' = [isLeader EXCEPT ![n] = ~@]
    /\ UNCHANGED <<up, members, asked, sender, socket, receiver, database, network, history>>

\* What happens to the state of a process that is gone matters to nobody.
Crash(n) ==
    /\ n \in Mortal \cap up
    /\ up' = up \ {n}
    /\ isLeader' = [isLeader EXCEPT ![n] = FALSE]
    /\ calls' = [calls EXCEPT ![n] = [t \in Threads |-> NoCall]]
    /\ receiver' = [receiver EXCEPT ![n] = [Listening EXCEPT !.pc = "dead"]]
    /\ net' = {m \in net : m.to # n}
    /\ UNCHANGED <<members, asked, message_id_counter, shown, socket, database, lost, copied,
                   history>>

Lose(m) ==
    /\ m \in net
    /\ lost < MaxLost
    /\ net' = net \ {m}
    /\ lost' = lost + 1
    /\ UNCHANGED <<up, process, sender, socket, receiver, database, copied, history>>

Copy(m) ==
    /\ m \in net
    /\ copied < MaxCopied
    /\ net' = net \cup {[m EXCEPT !.copy = 1]}
    /\ copied' = copied + 1
    /\ UNCHANGED <<up, process, sender, socket, receiver, database, lost, history>>

Next ==
    \/ \E n \in Servers, t \in Threads :
          \/ AskForDatabase(n, t) \/ Call(n, t)
          \/ \E item \in Content : Publish(n, t, item)
    \/ \E n \in Servers : \/ Work(n) \/ ForgetAcknowledged(n)
                          \/ Boot(n) \/ Elect(n) \/ Crash(n)
                          \/ \E p \in Servers : RemoveHost(n, p) \/ AddHost(n, p)
                          \/ \E m \in net : Receive(n, m)
    \/ \E m \in net : Lose(m) \/ Copy(m)

\* Threads go on and every datagram that is not lost is received.
Fairness ==
    /\ \A n \in Servers, t \in Threads : WF_vars(Call(n, t))
    /\ \A n \in Servers : /\ WF_vars(Work(n)) /\ WF_vars(ForgetAcknowledged(n))
                          /\ WF_vars(\E m \in net : Receive(n, m))

Spec     == Init /\ [][Next]_vars
FairSpec == Spec /\ Fairness

-----------------------------------------------------------------------------
Entries      == [from : Servers, item : Items]
Counts       == Nat \cup {NoCount}
HeldMessages == [from : Servers, v : Counts, item : Items]
Datagrams ==
    [type : {"message"}, from : Servers, to : Servers, id : Nat, v : Counts, item : Items, copy : {0, 1}]
      \cup [type : {"ack"}, from : Servers, to : Servers, id : Nat, v : Counts, copy : {0, 1}]
Calls ==
    {NoCall} \cup [pc : {"send"}, item : Items, next : Nat \ {0}, sent : SUBSET Servers]
             \cup [pc : {"count"}, item : Items, read : Nat]

(* Every variable has values of its type; a server may be missing in its   *)
(* own ring, and keep no count of itself.                                  *)
TypeOK ==
    /\ up \in SUBSET Servers
    /\ members \in [Servers -> Seq(Servers)]
    /\ isLeader \in [Servers -> BOOLEAN]
    /\ asked \in SUBSET Servers
    /\ calls \in [Servers -> [Threads -> Calls]]
    /\ message_id_counter \in [Servers -> Nat]
    /\ DOMAIN my_timestamp = Servers
    /\ \A n \in Servers : /\ my_timestamp[n] \in [DOMAIN my_timestamp[n] -> Nat]
                          /\ DOMAIN my_timestamp[n] \subseteq Servers
    /\ has_received \in [Servers -> SUBSET [from : Servers, id : Nat]]
    /\ has_acknowledged \in [Servers -> SUBSET [from : Servers, id : Nat]]
    /\ unack_messages \in [Servers -> SUBSET [to : Servers, id : Nat, item : Items]]
    /\ holdback_queue \in [Servers -> Seq(HeldMessages)]
    /\ receiver \in [Servers -> [pc : {"listen", "scan", "deliver", "answer", "dead"},
                                 batch : Seq(HeldMessages), answers : Seq(Items)]]
    /\ database \in [Servers -> Seq(Items)]
    /\ shown \in [Servers -> SUBSET Content]
    /\ net \in SUBSET Datagrams
    /\ lost \in Nat /\ copied \in Nat
    /\ issued \in [Servers -> Seq(Items)]
    /\ delivered \in [Servers -> Seq(Entries)]
    /\ past \in [Items -> SUBSET Entries]
    /\ doubted \in SUBSET (Servers \X Servers)

\* The messages that came in at n and were not taken for a second copy.
Accepted(n) ==
    {[from |-> e.from, item |-> e.item] :
        e \in Elements(holdback_queue[n]) \cup Elements(receiver[n].batch)}
      \cup Elements(delivered[n])

(* "check if message was send more than once" (reliable_socket_sender.py:  *)
(* 105): a message is only dropped as a second copy of one that came in.   *)
OnlyCopiesDropped ==
    [][\A n \in Servers : \A m \in net :
          ReceiveAgain(n, m) => [from |-> m.from, item |-> m.item] \in Accepted(n)]_vars

(* What a sender no longer waits for an acknowledgement of has come in at  *)
(* its destination: acknowledgements may be lost, come late or twice.      *)
ForgottenHasArrived ==
    [][\A n \in Servers : \A u \in unack_messages[n] \ unack_messages'[n] :
          u.to \in up => [from |-> n, item |-> u.item] \in Accepted(u.to)]_vars

(* "Compare message timestamps to ensure casual ordering." (reliable_      *)
(* socket_sender.py:114): what the sender of a message had delivered       *)
(* before, say the quote that a reply is about, every server delivers      *)
(* before it delivers that message.                                        *)
CausalDelivery ==
    \A n \in Servers : \A i \in DOMAIN delivered[n] :
        past[delivered[n][i].item] \subseteq {delivered[n][j] : j \in 1..(i - 1)}

(* "only on this way we get reliable multicast" (reliable_socket_sender.py *)
(* :145): every server delivers, in the end, all that was multicast.       *)
EveryoneDelivers ==
    <>[](\A s, n \in up : \A item \in Elements(issued[s]) :
            [from |-> s, item |-> item] \in Elements(delivered[n]))

(* "Unicast the message to all known clients." (reliable_socket_sender.py: *)
(* 144): when the loop is over the message went to every member.           *)
SentToAllMembers ==
    \A n \in Servers, t \in Threads :
        calls[n][t].pc = "send" /\ calls[n][t].next > Len(members[n]) =>
            Elements(members[n]) \subseteq calls[n][t].sent

(* "Thread that listens for incoming UDP messages" (reliable_socket_       *)
(* sender.py:202): as long as a server is up its receiving thread goes on. *)
ReceiverGoesOn == \A n \in up : receiver[n].pc # "dead"


(* "Send initial message via multicast to get a database update"           *)
(* (README.md:131): a server that has asked has, in the end, the latest    *)
(* entries of every leader.                                                *)
NewServerCatchesUp ==
    <>[](\A n \in up \cap asked, p \in up : isLeader[p] =>
            \A item \in Elements(Recent(database[p], Latest)) :
               \E entry \in Elements(database[n]) : entry.id = item.id)

=============================================================================
