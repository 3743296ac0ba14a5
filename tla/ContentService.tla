--------------------------- MODULE ContentService ---------------------------
(***************************************************************************)
(* The content service of one server (components/content_provider.py,      *)
(* components/websocket_server.py): the content thread that starts the     *)
(* websocket server when its server leads and closes it when it does not   *)
(* any more, the thread that accepts connections, one handler thread per   *)
(* connection, the process monitor of run.py, and the page in the browser  *)
(* (index.html) at the other end of each connection.                       *)
(*                                                                         *)
(* All these threads share one list, WebsocketServer.clients, without a    *)
(* lock: messages are sent and clients looked up in loops over the list    *)
(* while other threads append to it and remove from it.  Every step of     *)
(* such a loop is an action.  What a message says, and its replication     *)
(* (module Replication), are left out; the election is the environment.    *)
(***************************************************************************)
EXTENDS Naturals, FiniteSets, SequencesExt

CONSTANTS
    Connections,    \* connections of pages, each made once at most
    Content,        \* the content thread
    MaxTerms,       \* bound on how often the server is elected
    MaxQuotes       \* bound on the number of quotes and replies

ASSUME ContentAssumption == Content \notin Connections
ASSUME BoundsAssumption  == MaxTerms \in Nat /\ MaxQuotes \in Nat

VARIABLES
    isLeader,   \* Election.isLeader
    terms,      \* how often the server was elected
    isRunning,  \* WebsocketServer.isRunning
    listening,  \* whether the socket is open for connections
    serving,    \* whether serve_forever runs
    content,    \* where the content thread is
    clients,    \* WebsocketServer.clients
    conn,       \* the connections, seen from the page
    handler,    \* the handler threads
    calls,      \* send_message_to_all: what a thread sends, and to whom next
    quotes,     \* number of quotes and replies so far
    got         \* what was received on each connection

server == <<isRunning, listening, serving>>
vars == <<isLeader, terms, server, content, clients, conn, handler, calls, quotes, got>>

-----------------------------------------------------------------------------
Threads == Connections \cup {Content}

Handler(pc, next, why) == [pc |-> pc, next |-> next, why |-> why]
Pc(c) == handler[c].pc

NoCall == [type |-> "none", from |-> Content, id |-> 0, next |-> 1, due |-> {}, left |-> 0]

\* due: history, the clients when the call began; left: how many were removed
\* from the list since.
Call(type, from, id) == [type |-> type, from |-> from, id |-> id, next |-> 1,
                         due |-> ToSet(clients), left |-> 0]
Message(call) == [type |-> call.type, from |-> call.from, id |-> call.id]

Start(t, type, id) == calls' = [calls EXCEPT ![t] = Call(type, t, id)]

Init ==
    /\ isLeader = FALSE
    /\ terms = 0
    /\ isRunning = FALSE
    /\ listening = TRUE         \* TCPServer.__init__ binds and listens
    /\ serving = FALSE
    /\ content = "idle"
    /\ clients = <<>>
    /\ conn = [c \in Connections |-> "none"]
    /\ handler = [c \in Connections |-> Handler("none", 1, "none")]
    /\ calls = [t \in Threads |-> NoCall]
    /\ quotes = 0
    /\ got = [c \in Connections |-> <<>>]

-----------------------------------------------------------------------------
(* The election, and the content thread.                                   *)

GainLead ==
    /\ ~isLeader
    /\ terms < MaxTerms
    /\ isLeader' = TRUE
    /\ terms' = terms + 1
    /\ UNCHANGED <<server, content, clients, conn, handler, calls, quotes, got>>

LoseLead ==
    /\ isLeader
    /\ isLeader' = FALSE
    /\ UNCHANGED <<terms, server, content, clients, conn, handler, calls, quotes, got>>

\* Mutant of RunServer: the thread is created but not started.
RunNothing ==
    /\ content = "idle"
    /\ isLeader /\ ~isRunning
    /\ isRunning' = TRUE
    /\ UNCHANGED <<isLeader, terms, listening, serving, content, clients, conn, handler,
                   calls, quotes, got>>

\* run_forever; on a closed socket serve_forever raises in its own thread.
RunServer ==
    /\ content = "idle"
    /\ isLeader /\ ~isRunning
    /\ isRunning' = TRUE
    /\ serving' = listening
    /\ UNCHANGED <<isLeader, terms, listening, content, clients, conn, handler, calls,
                   quotes, got>>

PublishQuote ==
    /\ content = "idle"
    /\ isLeader /\ isRunning
    /\ quotes < MaxQuotes
    /\ quotes' = quotes + 1
    /\ content' = "publishing"
    /\ Start(Content, "CO", quotes')
    /\ UNCHANGED <<isLeader, terms, server, clients, conn, handler, got>>

\* Mutant of StartClosing: the message has a type that no page knows.
StartClosingUnheard ==
    /\ content = "idle"
    /\ ~isLeader /\ isRunning
    /\ isRunning' = FALSE
    /\ content' = "closing"
    /\ Start(Content, "close", terms)
    /\ UNCHANGED <<isLeader, terms, listening, serving, clients, conn, handler, quotes, got>>

StartClosing ==
    /\ content = "idle"
    /\ ~isLeader /\ isRunning
    /\ isRunning' = FALSE
    /\ content' = "closing"
    /\ Start(Content, "CL", terms)
    /\ UNCHANGED <<isLeader, terms, listening, serving, clients, conn, handler, quotes, got>>

\* shutdown and server_close: who was not accepted yet is turned away.
StopServer ==
    /\ content = "stopping"
    /\ serving' = FALSE
    /\ listening' = FALSE
    /\ conn' = [c \in Connections |->
                   IF Pc(c) = "none" /\ conn[c] # "none" THEN "gone" ELSE conn[c]]
    /\ content' = "idle"
    /\ UNCHANGED <<isLeader, terms, isRunning, clients, handler, calls, quotes, got>>

\* Mutant of StopProcess: no one notices.
StayUp ==
    /\ content = "dead"
    /\ UNCHANGED vars

\* The main thread finds the content thread dead and ends the process.
StopProcess ==
    /\ content = "dead"
    /\ content' = "exited"
    /\ serving' = FALSE
    /\ listening' = FALSE
    /\ clients' = <<>>
    /\ conn' = [c \in Connections |-> IF conn[c] = "none" THEN "none" ELSE "gone"]
    /\ handler' = [c \in Connections |->
                      IF Pc(c) = "none" THEN handler[c] ELSE Handler("over", 1, "none")]
    /\ calls' = [t \in Threads |-> NoCall]
    /\ UNCHANGED <<isLeader, terms, isRunning, quotes, got>>

-----------------------------------------------------------------------------
(* send_message_to_all, by the content thread or a handler thread.         *)

Sending(t)   == calls[t] # NoCall
Addressee(t) == clients[calls[t].next]
HasNext(t)   == Sending(t) /\ calls[t].next <= Len(clients)

Advance(t) == calls' = [calls EXCEPT ![t].next = @ + 1]

\* Mutant of SendToClient: the page that sent the message does not get it.
SendToOthers(t) ==
    /\ HasNext(t)
    /\ conn[Addressee(t)] = "open"
    /\ got' = IF Addressee(t) = t THEN got
              ELSE [got EXCEPT ![Addressee(t)] = Append(@, Message(calls[t]))]
    /\ Advance(t)
    /\ UNCHANGED <<isLeader, terms, server, content, clients, conn, handler, quotes>>

SendToClient(t) ==
    /\ HasNext(t)
    /\ conn[Addressee(t)] = "open"
    /\ got' = [got EXCEPT ![Addressee(t)] = Append(@, Message(calls[t]))]
    /\ Advance(t)
    /\ UNCHANGED <<isLeader, terms, server, content, clients, conn, handler, quotes>>

\* What is sent to a page that has left is lost, or the send fails.
SendInVain(t) ==
    /\ HasNext(t)
    /\ conn[Addressee(t)] = "left"
    /\ Advance(t)
    /\ UNCHANGED <<isLeader, terms, server, content, clients, conn, handler, quotes, got>>

\* The call is over: the handler waits for the next message, the content thread
\* goes on with what comes next.
Return(t, next) ==
    /\ calls' = [calls EXCEPT ![t] = NoCall]
    /\ IF t = Content
       THEN content' = (IF content = "closing" THEN next ELSE "idle") /\ UNCHANGED handler
       ELSE handler' = [handler EXCEPT ![t] = Handler("reading", 1, "none")] /\ UNCHANGED content

\* _replicate_and_send catches the exception; work_func does not.
SendFails(t) ==
    /\ HasNext(t)
    /\ conn[Addressee(t)] \in {"left", "gone"}
    /\ Return(t, "dead")
    /\ UNCHANGED <<isLeader, terms, server, clients, conn, quotes, got>>

SentToAll(t) ==
    /\ Sending(t) /\ ~HasNext(t)
    /\ Return(t, "stopping")
    /\ UNCHANGED <<isLeader, terms, server, clients, conn, quotes, got>>

Send(t) == SendToClient(t) \/ SendInVain(t) \/ SendFails(t) \/ SentToAll(t)

-----------------------------------------------------------------------------
(* The serving thread and the handler threads.                             *)

Enter(c, pc, why) == handler' = [handler EXCEPT ![c] = Handler(pc, 1, why)]

Accept(c) ==
    /\ serving
    /\ Pc(c) = "none"
    /\ conn[c] \in {"waiting", "left"}
    /\ Enter(c, "handshake", "none")
    /\ UNCHANGED <<isLeader, terms, server, content, clients, conn, calls, quotes, got>>

\* Mutant of Handshake: the newest client comes first.
HandshakeFirst(c) ==
    /\ Pc(c) = "handshake"
    /\ conn' = [conn EXCEPT ![c] = IF @ = "waiting" THEN "open" ELSE @]
    /\ clients' = <<c>> \o clients
    /\ Enter(c, "reading", "none")
    /\ UNCHANGED <<isLeader, terms, server, content, calls, quotes, got>>

Handshake(c) ==
    /\ Pc(c) = "handshake"
    /\ conn' = [conn EXCEPT ![c] = IF @ = "waiting" THEN "open" ELSE @]
    /\ clients' = Append(clients, c)
    /\ Enter(c, "reading", "none")
    /\ UNCHANGED <<isLeader, terms, server, content, calls, quotes, got>>

\* No request to read: finish, for a client that was never in the list.
HandshakeFails(c) ==
    /\ Pc(c) = "handshake"
    /\ conn[c] = "left"
    /\ Enter(c, "find", "left")
    /\ UNCHANGED <<isLeader, terms, server, content, clients, conn, calls, quotes, got>>

ReadMessage(c) ==
    /\ Pc(c) = "reading"
    /\ conn[c] = "open"
    /\ quotes < MaxQuotes
    /\ quotes' = quotes + 1
    /\ Enter(c, "find", "message")
    /\ UNCHANGED <<isLeader, terms, server, content, clients, conn, calls, got>>

ReadClose(c) ==
    /\ Pc(c) = "reading"
    /\ conn[c] = "left"
    /\ Enter(c, "find", "left")
    /\ UNCHANGED <<isLeader, terms, server, content, clients, conn, calls, quotes, got>>

Found(c)     == handler[c].next <= Len(clients) /\ clients[handler[c].next] = c
Exhausted(c) == handler[c].next > Len(clients)

LookFurther(c) ==
    /\ Pc(c) = "find"
    /\ ~Found(c) /\ ~Exhausted(c)
    /\ handler' = [handler EXCEPT ![c].next = @ + 1]
    /\ UNCHANGED <<isLeader, terms, server, content, clients, conn, calls, quotes, got>>

\* message_received, whether the server leads or not.
HandleMessage(c) ==
    /\ Pc(c) = "find" /\ handler[c].why = "message"
    /\ Found(c)
    /\ Enter(c, "sending", "none")
    /\ Start(c, "CO", quotes)
    /\ UNCHANGED <<isLeader, terms, server, content, clients, conn, quotes, got>>

\* Another thread removed a client before this one in the list meanwhile: the
\* callback fails on None, the handler thread finishes and looks again.
MissMessage(c) ==
    /\ Pc(c) = "find" /\ handler[c].why = "message"
    /\ Exhausted(c)
    /\ Enter(c, "find", "left")
    /\ UNCHANGED <<isLeader, terms, server, content, clients, conn, calls, quotes, got>>

FindLeft(c) ==
    /\ Pc(c) = "find" /\ handler[c].why = "left"
    /\ Found(c)
    /\ Enter(c, "remove", "left")
    /\ UNCHANGED <<isLeader, terms, server, content, clients, conn, calls, quotes, got>>

\* The thread is over, and its socket closed.
Finish(c) ==
    /\ Enter(c, "over", "none")
    /\ conn' = [conn EXCEPT ![c] = "gone"]

\* client_left fails on None: the client stays in the list.
MissLeft(c) ==
    /\ Pc(c) = "find" /\ handler[c].why = "left"
    /\ Exhausted(c)
    /\ Finish(c)
    /\ UNCHANGED <<isLeader, terms, server, content, clients, calls, quotes, got>>

Positions(c) == {i \in DOMAIN clients : clients[i] = c}
Position(c)  == CHOOSE i \in Positions(c) : TRUE

\* Mutant of RemoveClient: the last of the list is removed.
RemoveLast(c) ==
    /\ Pc(c) = "remove"
    /\ clients' = Front(clients)
    /\ calls' = [t \in Threads |-> IF Sending(t) THEN [calls[t] EXCEPT !.left = @ + 1]
                                                 ELSE NoCall]
    /\ Finish(c)
    /\ UNCHANGED <<isLeader, terms, server, content, quotes, got>>

RemoveClient(c) ==
    /\ Pc(c) = "remove"
    /\ clients' = RemoveAt(clients, Position(c))
    /\ calls' = [t \in Threads |-> IF Sending(t) THEN [calls[t] EXCEPT !.left = @ + 1]
                                                 ELSE NoCall]
    /\ Finish(c)
    /\ UNCHANGED <<isLeader, terms, server, content, quotes, got>>

Handle(c) ==
    \/ Handshake(c) \/ HandshakeFails(c) \/ ReadClose(c) \/ LookFurther(c)
    \/ HandleMessage(c) \/ MissMessage(c) \/ FindLeft(c) \/ MissLeft(c) \/ RemoveClient(c)

-----------------------------------------------------------------------------
(* The page.                                                               *)

Connect(c) ==
    /\ conn[c] = "none"
    /\ listening
    /\ conn' = [conn EXCEPT ![c] = "waiting"]
    /\ UNCHANGED <<isLeader, terms, server, content, clients, handler, calls, quotes, got>>

Leave(c) ==
    /\ conn[c] \in {"waiting", "open"}
    /\ conn' = [conn EXCEPT ![c] = "left"]
    /\ UNCHANGED <<isLeader, terms, server, content, clients, handler, calls, quotes, got>>

ToldToLeave(c) == \E i \in DOMAIN got[c] : got[c][i].type = "CL"

ContentThread ==
    RunServer \/ StartClosing \/ StopServer \/ Send(Content) \/ StopProcess

Next ==
    \/ content # "exited" /\ (GainLead \/ LoseLead)
    \/ ContentThread \/ PublishQuote
    \/ \E c \in Connections :
          Accept(c) \/ Handle(c) \/ ReadMessage(c) \/ Send(c) \/ Connect(c) \/ Leave(c)

\* Threads are scheduled; a page that is told to leave does.
Fairness ==
    /\ WF_vars(ContentThread)
    /\ \A c \in Connections :
          /\ WF_vars(Accept(c))
          /\ WF_vars(Handle(c) \/ Send(c))
          /\ WF_vars(ToldToLeave(c) /\ Leave(c))

Spec == Init /\ [][Next]_vars /\ Fairness

-----------------------------------------------------------------------------
Calls == [type : {"none", "CO", "CL"}, from : Threads, id : 0..(MaxQuotes + MaxTerms),
          next : Nat \ {0}, due : SUBSET Connections, left : Nat]
Messages == [type : {"none", "CO", "CL"}, from : Threads, id : 0..(MaxQuotes + MaxTerms)]
Handlers == [pc : {"none", "handshake", "reading", "find", "sending", "remove", "over"},
             next : Nat \ {0}, why : {"none", "message", "left"}]

(* Every variable has values of its type.                                  *)
TypeOK ==
    /\ isLeader \in BOOLEAN /\ isRunning \in BOOLEAN
    /\ listening \in BOOLEAN /\ serving \in BOOLEAN
    /\ terms \in 0..MaxTerms /\ quotes \in 0..MaxQuotes
    /\ content \in {"idle", "publishing", "closing", "stopping", "dead", "exited"}
    /\ clients \in Seq(Connections)
    /\ conn \in [Connections -> {"none", "waiting", "open", "left", "gone"}]
    /\ handler \in [Connections -> Handlers]
    /\ calls \in [Threads -> Calls]
    /\ got \in [Connections -> Seq(Messages)]

(* No page is sent a quote twice, however the list changes under the loop. *)
NoMessageTwice == \A c \in Connections : IsInjective(got[c])

\* Who stays, has not got the message and is not ahead of the loop any more.
Skipped(t) == {c \in calls[t].due :
    /\ conn[c] = "open" /\ ~Contains(got[c], Message(calls[t]))
    /\ \A i \in 1..Len(clients) : i >= calls[t].next => clients[i] # c}

(* The loop of send_message_to_all may skip clients that stay, but at any  *)
(* moment no more of them than were removed from the list since it began:  *)
(* joining clients and other senders do no harm.  Of a call that a failing *)
(* send ends it says this up to the failure; whoever is ahead of the loop  *)
(* then gets nothing.                                                      *)
SkippedOnlyForLeavers == \A t \in Threads :
    Sending(t) => Cardinality(Skipped(t)) <= calls[t].left

(* A client whose handler thread reads its messages, sends one or is about *)
(* to remove it is in the list, once, whatever others add and remove.      *)
ReadersListed == \A c \in Connections :
    Pc(c) \in {"reading", "sending", "remove"} => \E i \in DOMAIN clients : Positions(c) = {i}

(* A server that has lost the lead for good stops serving: the close       *)
(* message gets to the end of the list and the socket is closed, or the    *)
(* content thread fails on a client that is not there any more and the     *)
(* process ends.                                                           *)
StopsServing == <>[]~isLeader => <>[](~serving /\ ~isRunning)

(* A server that is elected once and stays in office accepts every page.   *)
ServesFirstTerm ==
    <>[](isLeader /\ terms = 1) => \A c \in Connections : conn[c] = "waiting" ~> conn[c] # "waiting"

(* "clients(list): A list of connected clients." (websocket_server.py:120) *)
(* A client that has left is not in it.                                    *)
GoneIsNotListed == \A c \in Connections : Pc(c) = "over" => ~Contains(clients, c)

(* "check if WebsocketServer is running" (content_provider.py:36): the     *)
(* server that the content thread finds running serves.                    *)
RunningServes == content = "idle" /\ isRunning => serving

(* "Notify clients that websocket of backend server is shutting down"      *)
(* (README.md:129): no page stays with a server that does not lead.        *)
PagesMoveOn == <>[]~isLeader => <>[](\A c \in Connections : conn[c] # "open")

=============================================================================
