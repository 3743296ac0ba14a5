------------------------ MODULE ContentServiceProofs ------------------------
(***************************************************************************)
(* Proofs about ContentService, for any number of connections, elections   *)
(* and quotes and any interleaving of the threads: the type invariant;     *)
(* that the clients whose handlers are at work are in the list of clients, *)
(* each once (ReadersListed); that no page is sent a message twice         *)
(* (NoMessageTwice); and that the loop of a call skips a client that stays *)
(* only for another that was removed (SkippedOnlyForLeavers).              *)
(***************************************************************************)
EXTENDS ContentService, ListLemmas

-----------------------------------------------------------------------------
(* The values the actions are built from have their types.                 *)
LEMMA HandlerTypes ==
    \A pc \in {"none", "handshake", "reading", "find", "sending", "remove", "over"},
       next \in Nat \ {0}, why \in {"none", "message", "left"} : Handler(pc, next, why) \in Handlers
BY DEF Handler, Handlers

LEMMA CallTypes ==
    ASSUME TypeOK
    PROVE  /\ NoCall \in Calls
           /\ \A type \in {"CO", "CL"}, t \in Threads, id \in 0..(MaxQuotes + MaxTerms) :
                 Call(type, t, id) \in Calls /\ Call(type, t, id) # NoCall
           /\ \A t \in Threads : Message(calls[t]) \in Messages
<1>1. 0 \in 0..(MaxQuotes + MaxTerms)
  BY BoundsAssumption
<1>2. NoCall \in Calls
  BY <1>1 DEF NoCall, Calls, Threads
<1>3. ToSet(clients) \in SUBSET Connections
  BY DEF TypeOK, ToSet
<1>4. \A type \in {"CO", "CL"}, t \in Threads, id \in 0..(MaxQuotes + MaxTerms) :
         Call(type, t, id) \in Calls /\ Call(type, t, id) # NoCall
  BY <1>3 DEF Call, Calls, NoCall
<1>5. \A t \in Threads : Message(calls[t]) \in Messages
  BY DEF TypeOK, Calls, Message, Messages
<1> QED  BY <1>2, <1>4, <1>5

-----------------------------------------------------------------------------
(* The inductive invariant.  ReadersListed alone is not inductive: it says *)
(* nothing of a handler before the handshake, which must not be in the     *)
(* list yet, nor of one that looks its client up, nor who sends.           *)

Distinct(s) == \A i, j \in 1..Len(s) : s[i] = s[j] => i = j

HandlerInv(c) ==
    /\ Pc(c) \in {"none", "handshake"} => ~Contains(clients, c)
    /\ Pc(c) \in {"reading", "sending", "remove"} => Contains(clients, c)
    /\ Pc(c) = "find" /\ handler[c].why = "message" => Contains(clients, c)
    /\ Sending(c) => Pc(c) = "sending"

ListInv == Distinct(clients) /\ \A c \in Connections : HandlerInv(c)

LEMMA PositionFound ==
    ASSUME NEW c, Contains(clients, c), clients \in Seq(Connections)
    PROVE  Position(c) \in 1..Len(clients) /\ clients[Position(c)] = c
<1>1. \E i \in DOMAIN clients : clients[i] = c
  BY DEF Contains
<1> QED  BY <1>1 DEF Position, Positions

LEMMA FoundContained ==
    ASSUME NEW c \in Connections, handler[c].next \in Nat \ {0}, clients \in Seq(Connections),
           Found(c)
    PROVE  Contains(clients, c)
BY DEF Found, Contains

LEMMA ListedOnce == TypeOK /\ ListInv => ReadersListed
<1> SUFFICES ASSUME TypeOK, ListInv, NEW c \in Connections,
                    Pc(c) \in {"reading", "sending", "remove"}
             PROVE  \E i \in DOMAIN clients : Positions(c) = {i}
  BY DEF ReadersListed
<1>1. Contains(clients, c) /\ DOMAIN clients = 1..Len(clients)
  BY DEF ListInv, HandlerInv, TypeOK
<1>2. PICK i \in 1..Len(clients) : clients[i] = c
  BY <1>1 DEF Contains
<1>3. Positions(c) = {i}
  BY <1>1, <1>2 DEF Positions, ListInv, Distinct
<1> QED  BY <1>1, <1>2, <1>3

LEMMA InitListInv == Init => ListInv
<1> SUFFICES ASSUME Init PROVE ListInv
  OBVIOUS
<1>1. clients = <<>> /\ Len(clients) = 0
  BY DEF Init
<1>2. Distinct(clients) /\ \A c : ~Contains(clients, c)
  BY <1>1 DEF Distinct, Contains
<1>3. \A c \in Connections : Pc(c) = "none" /\ ~Sending(c)
  BY DEF Init, Pc, Handler, Sending, Threads
<1> QED  BY <1>2, <1>3 DEF ListInv, HandlerInv

LEMMA InitTypeOK == Init => TypeOK
<1> SUFFICES ASSUME Init PROVE TypeOK
  OBVIOUS
<1>1. NoCall \in Calls
  BY BoundsAssumption DEF NoCall, Calls, Threads
<1>2. Handler("none", 1, "none") \in Handlers
  BY HandlerTypes
<1>3. <<>> \in Seq(Connections) /\ <<>> \in Seq(Messages)
  OBVIOUS
<1>4. /\ clients \in Seq(Connections)
      /\ handler \in [Connections -> Handlers]
      /\ calls \in [Threads -> Calls]
      /\ got \in [Connections -> Seq(Messages)]
  BY <1>1, <1>2, <1>3 DEF Init
<1>5. terms \in 0..MaxTerms /\ quotes \in 0..MaxQuotes
  BY BoundsAssumption DEF Init
<1> QED  BY <1>4, <1>5 DEF Init, TypeOK

LEMMA StepTypeOK == TypeOK /\ ListInv /\ [Next]_vars => TypeOK'
<1> SUFFICES ASSUME TypeOK, ListInv, [Next]_vars PROVE TypeOK'
  OBVIOUS
<1> USE BoundsAssumption
<1>1. CASE GainLead
  BY <1>1 DEF GainLead, TypeOK, server
<1>2. CASE LoseLead
  BY <1>2 DEF LoseLead, TypeOK, server
<1>3. CASE RunServer
  BY <1>3 DEF RunServer, TypeOK
<1>4. CASE PublishQuote
  <2>1. quotes' \in 0..MaxQuotes /\ quotes' \in 0..(MaxQuotes + MaxTerms)
    BY <1>4 DEF PublishQuote, TypeOK
  <2>2. Call("CO", Content, quotes') \in Calls
    BY <2>1, CallTypes DEF Threads
  <2> QED  BY <1>4, <2>1, <2>2 DEF PublishQuote, Start, TypeOK, server
<1>5. CASE StartClosing
  <2>1. terms \in 0..(MaxQuotes + MaxTerms)
    BY DEF TypeOK
  <2>2. Call("CL", Content, terms) \in Calls
    BY <2>1, CallTypes DEF Threads
  <2> QED  BY <1>5, <2>2 DEF StartClosing, Start, TypeOK
<1>6. CASE StopServer
  BY <1>6 DEF StopServer, TypeOK
<1>7. CASE StopProcess
  <2>1. Handler("over", 1, "none") \in Handlers /\ NoCall \in Calls
    BY HandlerTypes, CallTypes
  <2>2. clients' \in Seq(Connections)
    BY <1>7 DEF StopProcess
  <2>3. /\ handler' \in [Connections -> Handlers]
        /\ calls' \in [Threads -> Calls]
        /\ conn' \in [Connections -> {"none", "waiting", "open", "left", "gone"}]
    BY <1>7, <2>1 DEF StopProcess, TypeOK
  <2> QED  BY <1>7, <2>2, <2>3 DEF StopProcess, TypeOK
<1>8. ASSUME NEW t \in Threads, Send(t) PROVE TypeOK'
  <2>0. ASSUME Advance(t) PROVE calls' \in [Threads -> Calls]
    <3>1. [calls[t] EXCEPT !.next = @ + 1] \in Calls
      <4>1. calls[t] \in Calls
        BY DEF TypeOK
      <4>2. calls[t].next + 1 \in Nat \ {0}
        BY <4>1 DEF Calls
      <4> QED  BY <4>1, <4>2 DEF Calls
    <3>2. calls' = [calls EXCEPT ![t] = [calls[t] EXCEPT !.next = @ + 1]]
      BY <2>0 DEF Advance
    <3> QED  BY <3>1, <3>2 DEF TypeOK
  <2>1. CASE SendToClient(t)
    <3>1. Addressee(t) \in Connections
      <4>1. calls[t].next \in Nat \ {0} /\ clients \in Seq(Connections)
        BY DEF TypeOK, Calls
      <4>2. calls[t].next <= Len(clients)
        BY <2>1 DEF SendToClient, HasNext
      <4>3. calls[t].next \in 1..Len(clients)
        BY <4>1, <4>2
      <4> QED  BY <4>1, <4>3 DEF Addressee
    <3>2. Append(got[Addressee(t)], Message(calls[t])) \in Seq(Messages)
      BY <3>1, CallTypes DEF TypeOK
    <3>3. calls' \in [Threads -> Calls]
      BY <2>0, <2>1 DEF SendToClient
    <3> QED  BY <2>1, <3>1, <3>2, <3>3 DEF SendToClient, TypeOK, server
  <2>2. CASE SendInVain(t)
    BY <2>0, <2>2 DEF SendInVain, TypeOK, server
  <2>3. ASSUME NEW next \in {"dead", "stopping"}, Return(t, next)
        PROVE  /\ content' \in {"idle", "publishing", "closing", "stopping", "dead", "exited"}
               /\ handler' \in [Connections -> Handlers]
               /\ calls' \in [Threads -> Calls]
    <3>1. NoCall \in Calls /\ Handler("reading", 1, "none") \in Handlers
      BY HandlerTypes, CallTypes
    <3> QED  BY <2>3, <3>1 DEF Return, TypeOK
  <2>4. CASE SendFails(t)
    BY <2>3, <2>4 DEF SendFails, TypeOK, server
  <2>5. CASE SentToAll(t)
    BY <2>3, <2>5 DEF SentToAll, TypeOK, server
  <2> QED  BY <1>8, <2>1, <2>2, <2>4, <2>5 DEF Send
<1>9. ASSUME NEW c \in Connections,
             Accept(c) \/ Handle(c) \/ ReadMessage(c) \/ Connect(c) \/ Leave(c)
      PROVE  TypeOK'
  <2>0. \A pc \in {"handshake", "reading", "find", "sending", "remove", "over"},
           why \in {"none", "message", "left"} :
              Enter(c, pc, why) => handler' \in [Connections -> Handlers]
    BY HandlerTypes DEF Enter, TypeOK
  <2>1. CASE Accept(c)
    BY <2>0, <2>1 DEF Accept, TypeOK, server
  <2>2. CASE Handshake(c)
    BY <2>0, <2>2 DEF Handshake, TypeOK, server
  <2>3. CASE HandshakeFails(c)
    BY <2>0, <2>3 DEF HandshakeFails, TypeOK, server
  <2>4. CASE ReadClose(c)
    BY <2>0, <2>4 DEF ReadClose, TypeOK, server
  <2>5. CASE LookFurther(c)
    <3>1. [handler[c] EXCEPT !.next = @ + 1] \in Handlers
      <4>1. handler[c] \in Handlers
        BY DEF TypeOK
      <4>2. handler[c].next + 1 \in Nat \ {0}
        BY <4>1 DEF Handlers
      <4> QED  BY <4>1, <4>2 DEF Handlers
    <3>2. handler' = [handler EXCEPT ![c] = [handler[c] EXCEPT !.next = @ + 1]]
      BY <2>5 DEF LookFurther
    <3>3. handler' \in [Connections -> Handlers]
      BY <3>1, <3>2 DEF TypeOK
    <3> QED  BY <2>5, <3>3 DEF LookFurther, TypeOK, server
  <2>6. CASE HandleMessage(c)
    <3>1. Call("CO", c, quotes) \in Calls
      BY CallTypes DEF Threads, TypeOK
    <3> QED  BY <2>0, <2>6, <3>1 DEF HandleMessage, Start, TypeOK, server
  <2>7. CASE MissMessage(c)
    BY <2>0, <2>7 DEF MissMessage, TypeOK, server
  <2>8. CASE FindLeft(c)
    BY <2>0, <2>8 DEF FindLeft, TypeOK, server
  <2>9. CASE MissLeft(c)
    BY <2>0, <2>9 DEF MissLeft, Finish, TypeOK, server
  <2>10. CASE RemoveClient(c)
    <3>1. clients' \in Seq(Connections)
      <4>1. Contains(clients, c)
        BY <2>10 DEF RemoveClient, ListInv, HandlerInv
      <4>2. Position(c) \in 1..Len(clients) /\ clients \in Seq(Connections)
        BY <4>1, PositionFound DEF TypeOK
      <4> QED  BY <2>10, <4>2, Removed DEF RemoveClient
    <3>2. calls' \in [Threads -> Calls]
      <4>1. ASSUME NEW t \in Threads PROVE [calls[t] EXCEPT !.left = @ + 1] \in Calls
        <5>1. calls[t] \in Calls
          BY DEF TypeOK
        <5>2. calls[t].left + 1 \in Nat
          BY <5>1 DEF Calls
        <5> QED  BY <5>1, <5>2 DEF Calls
      <4> QED  BY <2>10, <4>1, CallTypes DEF RemoveClient
    <3>3. /\ handler' \in [Connections -> Handlers]
          /\ conn' \in [Connections -> {"none", "waiting", "open", "left", "gone"}]
      BY <2>0, <2>10 DEF RemoveClient, Finish, TypeOK
    <3> QED  BY <2>10, <3>1, <3>2, <3>3 DEF RemoveClient, TypeOK, server
  <2>11. CASE ReadMessage(c)
    BY <2>0, <2>11 DEF ReadMessage, TypeOK, server
  <2>12. CASE Connect(c)
    BY <2>12 DEF Connect, TypeOK, server
  <2>13. CASE Leave(c)
    BY <2>13 DEF Leave, TypeOK, server
  <2> QED  BY <1>9, <2>1, <2>2, <2>3, <2>4, <2>5, <2>6, <2>7, <2>8, <2>9, <2>10, <2>11,
              <2>12, <2>13 DEF Handle
<1>10. CASE UNCHANGED vars
  BY <1>10 DEF vars, server, TypeOK
<1> QED  BY <1>1, <1>2, <1>3, <1>4, <1>5, <1>6, <1>7, <1>8, <1>9, <1>10
         DEF Next, ContentThread, Threads

-----------------------------------------------------------------------------
(* A handler whose state, calls and list stay keeps its invariant.         *)
LEMMA SameHandler ==
    ASSUME NEW d \in Connections, HandlerInv(d), UNCHANGED clients,
           handler'[d] = handler[d], Sending(d)' => Sending(d)
    PROVE  HandlerInv(d)'
BY DEF HandlerInv, Pc, Contains

LEMMA StepListInv == TypeOK /\ ListInv /\ [Next]_vars => ListInv'
<1> SUFFICES ASSUME TypeOK, ListInv, [Next]_vars PROVE ListInv'
  OBVIOUS
<1>a. \A t \in Threads : Threads = Connections \cup {Content} /\ calls \in [Threads -> Calls]
  BY DEF TypeOK, Threads
<1>t. handler \in [Connections -> Handlers] /\ clients \in Seq(Connections)
  BY DEF TypeOK
<1>b. Distinct(clients) /\ \A d \in Connections : HandlerInv(d)
  BY DEF ListInv
<1>c. ASSUME UNCHANGED <<clients, handler>>, \A d \in Connections : Sending(d)' => Sending(d)
      PROVE  ListInv'
  BY <1>b, <1>c, SameHandler DEF ListInv, Distinct
<1>d. ASSUME NEW t \in Threads, NEW type \in {"CO", "CL"}, NEW id, Start(t, type, id),
             NEW d \in Connections, d # t
      PROVE  Sending(d)' = Sending(d)
  BY <1>a, <1>d DEF Start, Sending
<1>e. ASSUME NEW t \in Threads, NEW n, calls' = [calls EXCEPT ![t] = NoCall],
             NEW d \in Connections
      PROVE  Sending(d)' => Sending(d)
  BY <1>a, <1>e DEF Sending, Threads
<1>1. CASE GainLead \/ LoseLead \/ RunServer \/ StopServer
  BY <1>1, <1>c DEF GainLead, LoseLead, RunServer, StopServer, Sending
<1>2. CASE PublishQuote \/ StartClosing
  <2>1. Content \in Threads /\ \A d \in Connections : d # Content
    BY ContentAssumption DEF Threads
  <2> QED  BY <1>2, <1>c, <1>d, <2>1 DEF PublishQuote, StartClosing
<1>3. CASE StopProcess
  <2>1. clients' = <<>> /\ Len(clients') = 0
    BY <1>3 DEF StopProcess
  <2>2. Distinct(clients)'
    BY <2>1 DEF Distinct
  <2>3. ASSUME NEW d \in Connections PROVE HandlerInv(d)'
    <3>1. ~Contains(clients', d)
      BY <2>1 DEF Contains
    <3>2. ~Sending(d)'
      BY <1>3 DEF StopProcess, Sending, Threads
    <3>3. Pc(d)' \in {"none", "over"}
      BY <1>3 DEF StopProcess, Pc, Handler
    <3> QED  BY <3>1, <3>2, <3>3 DEF HandlerInv
  <2> QED  BY <2>2, <2>3 DEF ListInv
<1>4. ASSUME NEW t \in Threads, Send(t) PROVE ListInv'
  <2>1. CASE SendToClient(t) \/ SendInVain(t)
    <3>1. ASSUME NEW d \in Connections PROVE Sending(d)' => Sending(d)
      <4>1. Sending(t) /\ Advance(t)
        BY <2>1 DEF SendToClient, SendInVain, HasNext
      <4> QED  BY <1>a, <4>1 DEF Advance, Sending, Threads
    <3> QED  BY <1>c, <2>1, <3>1 DEF SendToClient, SendInVain
  <2>2. ASSUME NEW next, Return(t, next), Sending(t), UNCHANGED clients PROVE ListInv'
    <3>1. \A d \in Connections : Sending(d)' => Sending(d)
      BY <1>e, <2>2 DEF Return
    <3>2. CASE t = Content
      BY <1>c, <2>2, <3>1, <3>2 DEF Return
    <3>3. CASE t # Content
      <4>1. t \in Connections /\ HandlerInv(t) /\ Contains(clients, t)
        BY <1>b, <2>2, <3>3 DEF HandlerInv, Threads
      <4>2. handler' = [handler EXCEPT ![t] = Handler("reading", 1, "none")]
        BY <2>2, <3>3 DEF Return
      <4>3. ~Sending(t)' /\ Pc(t)' = "reading"
        BY <1>a, <1>t, <2>2, <4>1, <4>2 DEF Return, Sending, Pc, Handler
      <4>4. HandlerInv(t)'
        BY <2>2, <4>1, <4>3 DEF HandlerInv
      <4>5. ASSUME NEW d \in Connections, d # t PROVE HandlerInv(d)'
        BY <1>b, <1>t, <2>2, <3>1, <4>2, <4>5, SameHandler
      <4> QED  BY <1>b, <2>2, <4>4, <4>5 DEF ListInv, Distinct
    <3> QED  BY <3>2, <3>3
  <2>3. CASE SendFails(t) \/ SentToAll(t)
    BY <2>2, <2>3 DEF SendFails, SentToAll, HasNext
  <2> QED  BY <1>4, <2>1, <2>3 DEF Send
<1>5. ASSUME NEW c \in Connections,
             Accept(c) \/ Handle(c) \/ ReadMessage(c) \/ Connect(c) \/ Leave(c)
      PROVE  ListInv'
  <2>c. HandlerInv(c)
    BY <1>b
  <2>0. ASSUME UNCHANGED clients, HandlerInv(c)',
               \A d \in Connections \ {c} : handler'[d] = handler[d] /\ (Sending(d)' => Sending(d))
        PROVE  ListInv'
    BY <1>b, <2>0, SameHandler DEF ListInv, Distinct
  <2>1. ASSUME NEW pc, NEW why, Enter(c, pc, why)
        PROVE  /\ Pc(c)' = pc /\ handler'[c].why = why
               /\ \A d \in Connections \ {c} : handler'[d] = handler[d]
    BY <1>t, <2>1 DEF Enter, Handler, Pc
  <2>2. ASSUME UNCHANGED <<clients, calls>>, NEW pc, NEW why, Enter(c, pc, why), Pc(c) # "sending",
               pc \in {"none", "handshake"} => Pc(c) = "none",
               (\/ pc \in {"reading", "sending", "remove"}
                \/ pc = "find" /\ why = "message") => Contains(clients, c)
        PROVE  ListInv'
    <3>1. \A d \in Connections : Sending(d)' = Sending(d)
      BY <2>2 DEF Sending
    <3>3. Pc(c)' = pc /\ handler'[c].why = why
      BY <2>1, <2>2
    <3>4. (Contains(clients, c)' <=> Contains(clients, c)) /\ ~Sending(c)
      BY <2>c, <2>2 DEF Contains, HandlerInv
    <3>2. HandlerInv(c)'
      <4>1. pc \in {"none", "handshake"} => ~Contains(clients, c)'
        BY <2>c, <2>2, <3>4 DEF HandlerInv
      <4>2. pc \in {"reading", "sending", "remove"} => Contains(clients, c)'
        BY <2>2, <3>4
      <4>3. pc = "find" /\ why = "message" => Contains(clients, c)'
        BY <2>2, <3>4
      <4>4. ~Sending(c)'
        BY <3>1, <3>4
      <4> QED  BY <3>3, <4>1, <4>2, <4>3, <4>4 DEF HandlerInv
    <3> QED  BY <2>0, <2>1, <2>2, <3>1, <3>2
  <2>3. CASE Connect(c) \/ Leave(c)
    BY <1>c, <2>3 DEF Connect, Leave, Sending
  <2>4. CASE Accept(c)
    BY <2>2, <2>4 DEF Accept
  <2>5. CASE HandshakeFails(c) \/ ReadClose(c)
    BY <2>2, <2>5 DEF HandshakeFails, ReadClose
  <2>6. CASE ReadMessage(c)
    BY <2>2, <2>6, <2>c DEF ReadMessage, HandlerInv
  <2>7. CASE MissMessage(c)
    BY <2>2, <2>7 DEF MissMessage
  <2>8. CASE FindLeft(c)
    <3>1. Contains(clients, c)
      BY <1>t, <2>8, FoundContained DEF FindLeft, Handlers
    <3> QED  BY <2>2, <2>8, <3>1 DEF FindLeft
  <2>9. CASE MissLeft(c)
    BY <2>2, <2>9 DEF MissLeft, Finish
  <2>10. CASE LookFurther(c)
    <3>1. handler' = [handler EXCEPT ![c] = [handler[c] EXCEPT !.next = @ + 1]]
      BY <2>10 DEF LookFurther
    <3>2. handler[c] \in Handlers
      BY <1>t
    <3>3. Pc(c)' = Pc(c) /\ handler'[c].why = handler[c].why
      BY <1>t, <3>1, <3>2 DEF Pc, Handlers
    <3>4. UNCHANGED <<clients, calls>>
      BY <2>10 DEF LookFurther
    <3>5. HandlerInv(c)'
      BY <2>c, <3>3, <3>4 DEF HandlerInv, Sending
    <3> QED  BY <1>t, <2>0, <3>1, <3>4, <3>5 DEF Sending
  <2>11. CASE HandleMessage(c)
    <3>1. Contains(clients, c)
      BY <1>t, <2>11, FoundContained DEF HandleMessage, Handlers
    <3>2. Pc(c)' = "sending" /\ \A d \in Connections \ {c} : handler'[d] = handler[d]
      BY <2>1, <2>11 DEF HandleMessage
    <3>3. UNCHANGED clients /\ HandlerInv(c)'
      BY <2>11, <3>1, <3>2 DEF HandleMessage, HandlerInv
    <3>4. \A d \in Connections \ {c} : Sending(d)' = Sending(d)
      BY <1>d, <2>11 DEF HandleMessage, Threads
    <3> QED  BY <2>0, <3>2, <3>3, <3>4
  <2>12. CASE Handshake(c)
    <3>1. ~Contains(clients, c) /\ ~Sending(c)
      BY <2>c, <2>12 DEF Handshake, HandlerInv
    <3>2. clients' = Append(clients, c) /\ UNCHANGED calls
      BY <2>12 DEF Handshake
    <3>3. /\ Len(clients') = Len(clients) + 1
          /\ \A i \in 1..Len(clients) : clients'[i] = clients[i]
          /\ clients'[Len(clients) + 1] = c
      BY <1>t, <3>2, Appended
    <3>n. Len(clients) \in Nat
      BY <1>t
    <3>4. Distinct(clients)'
      BY <1>b, <3>1, <3>3, <3>n DEF Distinct, Contains
    <3>5. Contains(clients, c)'
      BY <3>3, <3>n DEF Contains
    <3>6. \A d \in Connections \ {c} : Contains(clients, d)' <=> Contains(clients, d)
      BY <3>3, <3>n DEF Contains
    <3>7. Pc(c)' = "reading" /\ \A d \in Connections \ {c} : handler'[d] = handler[d]
      BY <2>1, <2>12 DEF Handshake
    <3>8. \A d \in Connections : Sending(d)' = Sending(d)
      BY <3>2 DEF Sending
    <3>9. HandlerInv(c)'
      BY <3>1, <3>5, <3>7, <3>8 DEF HandlerInv
    <3>10. ASSUME NEW d \in Connections \ {c} PROVE HandlerInv(d)'
      BY <1>b, <3>6, <3>7, <3>8 DEF HandlerInv, Pc
    <3> QED  BY <3>4, <3>9, <3>10 DEF ListInv
  <2>13. CASE RemoveClient(c)
    <3>1. Contains(clients, c) /\ ~Sending(c)
      BY <2>c, <2>13 DEF RemoveClient, HandlerInv
    <3> DEFINE k == Position(c)
    <3>2. k \in 1..Len(clients) /\ clients[k] = c
      BY <1>t, <3>1, PositionFound
    <3>3. clients' = RemoveAt(clients, k)
      BY <2>13 DEF RemoveClient
    <3>n. Len(clients) \in Nat
      BY <1>t
    <3> HIDE DEF k
    <3>4. /\ Len(clients') = Len(clients) - 1
          /\ \A i \in 1..(Len(clients) - 1) :
                clients'[i] = IF i < k THEN clients[i] ELSE clients[i + 1]
      BY <1>t, <3>2, <3>3, Removed
    <3>5. Distinct(clients)'
      BY <1>b, <3>2, <3>4, <3>n DEF Distinct
    <3>6. ASSUME NEW d \in Connections \ {c}
          PROVE  Contains(clients, d)' <=> Contains(clients, d)
      <4>1. ASSUME Contains(clients, d)' PROVE Contains(clients, d)
        BY <3>2, <3>4, <3>n, <4>1 DEF Contains
      <4>2. ASSUME Contains(clients, d) PROVE Contains(clients, d)'
        <5>1. PICK i \in 1..Len(clients) : clients[i] = d
          BY <4>2 DEF Contains
        <5>2. CASE i < k
          <6>1. i \in 1..(Len(clients) - 1) /\ clients'[i] = d
            BY <3>2, <3>4, <3>n, <5>1, <5>2
          <6> QED  BY <3>4, <6>1 DEF Contains
        <5>3. CASE i > k
          <6>1. i - 1 \in 1..(Len(clients) - 1) /\ ~(i - 1 < k) /\ (i - 1) + 1 = i
            BY <3>2, <3>n, <5>3
          <6>2. clients'[i - 1] = d
            BY <3>4, <5>1, <6>1
          <6> QED  BY <3>4, <6>1, <6>2 DEF Contains
        <5>4. i # k
          BY <3>2, <5>1
        <5> QED  BY <3>2, <3>n, <5>2, <5>3, <5>4
      <4> QED  BY <4>1, <4>2
    <3>7. Pc(c)' = "over" /\ \A d \in Connections \ {c} : handler'[d] = handler[d]
      BY <2>1, <2>13 DEF RemoveClient, Finish
    <3>8. ASSUME NEW d \in Connections PROVE Sending(d)' => Sending(d)
      <4>1. d \in Threads /\ (~Sending(d) => calls'[d] = NoCall)
        BY <2>13 DEF RemoveClient, Threads
      <4> QED  BY <4>1 DEF Sending
    <3>9. HandlerInv(c)'
      BY <3>1, <3>7, <3>8 DEF HandlerInv
    <3>10. ASSUME NEW d \in Connections \ {c} PROVE HandlerInv(d)'
      BY <1>b, <3>6, <3>7, <3>8 DEF HandlerInv, Pc
    <3> QED  BY <3>5, <3>9, <3>10 DEF ListInv
  <2> QED  BY <1>5, <2>3, <2>4, <2>5, <2>6, <2>7, <2>8, <2>9, <2>10, <2>11, <2>12,
              <2>13 DEF Handle
<1>6. CASE UNCHANGED vars
  BY <1>6, <1>c DEF vars, Sending
<1> QED  BY <1>1, <1>2, <1>3, <1>4, <1>5, <1>6 DEF Next, ContentThread, Threads

-----------------------------------------------------------------------------
(* What keeps a message from being sent to a page twice.  Whatever is in   *)
(* use, sent or about to be sent, has an id that the counters have passed, *)
(* so a call starts with a new one; and a call that is under way has not   *)
(* reached the clients that are still ahead of it in the list.             *)

Looks(c) == Pc(c) = "find" /\ handler[c].why = "message"

InUse(m) ==
    \/ \E c \in Connections : Contains(got[c], m)
    \/ \E t \in Threads : Sending(t) /\ Message(calls[t]) = m

IdInv == \A m \in Messages : InUse(m) =>
    /\ m.type = "CO" => m.id <= quotes
    /\ m.type = "CL" => m.id <= terms
    /\ m.type = "CL" /\ (isLeader \/ isRunning) => m.id < terms
    /\ m.type = "CO" => \A c \in Connections : m.from = c /\ Looks(c) => m.id < quotes

GotInv == \A c \in Connections :
    Distinct(got[c]) /\ (Pc(c) \in {"none", "handshake"} => got[c] = <<>>)

Ahead(t) ==
    /\ calls[t].from = t
    /\ \A i \in 1..Len(clients) :
          i >= calls[t].next => ~Contains(got[clients[i]], Message(calls[t]))

AheadInv == \A t \in Threads : Sending(t) => Ahead(t)

SendInv == IdInv /\ GotInv /\ AheadInv

\* A step in which thread t starts no call.
GoesOn(t) == Sending(t)' => Sending(t) /\ Message(calls[t])' = Message(calls[t])
                                       /\ calls'[t].next >= calls[t].next

\* A step in which no handler thread goes back to the handshake or before it.
NoneEnters == \A c \in Connections :
    Pc(c)' \in {"none", "handshake"} => Pc(c) \in {"none", "handshake"}

USE DEF NoneEnters

(* A step that starts no call and sends nothing has no new message, and    *)
(* keeps the three parts of the invariant.                                 *)
LEMMA NoNewMessage ==
    ASSUME UNCHANGED got, \A t \in Threads : GoesOn(t), NEW m, InUse(m)'
    PROVE  InUse(m)
BY DEF InUse, GoesOn

LEMMA IdsStay ==
    ASSUME TypeOK, IdInv, UNCHANGED quotes, terms' \in Nat, terms' >= terms,
           isLeader' \/ isRunning' => isLeader \/ isRunning \/ terms' > terms,
           \A c \in Connections : Looks(c)' => Looks(c),
           \A m \in Messages : InUse(m)' => InUse(m)
    PROVE  IdInv'
<1> SUFFICES ASSUME NEW m \in Messages, InUse(m)'
             PROVE  /\ m.type = "CO" => m.id <= quotes'
                    /\ m.type = "CL" => m.id <= terms'
                    /\ m.type = "CL" /\ (isLeader' \/ isRunning') => m.id < terms'
                    /\ m.type = "CO" => \A c \in Connections :
                                          m.from = c /\ Looks(c)' => m.id < quotes'
  BY DEF IdInv
<1>1. InUse(m) /\ m.id \in Nat /\ terms \in Nat
  BY BoundsAssumption DEF Messages, TypeOK
<1> QED  BY <1>1 DEF IdInv

LEMMA GotStays ==
    ASSUME GotInv, UNCHANGED got,
           NoneEnters
    PROVE  GotInv'
BY DEF GotInv, Distinct

LEMMA AheadStays ==
    ASSUME TypeOK, NEW t \in Threads, Sending(t) => Ahead(t), UNCHANGED <<got, clients>>, GoesOn(t),
           calls' \in [Threads -> Calls]
    PROVE  Sending(t)' => Ahead(t)'
<1> SUFFICES ASSUME Sending(t)' PROVE Ahead(t)'
  OBVIOUS
<1>1. /\ Ahead(t) /\ Message(calls[t])' = Message(calls[t])
      /\ calls'[t].next >= calls[t].next
  BY DEF GoesOn
<1>2. calls'[t].from = calls[t].from
  BY <1>1 DEF Message
<1>3. calls[t].next \in Nat /\ calls'[t].next \in Nat /\ Len(clients) \in Nat
  BY DEF TypeOK, Calls
<1>4. ASSUME NEW i \in 1..Len(clients)', i >= calls'[t].next
      PROVE  ~Contains(got[clients[i]], Message(calls[t]))'
  <2>1. i \in 1..Len(clients) /\ i >= calls[t].next
    BY <1>1, <1>3, <1>4
  <2>2. ~Contains(got[clients[i]], Message(calls[t]))
    BY <1>1, <2>1 DEF Ahead
  <2> QED  BY <1>1, <2>2
<1> QED  BY <1>1, <1>2, <1>4 DEF Ahead

(* A call that starts sends a message that is not in use yet.              *)
LEMMA NewMessage ==
    ASSUME TypeOK, SendInv, NEW t \in Threads, NEW type \in {"CO", "CL"},
           NEW id \in 0..(MaxQuotes + MaxTerms),
           Start(t, type, id), UNCHANGED <<clients, got>>,
           ~InUse([type |-> type, from |-> t, id |-> id])
    PROVE  /\ AheadInv'
           /\ \A m \in Messages :
                 InUse(m)' => InUse(m) \/ m = [type |-> type, from |-> t, id |-> id]
<1> DEFINE n == [type |-> type, from |-> t, id |-> id]
<1>0. calls \in [Threads -> Calls] /\ clients \in Seq(Connections)
  BY DEF TypeOK
<1>1. calls' = [calls EXCEPT ![t] = Call(type, t, id)] /\ Call(type, t, id) \in Calls
  BY CallTypes DEF Start
<1>2. calls'[t] = Call(type, t, id) /\ \A u \in Threads \ {t} : calls'[u] = calls[u]
  BY <1>0, <1>1
<1>3. Message(calls'[t]) = n /\ calls'[t].from = t
  BY <1>2 DEF Call, Message
<1>4. \A u \in Threads \ {t} : GoesOn(u)
  BY <1>0, <1>2 DEF GoesOn, Sending, Calls
<1>5. calls' \in [Threads -> Calls]
  BY <1>0, <1>1
<1>6. Ahead(t)'
  <2>1. \A i \in 1..Len(clients') : clients'[i] \in Connections
    BY <1>0
  <2>2. \A c \in Connections : ~Contains(got[c], n)
    BY DEF InUse
  <2> HIDE DEF n
  <2> QED  BY <1>3, <2>1, <2>2 DEF Ahead
<1>7. \A u \in Threads \ {t} : Sending(u)' => Ahead(u)'
  BY <1>4, <1>5, AheadStays DEF SendInv, AheadInv
<1>8. ASSUME NEW m \in Messages, InUse(m)' PROVE InUse(m) \/ m = n
  <2>1. CASE \E c \in Connections : Contains(got'[c], m)
    BY <2>1 DEF InUse
  <2>2. CASE \E u \in Threads : Sending(u)' /\ Message(calls'[u]) = m
    <3>1. PICK u \in Threads : Sending(u)' /\ Message(calls'[u]) = m
      BY <2>2
    <3>2. CASE u = t
      BY <1>3, <3>1, <3>2
    <3>3. CASE u # t
      BY <1>2, <3>1, <3>3 DEF InUse, Sending
    <3> QED  BY <3>2, <3>3
  <2> QED  BY <1>8, <2>1, <2>2 DEF InUse
<1> QED  BY <1>6, <1>7, <1>8 DEF AheadInv

LEMMA InitSendInv == Init => SendInv
<1> SUFFICES ASSUME Init PROVE SendInv
  OBVIOUS
<1>1. \A c \in Connections : got[c] = <<>>
  BY DEF Init
<1>2. \A t \in Threads : ~Sending(t)
  BY DEF Init, Sending
<1>3. \A m : ~Contains(<<>>, m)
  BY DEF Contains
<1>4. Distinct(<<>>)
  BY DEF Distinct
<1> QED  BY <1>1, <1>2, <1>3, <1>4 DEF SendInv, IdInv, GotInv, AheadInv, InUse

LEMMA StepSendInv == TypeOK /\ ListInv /\ SendInv /\ [Next]_vars => SendInv'
<1> SUFFICES ASSUME TypeOK, ListInv, SendInv, [Next]_vars PROVE SendInv'
  OBVIOUS
<1>a. TypeOK'
  BY StepTypeOK
<1>b. /\ handler \in [Connections -> Handlers] /\ clients \in Seq(Connections)
      /\ calls \in [Threads -> Calls] /\ calls' \in [Threads -> Calls]
      /\ terms \in Nat /\ terms' \in Nat /\ quotes \in Nat /\ quotes' \in Nat
      /\ got \in [Connections -> Seq(Messages)]
  BY <1>a, BoundsAssumption DEF TypeOK
<1>c. IdInv /\ GotInv /\ AheadInv
  BY DEF SendInv
<1>d. \A t \in Threads : calls'[t] = calls[t] \/ calls'[t] = NoCall => GoesOn(t)
  BY <1>b DEF GoesOn, Sending, Calls
<1>q. ASSUME UNCHANGED <<got, clients, quotes>>, terms' >= terms,
             isLeader' \/ isRunning' => isLeader \/ isRunning \/ terms' > terms,
             \A c \in Connections : Looks(c)' => Looks(c),
             NoneEnters,
             \A t \in Threads : GoesOn(t)
      PROVE  SendInv'
  <2>1. IdInv'
    BY <1>b, <1>c, <1>q, IdsStay, NoNewMessage
  <2>2. GotInv'
    BY <1>c, <1>q, GotStays
  <2>3. AheadInv'
    BY <1>b, <1>c, <1>q, AheadStays DEF AheadInv
  <2> QED  BY <2>1, <2>2, <2>3 DEF SendInv
<1>1. CASE GainLead \/ LoseLead \/ RunServer \/ StopServer
  <2>1. \A c \in Connections : Looks(c)' = Looks(c) /\ Pc(c)' = Pc(c)
    BY <1>1 DEF GainLead, LoseLead, RunServer, StopServer, Looks, Pc
  <2>2. \A t \in Threads : GoesOn(t)
    BY <1>1, <1>d DEF GainLead, LoseLead, RunServer, StopServer
  <2>3. UNCHANGED <<got, clients, quotes>> /\ terms' >= terms
    BY <1>1, <1>b DEF GainLead, LoseLead, RunServer, StopServer
  <2>4. isLeader' \/ isRunning' => isLeader \/ isRunning \/ terms' > terms
    BY <1>1, <1>b DEF GainLead, LoseLead, RunServer, StopServer, server
  <2> QED  BY <1>q, <2>1, <2>2, <2>3, <2>4
<1>2. CASE StopProcess
  <2>1. \A c \in Connections : Pc(c)' \in {"none", "over"} /\ (Pc(c)' = "none" => Pc(c) = "none")
    BY <1>2 DEF StopProcess, Pc, Handler
  <2>2. \A c \in Connections : ~Looks(c)'
    BY <2>1 DEF Looks, Pc
  <2>3. \A t \in Threads : ~Sending(t)'
    BY <1>2 DEF StopProcess, Sending
  <2>4. \A t \in Threads : GoesOn(t)
    BY <2>3 DEF GoesOn
  <2>5. UNCHANGED <<got, quotes, terms, isLeader, isRunning>>
    BY <1>2 DEF StopProcess
  <2>6. IdInv'
    BY <1>b, <1>c, <2>2, <2>4, <2>5, IdsStay, NoNewMessage
  <2>7. GotInv'
    BY <1>c, <2>1, <2>5, GotStays
  <2> QED  BY <2>3, <2>6, <2>7 DEF SendInv, AheadInv
<1>3. CASE PublishQuote
  <2>1. Content \in Threads /\ quotes' = quotes + 1 /\ quotes' \in 0..(MaxQuotes + MaxTerms)
    BY <1>3, <1>a, BoundsAssumption DEF PublishQuote, TypeOK, Threads
  <2> DEFINE n == [type |-> "CO", from |-> Content, id |-> quotes']
  <2>2. n \in Messages /\ n.type = "CO" /\ n.id = quotes' /\ n.from = Content
    BY <2>1 DEF Messages
  <2>3. ~InUse(n)
    BY <1>b, <1>c, <2>1, <2>2 DEF IdInv
  <2>4. /\ AheadInv'
        /\ \A m \in Messages : InUse(m)' => InUse(m) \/ m = n
    BY <1>3, <2>1, <2>3, NewMessage DEF PublishQuote
  <2>5. GotInv'
    BY <1>3, <1>c, GotStays DEF PublishQuote, Pc
  <2>6. IdInv'
    <3> HIDE DEF n
    <3>1. UNCHANGED <<terms, isLeader, isRunning>> /\ \A c \in Connections : Looks(c)' = Looks(c)
      BY <1>3 DEF PublishQuote, Looks, Pc, server
    <3>2. \A c \in Connections : c # Content
      BY ContentAssumption
    <3>3. \A m \in Messages : m.id \in Nat
      BY BoundsAssumption DEF Messages
    <3> QED  BY <1>b, <1>c, <2>1, <2>2, <2>4, <3>1, <3>2, <3>3 DEF IdInv
  <2> QED  BY <2>4, <2>5, <2>6 DEF SendInv
<1>4. CASE StartClosing
  <2>1. Content \in Threads /\ terms \in 0..(MaxQuotes + MaxTerms) /\ isRunning
    BY <1>4, BoundsAssumption DEF StartClosing, TypeOK, Threads
  <2> DEFINE n == [type |-> "CL", from |-> Content, id |-> terms]
  <2>2. n \in Messages /\ n.type = "CL" /\ n.id = terms
    BY <2>1 DEF Messages
  <2>3. ~InUse(n)
    BY <1>b, <1>c, <2>1, <2>2 DEF IdInv
  <2>4. /\ AheadInv'
        /\ \A m \in Messages : InUse(m)' => InUse(m) \/ m = n
    BY <1>4, <2>1, <2>3, NewMessage DEF StartClosing
  <2>5. GotInv'
    BY <1>4, <1>c, GotStays DEF StartClosing, Pc
  <2>6. IdInv'
    <3> HIDE DEF n
    <3>1. /\ UNCHANGED <<terms, quotes>> /\ ~isLeader' /\ ~isRunning'
          /\ \A c \in Connections : Looks(c)' = Looks(c)
      BY <1>4 DEF StartClosing, Looks, Pc
    <3>3. \A m \in Messages : m.id \in Nat
      BY BoundsAssumption DEF Messages
    <3> QED  BY <1>b, <1>c, <2>2, <2>4, <3>1, <3>3 DEF IdInv
  <2> QED  BY <2>4, <2>5, <2>6 DEF SendInv
<1>5. ASSUME NEW t \in Threads, Send(t) PROVE SendInv'
  <2>0. ASSUME Advance(t), Sending(t) PROVE \A u \in Threads : GoesOn(u)
    <3>1. /\ calls[t] \in Calls
          /\ calls'[t] = [calls[t] EXCEPT !.next = @ + 1]
      BY <1>b, <2>0 DEF Advance
    <3>2. \A u \in Threads \ {t} : calls'[u] = calls[u]
      BY <1>b, <2>0 DEF Advance
    <3>3. Message(calls'[t]) = Message(calls[t]) /\ calls'[t].next >= calls[t].next
      BY <3>1 DEF Calls, Message
    <3> QED  BY <1>d, <2>0, <3>2, <3>3 DEF GoesOn
  <2>1. CASE SendToClient(t)
    <3>0. PICK a, n : a = Addressee(t) /\ n = Message(calls[t])
      OBVIOUS
    <3>1. /\ calls[t].next \in 1..Len(clients) /\ a = clients[calls[t].next] /\ a \in Connections
          /\ Sending(t) /\ n \in Messages
      <4>1. calls[t].next \in Nat \ {0} /\ Sending(t) /\ calls[t].next <= Len(clients)
        BY <1>b, <2>1 DEF Calls, SendToClient, HasNext
      <4> QED  BY <1>b, <3>0, <4>1, CallTypes DEF Addressee
    <3>2. /\ got' = [got EXCEPT ![a] = Append(got[a], n)]
          /\ UNCHANGED <<clients, handler, quotes, terms, isLeader, isRunning>>
          /\ Advance(t)
      BY <2>1, <3>0 DEF SendToClient, server
    <3>3. /\ \A x : Contains(got'[a], x) <=> Contains(got[a], x) \/ x = n
          /\ \A c \in Connections \ {a} : got'[c] = got[c]
      BY <1>b, <3>1, <3>2, AppendContains
    <3>4. \A u \in Threads : GoesOn(u)
      BY <2>0, <3>1, <3>2
    <3>5. ASSUME NEW m \in Messages, InUse(m)' PROVE InUse(m)
      <4>1. \A c \in Connections : Contains(got'[c], m) => Contains(got[c], m) \/ m = n
        BY <3>3
      <4>2. InUse(n)
        BY <3>0, <3>1 DEF InUse
      <4> QED  BY <3>4, <3>5, <4>1, <4>2 DEF InUse, GoesOn
    <3>6. IdInv'
      BY <1>b, <1>c, <3>2, <3>5, IdsStay DEF Looks, Pc
    <3>7. GotInv'
      <4>1. ~Contains(got[a], n)
        <5>1. Ahead(t) /\ calls[t].next >= calls[t].next
          BY <1>b, <1>c, <3>1 DEF AheadInv
        <5> QED  BY <3>0, <3>1, <5>1 DEF Ahead
      <4>2. Pc(a) \notin {"none", "handshake"}
        BY <3>1 DEF ListInv, HandlerInv, Contains
      <4>3. Distinct(got'[a])
        <5>1. got'[a] = Append(got[a], n) /\ got[a] \in Seq(Messages) /\ Distinct(got[a])
          BY <1>b, <1>c, <3>1, <3>2 DEF GotInv
        <5>2. /\ Len(got'[a]) = Len(got[a]) + 1 /\ Len(got[a]) \in Nat
              /\ \A i \in 1..Len(got[a]) : got'[a][i] = got[a][i]
              /\ got'[a][Len(got[a]) + 1] = n
          BY <3>1, <5>1, Appended, SMTT(30)
        <5> QED  BY <4>1, <5>1, <5>2 DEF Distinct, Contains
      <4>4. Pc(a)' = Pc(a) /\ \A c \in Connections \ {a} : Pc(c)' = Pc(c)
        BY <3>2 DEF Pc
      <4>5. (Distinct(got[a]) /\ (Pc(a) \in {"none", "handshake"} => got[a] = <<>>))'
        BY <3>2, <4>2, <4>3, <4>4
      <4>6. ASSUME NEW c \in Connections \ {a}
            PROVE  (Distinct(got[c]) /\ (Pc(c) \in {"none", "handshake"} => got[c] = <<>>))'
        BY <1>c, <3>3, <4>4 DEF GotInv
      <4> QED  BY <4>5, <4>6 DEF GotInv
    <3>8. ASSUME NEW u \in Threads, Sending(u)' PROVE Ahead(u)'
      <4>1. /\ Sending(u) /\ Ahead(u) /\ Message(calls[u])' = Message(calls[u])
            /\ calls'[u].next >= calls[u].next /\ calls[u].next \in Nat /\ calls'[u].next \in Nat
            /\ Len(clients) \in Nat
        BY <1>b, <1>c, <3>4, <3>8 DEF GoesOn, AheadInv, Calls
      <4>2. calls'[u].from = calls[u].from
        BY <4>1 DEF Message
      <4>3. ASSUME NEW i \in 1..Len(clients)', i >= calls'[u].next
            PROVE  ~Contains(got[clients[i]], Message(calls[u]))'
        <5>1. i \in 1..Len(clients) /\ i >= calls[u].next /\ clients[i] \in Connections
          BY <1>b, <3>2, <4>1, <4>3
        <5>2. ~Contains(got[clients[i]], Message(calls[u]))
          BY <4>1, <5>1 DEF Ahead
        <5>3. CASE u = t
          <6>1. i > calls[t].next
            BY <1>b, <3>2, <4>1, <4>3, <5>3 DEF Advance, Calls
          <6>2. clients[i] # a
            BY <1>b, <3>1, <5>1, <6>1 DEF ListInv, Distinct
          <6> QED  BY <3>2, <3>3, <4>1, <5>1, <5>2, <6>2
        <5>4. CASE u # t
          <6>1. Message(calls[u]) # n
            <7>1. calls[u].from = u /\ calls[t].from = t
              BY <1>c, <3>1, <4>1 DEF Ahead, AheadInv
            <7> QED  BY <3>0, <5>4, <7>1 DEF Message
          <6> QED  BY <3>2, <3>3, <4>1, <5>1, <5>2, <6>1
        <5> QED  BY <5>3, <5>4
      <4> QED  BY <4>1, <4>2, <4>3 DEF Ahead
    <3> QED  BY <3>6, <3>7, <3>8 DEF SendInv, AheadInv
  <2>2. CASE SendInVain(t)
    <3>1. /\ Advance(t) /\ Sending(t)
          /\ UNCHANGED <<got, clients, quotes, terms, isLeader, isRunning, handler>>
      BY <2>2 DEF SendInVain, HasNext, server
    <3>2. \A u \in Threads : GoesOn(u)
      BY <2>0, <3>1
    <3> QED  BY <1>b, <1>q, <3>1, <3>2 DEF Looks, Pc
  <2>3. CASE SendFails(t) \/ SentToAll(t)
    <3>1. UNCHANGED <<got, clients, quotes, terms, isLeader, isRunning>>
      BY <2>3 DEF SendFails, SentToAll, server
    <3>2. calls' = [calls EXCEPT ![t] = NoCall]
      BY <2>3 DEF SendFails, SentToAll, Return
    <3>3. \A u \in Threads : GoesOn(u)
      BY <1>b, <1>d, <3>2
    <3>4. \/ handler' = handler
          \/ \E c \in Connections : handler' = [handler EXCEPT ![c] = Handler("reading", 1, "none")]
      BY <2>3 DEF SendFails, SentToAll, Return, Threads
    <3>5. \A c \in Connections : handler'[c] = handler[c] \/ handler'[c].pc = "reading"
      BY <1>b, <3>4 DEF Handler
    <3>6. \A c \in Connections : (Looks(c)' => Looks(c)) /\ (Pc(c)' = Pc(c) \/ Pc(c)' = "reading")
      BY <3>5 DEF Looks, Pc
    <3> QED  BY <1>b, <1>q, <3>1, <3>3, <3>6
  <2> QED  BY <1>5, <2>1, <2>2, <2>3 DEF Send
<1>6. ASSUME NEW c \in Connections,
             Accept(c) \/ Handle(c) \/ ReadMessage(c) \/ Connect(c) \/ Leave(c)
      PROVE  SendInv'
  <2>0. \A t \in Threads : UNCHANGED calls => GoesOn(t)
    BY <1>d
  <2>1. ASSUME NEW pc, NEW why, Enter(c, pc, why)
        PROVE  /\ Pc(c)' = pc /\ (Looks(c)' <=> pc = "find" /\ why = "message")
               /\ \A d \in Connections \ {c} : Pc(d)' = Pc(d) /\ Looks(d)' = Looks(d)
    BY <1>b, <2>1 DEF Enter, Handler, Pc, Looks
  <2>2. ASSUME UNCHANGED <<got, clients, quotes, terms, isLeader, isRunning, calls>>,
               NEW pc, NEW why, Enter(c, pc, why), pc = "find" => why # "message",
               pc \in {"none", "handshake"} => Pc(c) \in {"none", "handshake"}
        PROVE  SendInv'
    <3>1. NoneEnters /\ \A d \in Connections : Looks(d)' => Looks(d)
      BY <2>1, <2>2
    <3> QED  BY <1>b, <1>q, <2>0, <2>2, <3>1
  <2>3. CASE Connect(c) \/ Leave(c)
    <3>1. UNCHANGED <<got, clients, quotes, terms, isLeader, isRunning, calls, handler>>
      BY <2>3 DEF Connect, Leave, server
    <3> QED  BY <1>b, <1>q, <2>0, <3>1 DEF Looks, Pc
  <2>4. CASE Accept(c)
    BY <2>2, <2>4 DEF Accept, server
  <2>5. CASE HandshakeFails(c) \/ ReadClose(c) \/ MissMessage(c)
    BY <2>2, <2>5 DEF HandshakeFails, ReadClose, MissMessage, server
  <2>6. CASE FindLeft(c)
    BY <2>2, <2>6 DEF FindLeft, server
  <2>7. CASE MissLeft(c)
    BY <2>2, <2>7 DEF MissLeft, Finish, server
  <2>8. CASE LookFurther(c)
    <3>1. UNCHANGED <<got, clients, quotes, terms, isLeader, isRunning, calls>>
      BY <2>8 DEF LookFurther, server
    <3>2. /\ handler' = [handler EXCEPT ![c] = [handler[c] EXCEPT !.next = @ + 1]]
          /\ handler[c] \in Handlers
      BY <1>b, <2>8 DEF LookFurther
    <3>3. \A d \in Connections : Pc(d)' = Pc(d) /\ Looks(d)' = Looks(d)
      BY <1>b, <3>2 DEF Pc, Looks, Handlers
    <3> QED  BY <1>b, <1>q, <2>0, <3>1, <3>3
  <2>9. CASE ReadMessage(c)
    <3>1. /\ UNCHANGED <<got, clients, terms, isLeader, isRunning, calls>>
          /\ quotes' = quotes + 1 /\ Enter(c, "find", "message") /\ Pc(c) = "reading"
      BY <2>9 DEF ReadMessage, server
    <3>2. \A m \in Messages : (InUse(m)' => InUse(m)) /\ m.id \in Nat
      BY <2>0, <3>1, NoNewMessage, BoundsAssumption DEF Messages
    <3>3. IdInv'
      BY <1>b, <1>c, <3>1, <3>2 DEF IdInv
    <3>4. GotInv'
      <4>1. NoneEnters
        BY <2>1, <3>1
      <4> QED  BY <1>c, <3>1, <4>1, GotStays
    <3>5. AheadInv'
      BY <1>b, <1>c, <2>0, <3>1, AheadStays DEF AheadInv
    <3> QED  BY <3>3, <3>4, <3>5 DEF SendInv
  <2>10. CASE HandleMessage(c)
    <3>1. /\ UNCHANGED <<got, clients, terms, isLeader, isRunning, quotes>>
          /\ Enter(c, "sending", "none") /\ Start(c, "CO", quotes) /\ Looks(c)
      BY <2>10 DEF HandleMessage, server, Looks
    <3>2. c \in Threads /\ quotes \in 0..(MaxQuotes + MaxTerms)
      BY BoundsAssumption DEF TypeOK, Threads
    <3> DEFINE n == [type |-> "CO", from |-> c, id |-> quotes]
    <3>3. n \in Messages /\ n.type = "CO" /\ n.id = quotes /\ n.from = c
      BY <3>2 DEF Messages
    <3> HIDE DEF n
    <3>4. ~InUse(n)
      <4>1. InUse(n) => \A d \in Connections : n.from = d /\ Looks(d) => n.id < quotes
        BY <1>c, <3>3 DEF IdInv
      <4>2. Looks(c) /\ n.from = c /\ ~(n.id < quotes)
        BY <1>b, <3>1, <3>3
      <4> QED  BY <4>1, <4>2
    <3> USE DEF n
    <3>5. /\ AheadInv'
          /\ \A m \in Messages : InUse(m)' => InUse(m) \/ m = n
      BY <3>1, <3>2, <3>4, NewMessage
    <3>6. ~Looks(c)' /\ \A d \in Connections \ {c} : Looks(d)' = Looks(d)
      BY <2>1, <3>1
    <3>7. NoneEnters
      BY <2>1, <3>1
    <3>8. GotInv'
      BY <1>c, <3>1, <3>7, GotStays
    <3>9. IdInv'
      <4> HIDE DEF n
      <4> QED  BY <1>b, <1>c, <3>1, <3>3, <3>5, <3>6 DEF IdInv
    <3> QED  BY <3>5, <3>8, <3>9 DEF SendInv
  <2>11. CASE Handshake(c)
    <3>1. /\ UNCHANGED <<got, terms, isLeader, isRunning, quotes, calls>>
          /\ Enter(c, "reading", "none") /\ Pc(c) = "handshake" /\ clients' = Append(clients, c)
      BY <2>11 DEF Handshake, server
    <3>2. NoneEnters /\ \A d \in Connections : Looks(d)' => Looks(d)
      BY <2>1, <3>1
    <3>3. IdInv'
      BY <1>b, <1>c, <2>0, <3>1, <3>2, IdsStay, NoNewMessage
    <3>4. GotInv'
      BY <1>c, <3>1, <3>2, GotStays
    <3>5. /\ Len(clients') = Len(clients) + 1 /\ Len(clients) \in Nat
          /\ \A i \in 1..Len(clients) : clients'[i] = clients[i]
          /\ clients'[Len(clients) + 1] = c
      BY <1>b, <3>1, Appended
    <3>6. got[c] = <<>> /\ \A m : ~Contains(got[c], m)
      BY <1>c, <3>1 DEF GotInv, Contains
    <3>7. ASSUME NEW t \in Threads, Sending(t)' PROVE Ahead(t)'
      <4>1. Ahead(t)
        BY <1>c, <3>1, <3>7 DEF AheadInv, Sending
      <4>2. ASSUME NEW i \in 1..Len(clients'), i >= calls[t].next
            PROVE  ~Contains(got[clients'[i]], Message(calls[t]))
        <5>1. CASE i \in 1..Len(clients)
          BY <3>5, <4>1, <4>2, <5>1 DEF Ahead
        <5>2. CASE i = Len(clients) + 1
          BY <3>5, <3>6, <5>2
        <5> QED  BY <3>5, <5>1, <5>2
      <4> QED  BY <3>1, <4>1, <4>2 DEF Ahead
    <3> QED  BY <3>3, <3>4, <3>7 DEF SendInv, AheadInv
  <2>12. CASE RemoveClient(c)
    <3>1. /\ UNCHANGED <<got, terms, isLeader, isRunning, quotes>>
          /\ Enter(c, "over", "none") /\ clients' = RemoveAt(clients, Position(c))
          /\ calls' = [t \in Threads |->
                IF Sending(t) THEN [calls[t] EXCEPT !.left = @ + 1] ELSE NoCall]
          /\ Contains(clients, c)
      BY <2>12 DEF RemoveClient, server, Finish, ListInv, HandlerInv
    <3>2. NoneEnters /\ \A d \in Connections : Looks(d)' => Looks(d)
      BY <2>1, <3>1
    <3>3. ASSUME NEW t \in Threads
          PROVE  /\ Sending(t)' => Sending(t)
                 /\ Sending(t) => /\ Message(calls'[t]) = Message(calls[t])
                                  /\ calls'[t].next = calls[t].next
                                  /\ calls'[t].from = calls[t].from
      BY <1>b, <3>1 DEF Sending, Message, Calls
    <3>4. \A t \in Threads : GoesOn(t)
      BY <1>b, <3>3 DEF GoesOn, Calls
    <3>5. IdInv'
      BY <1>b, <1>c, <3>1, <3>2, <3>4, IdsStay, NoNewMessage
    <3>6. GotInv'
      BY <1>c, <3>1, <3>2, GotStays
    <3> DEFINE k == Position(c)
    <3>7. k \in 1..Len(clients) /\ Len(clients) \in Nat
      BY <1>b, <3>1, PositionFound
    <3>8. clients' = RemoveAt(clients, k)
      BY <3>1
    <3> HIDE DEF k
    <3>9. /\ Len(clients') = Len(clients) - 1
          /\ \A i \in 1..(Len(clients) - 1) :
                clients'[i] = IF i < k THEN clients[i] ELSE clients[i + 1]
      BY <1>b, <3>7, <3>8, Removed
    <3>10. ASSUME NEW t \in Threads, Sending(t)' PROVE Ahead(t)'
      <4>1. Ahead(t) /\ calls[t].next \in Nat
        BY <1>b, <1>c, <3>3, <3>10 DEF AheadInv, Calls
      <4>2. ASSUME NEW i \in 1..Len(clients'), i >= calls[t].next
            PROVE  ~Contains(got[clients'[i]], Message(calls[t]))
        <5>1. PICK j \in 1..Len(clients) : j >= i /\ clients'[i] = clients[j]
          BY <3>7, <3>9
        <5>2. j >= calls[t].next
          BY <4>1, <4>2, <5>1, <3>7, <3>9
        <5> QED  BY <4>1, <5>1, <5>2 DEF Ahead
      <4> QED  BY <3>1, <3>3, <3>10, <4>1, <4>2 DEF Ahead
    <3> QED  BY <3>5, <3>6, <3>10 DEF SendInv, AheadInv
  <2> QED  BY <1>6, <2>3, <2>4, <2>5, <2>6, <2>7, <2>8, <2>9, <2>10, <2>11, <2>12 DEF Handle
<1>7. CASE UNCHANGED vars
  <2>1. UNCHANGED <<got, clients, quotes, terms, isLeader, isRunning, calls, handler>>
    BY <1>7 DEF vars, server
  <2> QED  BY <1>b, <1>d, <1>q, <2>1 DEF Looks, Pc
<1> QED  BY <1>1, <1>2, <1>3, <1>4, <1>5, <1>6, <1>7 DEF Next, ContentThread, Threads

LEMMA GotOnce == TypeOK /\ GotInv => NoMessageTwice
<1> SUFFICES ASSUME TypeOK, GotInv, NEW c \in Connections PROVE IsInjective(got[c])
  BY DEF NoMessageTwice
<1>1. got[c] \in Seq(Messages) /\ Distinct(got[c])
  BY DEF TypeOK, GotInv
<1>2. DOMAIN got[c] = 1..Len(got[c])
  BY <1>1
<1> QED  BY <1>1, <1>2 DEF IsInjective, Distinct

-----------------------------------------------------------------------------
(* What keeps the loop from missing many of the clients that stay.  Those  *)
(* of the beginning that are behind the place of the loop and have not got *)
(* the message (Skipped) are no more than were removed since it began.     *)

MissesFew(t) ==
    /\ IsFiniteSet(calls[t].due)
    /\ \A c \in calls[t].due : Pc(c) \notin {"none", "handshake"}
    /\ Cardinality(Skipped(t)) <= calls[t].left

MissInv == \A t \in Threads : Sending(t) => MissesFew(t)

(* Who is behind are no more than before in a step that only lets more of  *)
(* them be served, leave, or be counted.                                   *)
LEMMA MissStays ==
    ASSUME TypeOK, NEW t \in Threads, MissesFew(t), calls' \in [Threads -> Calls],
           calls'[t].due = calls[t].due, calls'[t].left >= calls[t].left,
           Skipped(t)' \subseteq Skipped(t),
           NoneEnters
    PROVE  MissesFew(t)'
<1>1. calls[t] \in Calls /\ calls'[t] \in Calls
  BY DEF TypeOK
<1>2. calls[t].due \subseteq Connections /\ calls[t].left \in Nat /\ calls'[t].left \in Nat
  BY <1>1 DEF Calls
<1>3. IsFiniteSet(Skipped(t))
  BY FS_Subset DEF Skipped, MissesFew
<1>4. /\ Cardinality(Skipped(t)) \in Nat /\ Cardinality(Skipped(t)') \in Nat
      /\ Cardinality(Skipped(t)') <= Cardinality(Skipped(t))
  BY <1>3, FS_Subset, FS_CardinalityType
<1>5. Cardinality(Skipped(t)') <= calls'[t].left
  BY <1>2, <1>4 DEF MissesFew
<1> QED  BY <1>2, <1>5 DEF MissesFew

LEMMA MissedStays ==
    ASSUME TypeOK, NEW t \in Threads, UNCHANGED <<clients, got>>, calls'[t] = calls[t],
           \A c \in Connections : conn'[c] = "open" => conn[c] = "open"
    PROVE  Skipped(t)' \subseteq Skipped(t)
<1>1. calls[t].due \subseteq Connections
  BY DEF TypeOK, Calls
<1> QED  BY <1>1 DEF Skipped

(* When a call begins, no one is behind.                                   *)
LEMMA MissedNone ==
    ASSUME TypeOK, ListInv, NEW t \in Threads, NEW type \in {"CO", "CL"},
           NEW id \in 0..(MaxQuotes + MaxTerms), Start(t, type, id), UNCHANGED clients,
           NoneEnters
    PROVE  MissesFew(t)'
<1>1. calls'[t] = Call(type, t, id) /\ clients \in Seq(Connections)
  BY DEF Start, TypeOK
<1>2. calls'[t].due = ToSet(clients) /\ calls'[t].next = 1 /\ calls'[t].left = 0
  BY <1>1 DEF Call
<1>3. ToSet(clients) = {clients[i] : i \in 1..Len(clients)} /\ Len(clients) \in Nat
  BY <1>1 DEF ToSet
<1>4. IsFiniteSet(ToSet(clients))
  <2>1. IsFiniteSet(1..Len(clients))
    BY <1>3, FS_Interval
  <2> DEFINE f == [i \in 1..Len(clients) |-> clients[i]]
  <2>2. f \in Surjection(1..Len(clients), ToSet(clients))
    BY <1>3 DEF Surjection
  <2> HIDE DEF f
  <2> QED  BY <2>1, <2>2, FS_Surjection
<1>5. ASSUME NEW c \in ToSet(clients) PROVE Pc(c)' \notin {"none", "handshake"}
  <2>1. c \in Connections /\ Contains(clients, c)
    BY <1>1, <1>3 DEF Contains
  <2> QED  BY <2>1 DEF ListInv, HandlerInv
<1>6. Skipped(t)' = {}
  <2>1. \A c \in ToSet(clients) : \E i \in 1..Len(clients) : i >= 1 /\ clients[i] = c
    BY <1>3
  <2> QED  BY <1>2, <2>1 DEF Skipped
<1> QED  BY <1>2, <1>4, <1>5, <1>6, FS_EmptySet DEF MissesFew

LEMMA StepMissInv == TypeOK /\ ListInv /\ MissInv /\ [Next]_vars => MissInv'
<1> SUFFICES ASSUME TypeOK, ListInv, MissInv, [Next]_vars, NEW t \in Threads, Sending(t)'
             PROVE  MissesFew(t)'
  BY DEF MissInv
<1>b. /\ handler \in [Connections -> Handlers] /\ clients \in Seq(Connections)
      /\ calls \in [Threads -> Calls] /\ calls' \in [Threads -> Calls]
      /\ got \in [Connections -> Seq(Messages)] /\ Len(clients) \in Nat
      /\ conn \in [Connections -> {"none", "waiting", "open", "left", "gone"}]
  BY StepTypeOK DEF TypeOK
<1>c. \A u \in Threads : /\ calls[u].due \subseteq Connections /\ calls[u].next \in Nat
                         /\ calls[u].left \in Nat /\ (Sending(u) => MissesFew(u))
  BY <1>b DEF MissInv, Calls
<1>q. ASSUME UNCHANGED <<got, clients>>, calls'[t] = calls[t],
             \A c \in Connections : conn'[c] = "open" => conn[c] = "open",
             NoneEnters
      PROVE  MissesFew(t)'
  <2>1. MissesFew(t) /\ calls'[t].due = calls[t].due /\ calls'[t].left >= calls[t].left
    BY <1>b, <1>c, <1>q DEF Sending
  <2>2. Skipped(t)' \subseteq Skipped(t)
    BY <1>q, MissedStays
  <2> QED  BY <1>b, <1>q, <2>1, <2>2, MissStays
<1>1. CASE GainLead \/ LoseLead \/ RunServer
  BY <1>1, <1>q DEF GainLead, LoseLead, RunServer, Pc
<1>2. CASE StopServer
  <2>1. \A c \in Connections : conn'[c] = "open" => conn[c] = "open"
    BY <1>2 DEF StopServer
  <2> QED  BY <1>2, <1>q, <2>1 DEF StopServer, Pc
<1>3. CASE StopProcess
  BY <1>3 DEF StopProcess, Sending
<1>4. CASE PublishQuote \/ StartClosing
  <2>1. UNCHANGED <<got, clients, conn, handler>> /\ Content \in Threads
    BY <1>4 DEF PublishQuote, StartClosing, Threads
  <2>2. PICK type \in {"CO", "CL"}, id \in 0..(MaxQuotes + MaxTerms) : Start(Content, type, id)
    <3>1. CASE PublishQuote
      <4>1. quotes' \in 0..(MaxQuotes + MaxTerms) /\ Start(Content, "CO", quotes')
        BY <3>1, StepTypeOK, BoundsAssumption DEF PublishQuote, TypeOK
      <4> QED  BY <4>1
    <3>2. CASE StartClosing
      <4>1. terms \in 0..(MaxQuotes + MaxTerms) /\ Start(Content, "CL", terms)
        BY <3>2, BoundsAssumption DEF StartClosing, TypeOK
      <4> QED  BY <4>1
    <3> QED  BY <1>4, <3>1, <3>2
  <2>3. CASE t = Content
    BY <2>1, <2>2, <2>3, MissedNone DEF Pc
  <2>4. CASE t # Content
    <3>1. calls'[t] = calls[t]
      BY <1>b, <2>2, <2>4 DEF Start
    <3> QED  BY <1>q, <2>1, <3>1 DEF Pc
  <2> QED  BY <2>3, <2>4
<1>5. ASSUME NEW u \in Threads, Send(u) PROVE MissesFew(t)'
  <2>0. ASSUME Advance(u), Sending(u)
        PROVE  /\ Sending(t) /\ MissesFew(t) /\ Message(calls'[t]) = Message(calls[t])
               /\ calls'[t].due = calls[t].due /\ calls'[t].left >= calls[t].left
               /\ calls'[t].next = IF t = u THEN calls[t].next + 1 ELSE calls[t].next
    <3>1. /\ calls[t] \in Calls
          /\ calls'[t] = IF t = u THEN [calls[t] EXCEPT !.next = @ + 1] ELSE calls[t]
      BY <1>b, <2>0 DEF Advance
    <3>2. Sending(t)
      BY <2>0, <3>1 DEF Sending
    <3> QED  BY <1>c, <3>1, <3>2 DEF Calls, Message
  <2>1. CASE SendToClient(u) \/ SendInVain(u)
    <3>1. PICK a : a = Addressee(u)
      OBVIOUS
    <3>2. /\ calls[u].next \in 1..Len(clients) /\ a = clients[calls[u].next] /\ a \in Connections
          /\ Sending(u)
      <4>1. calls[u].next \in Nat \ {0} /\ Sending(u) /\ calls[u].next <= Len(clients)
        BY <1>b, <2>1 DEF Calls, SendToClient, SendInVain, HasNext
      <4> QED  BY <1>b, <3>1, <4>1 DEF Addressee
    <3>3. /\ UNCHANGED <<clients, handler, conn>> /\ Advance(u)
          /\ \/ conn[a] = "left" /\ UNCHANGED got
             \/ got' = [got EXCEPT ![a] = Append(got[a], Message(calls[u]))]
      BY <2>1, <3>1 DEF SendToClient, SendInVain
    <3>4. ASSUME NEW d \in Skipped(t)' PROVE d \in Skipped(t)
      <4>1. /\ d \in calls[t].due /\ d \in Connections /\ conn[d] = "open"
            /\ ~Contains(got'[d], Message(calls[t]))
            /\ \A i \in 1..Len(clients) : i >= calls'[t].next => clients[i] # d
        BY <1>c, <2>0, <3>2, <3>3, <3>4 DEF Skipped
      <4>2. ~Contains(got[d], Message(calls[t])) /\ (t = u => d # a)
        <5>1. CASE conn[a] = "left" /\ UNCHANGED got
          BY <4>1, <5>1
        <5>2. CASE got' = [got EXCEPT ![a] = Append(got[a], Message(calls[u]))]
          <6>1. CASE d = a
            <7>1. got'[a] = Append(got[a], Message(calls[u]))
              BY <1>b, <3>2, <5>2
            <7>2. ~Contains(got[a], Message(calls[t])) /\ Message(calls[t]) # Message(calls[u])
              BY <1>b, <3>2, <4>1, <6>1, <7>1, CallTypes, AppendContains
            <7> QED  BY <6>1, <7>2
          <6>2. CASE d # a
            BY <1>b, <4>1, <5>2, <6>2
          <6> QED  BY <6>1, <6>2
        <5> QED  BY <3>3, <5>1, <5>2
      <4>3. ASSUME NEW i \in 1..Len(clients), i >= calls[t].next PROVE clients[i] # d
        <5>1. i >= calls'[t].next \/ (t = u /\ i = calls[t].next)
          BY <1>c, <2>0, <3>2, <3>3, <4>3
        <5> QED  BY <3>2, <4>1, <4>2, <5>1
      <4> QED  BY <4>1, <4>2, <4>3 DEF Skipped
    <3>5. \A c \in Connections : Pc(c)' = Pc(c)
      BY <3>3 DEF Pc
    <3>6. Skipped(t)' \subseteq Skipped(t)
      BY <3>4
    <3> QED  BY <1>b, <2>0, <3>2, <3>3, <3>5, <3>6, MissStays
  <2>2. CASE SendFails(u) \/ SentToAll(u)
    <3>1. calls' = [calls EXCEPT ![u] = NoCall] /\ UNCHANGED <<clients, got, conn>>
      BY <2>2 DEF SendFails, SentToAll, Return
    <3>2. calls'[t] = calls[t]
      BY <1>b, <3>1 DEF Sending
    <3>3. handler' = handler \/ handler' = [handler EXCEPT ![u] = Handler("reading", 1, "none")]
      BY <2>2 DEF SendFails, SentToAll, Return
    <3>4. NoneEnters
      <4>1. \A c \in Connections : handler'[c] = handler[c] \/ handler'[c].pc = "reading"
        BY <1>b, <3>3 DEF Handler
      <4> QED  BY <4>1 DEF Pc
    <3> QED  BY <1>q, <3>1, <3>2, <3>4
  <2> QED  BY <1>5, <2>1, <2>2 DEF Send
<1>6. ASSUME NEW c \in Connections,
             Accept(c) \/ Handle(c) \/ ReadMessage(c) \/ Connect(c) \/ Leave(c)
      PROVE  MissesFew(t)'
  <2>1. ASSUME NEW pc, NEW why, Enter(c, pc, why)
        PROVE  Pc(c)' = pc /\ \A d \in Connections \ {c} : Pc(d)' = Pc(d)
    BY <1>b, <2>1 DEF Enter, Handler, Pc
  <2>2. ASSUME UNCHANGED <<got, clients, calls>>,
               \A d \in Connections : conn'[d] = "open" => conn[d] = "open",
               NEW pc, NEW why, Enter(c, pc, why),
               pc \in {"none", "handshake"} => Pc(c) \in {"none", "handshake"}
        PROVE  MissesFew(t)'
    <3>1. NoneEnters
      BY <2>1, <2>2
    <3> QED  BY <1>q, <2>2, <3>1
  <2>3. CASE Connect(c) \/ Leave(c)
    BY <1>b, <1>q, <2>3 DEF Connect, Leave, Pc
  <2>4. CASE Accept(c)
    BY <2>2, <2>4 DEF Accept
  <2>5. CASE HandshakeFails(c) \/ ReadClose(c) \/ MissMessage(c)
    BY <2>2, <2>5 DEF HandshakeFails, ReadClose, MissMessage
  <2>6. CASE FindLeft(c) \/ ReadMessage(c)
    BY <2>2, <2>6 DEF FindLeft, ReadMessage
  <2>7. CASE MissLeft(c)
    <3>1. \A d \in Connections : conn'[d] = "open" => conn[d] = "open"
      BY <1>b, <2>7 DEF MissLeft, Finish
    <3> QED  BY <2>2, <2>7, <3>1 DEF MissLeft, Finish
  <2>8. CASE LookFurther(c)
    <3>1. /\ handler' = [handler EXCEPT ![c] = [handler[c] EXCEPT !.next = @ + 1]]
          /\ handler[c] \in Handlers
      BY <1>b, <2>8 DEF LookFurther
    <3>2. \A d \in Connections : Pc(d)' = Pc(d)
      BY <1>b, <3>1 DEF Pc, Handlers
    <3> QED  BY <1>q, <2>8, <3>2 DEF LookFurther
  <2>9. CASE HandleMessage(c)
    <3>1. /\ UNCHANGED <<got, clients, conn>> /\ Enter(c, "sending", "none")
          /\ Start(c, "CO", quotes) /\ c \in Threads /\ quotes \in 0..(MaxQuotes + MaxTerms)
      BY <2>9, BoundsAssumption DEF HandleMessage, TypeOK, Threads
    <3>2. NoneEnters
      BY <2>1, <3>1
    <3>3. CASE t = c
      BY <3>1, <3>2, <3>3, MissedNone
    <3>4. CASE t # c
      <4>1. calls'[t] = calls[t]
        BY <1>b, <3>1, <3>4 DEF Start
      <4> QED  BY <1>q, <3>1, <3>2, <4>1
    <3> QED  BY <3>3, <3>4
  <2>10. CASE Handshake(c)
    <3>1. /\ UNCHANGED <<got, calls>> /\ Pc(c) = "handshake" /\ Enter(c, "reading", "none")
          /\ clients' = Append(clients, c)
          /\ conn' = [conn EXCEPT ![c] = IF @ = "waiting" THEN "open" ELSE @]
      BY <2>10 DEF Handshake
    <3>2. MissesFew(t)
      BY <1>c, <3>1 DEF Sending
    <3>3. c \notin calls[t].due
      BY <3>1, <3>2 DEF MissesFew
    <3>4. /\ Len(clients') = Len(clients) + 1
          /\ \A i \in 1..Len(clients) : clients'[i] = clients[i]
      BY <1>b, <3>1, Appended
    <3>5. ASSUME NEW d \in Skipped(t)' PROVE d \in Skipped(t)
      <4>1. /\ d \in calls[t].due /\ d \in Connections /\ conn'[d] = "open" /\ d # c
            /\ ~Contains(got[d], Message(calls[t]))
            /\ \A i \in 1..Len(clients') : i >= calls[t].next => clients'[i] # d
        BY <1>c, <3>1, <3>3, <3>5 DEF Skipped
      <4>2. conn[d] = "open"
        BY <1>b, <3>1, <4>1
      <4>3. \A i \in 1..Len(clients) : i >= calls[t].next => clients[i] # d
        BY <1>b, <3>4, <4>1
      <4> QED  BY <4>1, <4>2, <4>3 DEF Skipped
    <3>6. NoneEnters
      BY <2>1, <3>1
    <3>7. /\ Skipped(t)' \subseteq Skipped(t)
          /\ calls'[t].due = calls[t].due /\ calls'[t].left >= calls[t].left
      BY <1>c, <3>1, <3>5
    <3> QED  BY <1>b, <3>2, <3>6, <3>7, MissStays
  <2>11. CASE RemoveClient(c)
    <3>1. /\ UNCHANGED got /\ Enter(c, "over", "none") /\ conn' = [conn EXCEPT ![c] = "gone"]
          /\ clients' = RemoveAt(clients, Position(c))
          /\ calls' = [u \in Threads |->
                IF Sending(u) THEN [calls[u] EXCEPT !.left = @ + 1] ELSE NoCall]
          /\ Contains(clients, c)
      BY <2>11 DEF RemoveClient, Finish, ListInv, HandlerInv
    <3>2. /\ Sending(t) /\ MissesFew(t) /\ Message(calls'[t]) = Message(calls[t])
          /\ calls'[t].next = calls[t].next /\ calls'[t].due = calls[t].due
          /\ calls'[t].left = calls[t].left + 1
      <4>1. Sending(t)
        BY <3>1 DEF Sending
      <4>2. calls[t] \in Calls /\ calls'[t] = [calls[t] EXCEPT !.left = @ + 1]
        BY <1>b, <3>1, <4>1
      <4> QED  BY <1>c, <4>1, <4>2 DEF Calls, Message
    <3>3. PICK k : k = Position(c)
      OBVIOUS
    <3>4. k \in 1..Len(clients) /\ clients[k] = c
      BY <1>b, <3>1, <3>3, PositionFound
    <3>5. /\ Len(clients') = Len(clients) - 1
          /\ \A i \in 1..(Len(clients) - 1) :
                clients'[i] = IF i < k THEN clients[i] ELSE clients[i + 1]
      BY <1>b, <3>1, <3>3, <3>4, Removed
    <3>6. PICK e : e = clients[calls[t].next]
      OBVIOUS
    <3>7. ASSUME NEW d \in Skipped(t)', d # e PROVE d \in Skipped(t)
      <4>1. /\ d \in calls[t].due /\ d \in Connections /\ conn'[d] = "open"
            /\ ~Contains(got[d], Message(calls[t]))
            /\ \A i \in 1..Len(clients') : i >= calls[t].next => clients'[i] # d
        BY <1>c, <3>1, <3>2, <3>7 DEF Skipped
      <4>2. conn[d] = "open" /\ d # c
        BY <1>b, <3>1, <4>1
      <4>3. ASSUME NEW i \in 1..Len(clients), i >= calls[t].next PROVE clients[i] # d
        <5>1. CASE i < k
          <6>1. i \in 1..(Len(clients) - 1)
            BY <1>b, <3>4, <5>1
          <6>2. clients'[i] = clients[i] /\ i \in 1..Len(clients')
            BY <3>5, <5>1, <6>1
          <6> QED  BY <4>1, <4>3, <6>2
        <5>2. CASE i = k \/ i = calls[t].next
          BY <3>4, <3>6, <3>7, <4>2, <5>2
        <5>3. CASE i > k /\ i > calls[t].next
          <6>1. /\ i - 1 \in 1..Len(clients') /\ i - 1 >= calls[t].next
                /\ ~(i - 1 < k) /\ (i - 1) + 1 = i
            BY <1>b, <1>c, <3>4, <3>5, <5>3
          <6> QED  BY <3>5, <4>1, <6>1
        <5> QED  BY <1>b, <1>c, <3>4, <4>3, <5>1, <5>2, <5>3
      <4> QED  BY <4>1, <4>2, <4>3 DEF Skipped
    <3>8. Skipped(t)' \subseteq Skipped(t) \cup {e}
      BY <3>7
    <3>9. IsFiniteSet(Skipped(t))
      BY <3>2, FS_Subset DEF Skipped, MissesFew
    <3>10. /\ IsFiniteSet(Skipped(t) \cup {e})
           /\ Cardinality(Skipped(t) \cup {e}) <= Cardinality(Skipped(t)) + 1
           /\ Cardinality(Skipped(t)) \in Nat
      <4>1. /\ IsFiniteSet(Skipped(t) \cup {e})
            /\ Cardinality(Skipped(t) \cup {e}) =
                  IF e \in Skipped(t) THEN Cardinality(Skipped(t)) ELSE Cardinality(Skipped(t)) + 1
        BY <3>9, FS_AddElement
      <4>2. Cardinality(Skipped(t)) \in Nat
        BY <3>9, FS_CardinalityType
      <4> QED  BY <4>1, <4>2
    <3>11. Cardinality(Skipped(t)') <= Cardinality(Skipped(t)) + 1
      <4>1. Cardinality(Skipped(t)') <= Cardinality(Skipped(t) \cup {e}) /\ IsFiniteSet(Skipped(t)')
        BY <3>8, <3>10, FS_Subset
      <4> QED  BY <3>10, <4>1, FS_CardinalityType
    <3>12. Cardinality(Skipped(t)') <= calls'[t].left
      <4>1. Cardinality(Skipped(t)') \in Nat
        BY <3>8, <3>10, FS_Subset, FS_CardinalityType
      <4> QED  BY <1>c, <3>2, <3>10, <3>11, <4>1 DEF MissesFew
    <3>13. NoneEnters
      BY <2>1, <3>1
    <3> QED  BY <1>c, <3>2, <3>12, <3>13 DEF MissesFew
  <2> QED  BY <1>6, <2>3, <2>4, <2>5, <2>6, <2>7, <2>8, <2>9, <2>10, <2>11 DEF Handle
<1>7. CASE UNCHANGED vars
  BY <1>7, <1>q DEF vars, Pc
<1> QED  BY <1>1, <1>2, <1>3, <1>4, <1>5, <1>6, <1>7 DEF Next, ContentThread, Threads

LEMMA SkippedFew == MissInv => SkippedOnlyForLeavers
BY DEF MissInv, MissesFew, SkippedOnlyForLeavers

-----------------------------------------------------------------------------
(* Theorem TypeCorrect: whatever the threads, the pages and the election   *)
(* do, every variable has a value of its type.                             *)
THEOREM TypeCorrect == Spec => []TypeOK
<1>1. Init => TypeOK /\ ListInv
  BY InitTypeOK, InitListInv
<1>2. TypeOK /\ ListInv /\ [Next]_vars => (TypeOK /\ ListInv)'
  BY StepTypeOK, StepListInv
<1> QED  BY <1>1, <1>2, PTL DEF Spec

(* Theorem ReadersAreListed: a client whose handler reads, sends or is     *)
(* about to remove it is in the list, in one place, whatever other threads *)
(* add and remove meanwhile: remove never fails in _client_left_, and no   *)
(* client is sent a message twice for being in the list twice.             *)
THEOREM ReadersAreListed == Spec => []ReadersListed
<1>1. Init => TypeOK /\ ListInv
  BY InitTypeOK, InitListInv
<1>2. TypeOK /\ ListInv /\ [Next]_vars => (TypeOK /\ ListInv)'
  BY StepTypeOK, StepListInv
<1>3. TypeOK /\ ListInv => ReadersListed
  BY ListedOnce
<1> QED  BY <1>1, <1>2, <1>3, PTL DEF Spec

(* Theorem NoPageIsSentTwice: no page is sent a quote, a reply or a close  *)
(* message twice, although the loops of all threads run over one list that *)
(* grows and shrinks under them: what moves in it moves towards the front, *)
(* where the loop has been, and no one starts a message a second time.     *)
THEOREM NoPageIsSentTwice == Spec => []NoMessageTwice
<1>1. Init => TypeOK /\ ListInv /\ SendInv
  BY InitTypeOK, InitListInv, InitSendInv
<1>2. TypeOK /\ ListInv /\ SendInv /\ [Next]_vars => (TypeOK /\ ListInv /\ SendInv)'
  BY StepTypeOK, StepListInv, StepSendInv
<1>3. TypeOK /\ ListInv /\ SendInv => NoMessageTwice
  BY GotOnce DEF SendInv
<1> QED  BY <1>1, <1>2, <1>3, PTL DEF Spec

(* Theorem LoopSkipsOnlyForLeavers: at every moment of a call, of the      *)
(* clients that it found in the list and that stay, no more were skipped   *)
(* than were removed from the list since it began, for any number of       *)
(* clients and senders.                                                    *)
THEOREM LoopSkipsOnlyForLeavers == Spec => []SkippedOnlyForLeavers
<1>1. Init => TypeOK /\ ListInv /\ MissInv
  BY InitTypeOK, InitListInv DEF Init, MissInv, Sending
<1>2. TypeOK /\ ListInv /\ MissInv /\ [Next]_vars => (TypeOK /\ ListInv /\ MissInv)'
  BY StepTypeOK, StepListInv, StepMissInv
<1>3. TypeOK /\ ListInv /\ MissInv => SkippedOnlyForLeavers
  BY SkippedFew
<1> QED  BY <1>1, <1>2, <1>3, PTL DEF Spec

=============================================================================
