-------------------------- MODULE ReplicationProofs -------------------------
(***************************************************************************)
(* Proofs about Replication, for any servers, members, quotes and threads, *)
(* any losses, copies, crashes and servers that are removed and come back: *)
(* every variable keeps its type, and the receiving thread has what it is  *)
(* about to deliver and to send.                                           *)
(***************************************************************************)
EXTENDS Replication, ListLemmas

(* The messages taken out of the hold-back queue in one round keep their   *)
(* order, each is taken once and none is left out.                         *)
LEMMA PickedProperties ==
    ASSUME NEW S, NEW list \in Seq(S), NEW places \in SUBSET (DOMAIN list)
    PROVE  /\ Cardinality(places) \in Nat
           /\ Picked(list, places) \in Seq(S) /\ Len(Picked(list, places)) = Cardinality(places)
           /\ \A k \in 1..Cardinality(places) :
                 Place(places, k) \in places /\ Picked(list, places)[k] = list[Place(places, k)]
           /\ \A i \in places : \E k \in 1..Cardinality(places) : Place(places, k) = i
           /\ \A k, l \in 1..Cardinality(places) : k < l => Place(places, k) < Place(places, l)
<1>0. PICK n, N, c : /\ n = Len(list) /\ N = Cardinality(places)
                     /\ c = [m \in Nat |-> Cardinality(Upto(places, m))]
  OBVIOUS
<1>1. /\ n \in Nat /\ DOMAIN list = 1..n
      /\ places \in SUBSET Nat /\ 0 \notin places /\ \A i \in places : 1 <= i /\ i <= n
  BY <1>0
<1>2. IsFiniteSet(places) /\ N \in Nat
  <2>1. IsFiniteSet(1..n)
    BY <1>1, FS_Interval
  <2>2. IsFiniteSet(places)
    BY <1>1, <2>1, FS_Subset
  <2> QED  BY <1>0, <2>2, FS_CardinalityType
<1>3. Upto(places, n) = places
  <2>1. \A i \in places : i <= n
    BY <1>1
  <2> QED  BY <2>1, Zenon DEF Upto
<1>4. /\ c \in [Nat -> Nat] /\ c[0] = 0 /\ c[n] = N
      /\ \A m \in Nat : c[m + 1] = IF m + 1 \in places THEN c[m] + 1 ELSE c[m]
      /\ \A m, l \in Nat : m <= l => c[m] <= c[l]
  <2>1. /\ \A m \in Nat : Cardinality(Upto(places, m)) \in Nat
        /\ Cardinality(Upto(places, 0)) = 0
        /\ \A m \in Nat : Cardinality(Upto(places, m + 1)) =
                 IF m + 1 \in places THEN Cardinality(Upto(places, m)) + 1
                                     ELSE Cardinality(Upto(places, m))
        /\ \A m, l \in Nat : m <= l => Cardinality(Upto(places, m)) <= Cardinality(Upto(places, l))
    BY <1>1, <1>2, UptoGrows
  <2>2. \A m \in Nat : c[m] = Cardinality(Upto(places, m))
    BY <1>0
  <2>3. c \in [Nat -> Nat] /\ c[0] = 0
    BY <1>0, <2>1
  <2>4. c[n] = N
    BY <1>0, <1>1, <1>3, <2>2
  <2>5. \A m \in Nat : m + 1 \in Nat
    OBVIOUS
  <2>6. \A m \in Nat : c[m + 1] = IF m + 1 \in places THEN c[m] + 1 ELSE c[m]
    BY <2>1, <2>2, <2>5
  <2>7. \A m, l \in Nat : m <= l => c[m] <= c[l]
    BY <2>1, <2>2
  <2> QED  BY <2>3, <2>4, <2>6, <2>7
<1>5. \A k : Place(places, k) = CHOOSE i \in places : c[i] = k
  <2>1. \A i \in places : c[i] = Cardinality({j \in places : j <= i})
    BY <1>0, <1>1 DEF Upto
  <2> QED  BY <2>1, Zenon DEF Place
<1>6. /\ \A k \in 1..N : \E i \in places : c[i] = k
      /\ \A i \in places : c[i] \in 1..N
      /\ \A i, j \in places : i < j => c[i] < c[j]
  BY <1>1, <1>4, CountedPlaces, ZenonT(30)
<1>7. ASSUME NEW k \in 1..N PROVE Place(places, k) \in places /\ c[Place(places, k)] = k
  BY <1>5, <1>6
<1>8. ASSUME NEW i \in places PROVE c[i] \in 1..N /\ Place(places, c[i]) = i
  <2>1. c[i] \in 1..N
    BY <1>6
  <2>2. PICK j \in places : j = Place(places, c[i]) /\ c[j] = c[i]
    BY <1>7, <2>1
  <2>3. i \in Nat /\ j \in Nat /\ c[i] \in Nat
    BY <1>1, <2>1
  <2>4. ~(i < j) /\ ~(j < i)
    BY <1>6, <2>2, <2>3
  <2> QED  BY <2>1, <2>2, <2>3, <2>4
<1>9. ASSUME NEW k \in 1..N, NEW l \in 1..N, k < l PROVE Place(places, k) < Place(places, l)
  <2>1. PICK i \in places, j \in places : /\ i = Place(places, k) /\ c[i] = k
                                          /\ j = Place(places, l) /\ c[j] = l
    BY <1>7
  <2>2. i \in Nat /\ j \in Nat /\ k \in Nat /\ l \in Nat
    BY <1>1
  <2>3. ~(j < i) /\ i # j
    BY <1>6, <1>9, <2>1, <2>2
  <2>4. i < j
    BY <2>2, <2>3
  <2> QED  BY <2>1, <2>4
<1>10. Picked(list, places) = [k \in 1..N |-> list[Place(places, k)]]
  BY <1>0 DEF Picked
<1>11. \A k \in 1..N : list[Place(places, k)] \in S
  BY <1>7
<1>12. Picked(list, places) \in Seq(S) /\ Len(Picked(list, places)) = N
  BY <1>2, <1>10, <1>11
<1> QED  BY <1>0, <1>2, <1>7, <1>8, <1>9, <1>10, <1>12

-----------------------------------------------------------------------------
(* The operations of the database, and of the lists.                       *)
LEMMA InsertTypes ==
    ASSUME NEW S, NEW db \in Seq(S), NEW item \in S
    PROVE  Insert(db, item) \in Seq(S)
<1>1. CASE Has(db, item)
  <2>1. Insert(db, item) = [i \in 1..Len(db) |-> IF db[i].id = item.id THEN item ELSE db[i]]
    BY <1>1 DEF Insert, Update
  <2>2. \A i \in 1..Len(db) : db[i] \in S
    OBVIOUS
  <2> QED  BY <2>1, <2>2
<1>2. CASE ~Has(db, item)
  BY <1>2 DEF Insert
<1> QED  BY <1>1, <1>2

LEMMA RecentTypes ==
    ASSUME NEW S, NEW db \in Seq(S), NEW k \in Nat
    PROVE  Recent(db, k) \in Seq(S)
<1>1. Len(db) \in Nat
  OBVIOUS
<1>2. CASE Len(db) > k
  <2>1. Len(db) - k + 1 \in 1..(Len(db) + 1)
    BY <1>1, <1>2
  <2> QED  BY <1>1, <1>2, <2>1 DEF Recent
<1>3. CASE ~(Len(db) > k)
  BY <1>1, <1>3 DEF Recent
<1> QED  BY <1>2, <1>3

LEMMA ElementTypes ==
    ASSUME NEW S, NEW s \in Seq(S)
    PROVE  Elements(s) \subseteq S /\ \A x \in S : Elements(Append(s, x)) = Elements(s) \cup {x}
<1>1. Elements(s) \subseteq S
  BY DEF Elements
<1>2. ASSUME NEW x \in S PROVE Elements(Append(s, x)) = Elements(s) \cup {x}
  <2>1. PICK a, n : a = Append(s, x) /\ n = Len(s)
    OBVIOUS
  <2>2. /\ DOMAIN a = 1..(n + 1) /\ DOMAIN s = 1..n /\ n \in Nat
        /\ (\A i \in 1..n : a[i] = s[i]) /\ a[n + 1] = x
    BY <2>1
  <2>3. \A y : (\E i \in DOMAIN a : a[i] = y) <=> (\E i \in DOMAIN s : s[i] = y) \/ y = x
    BY <2>2
  <2>4. Elements(a) = Elements(s) \cup {x}
    BY <2>3, Zenon DEF Elements
  <2> QED  BY <2>1, <2>4
<1> QED  BY <1>1, <1>2

LEMMA BatchTypes ==
    ASSUME NEW S, NEW s \in Seq(S), s # <<>>
    PROVE  Head(s) \in S /\ Tail(s) \in Seq(S)
OBVIOUS

LEMMA RemovedTypes ==
    ASSUME NEW S, NEW s \in Seq(S), NEW e
    PROVE  RemoveFirst(s, e) \in Seq(S)
<1>1. CASE \E i \in 1..Len(s) : s[i] = e
  <2>1. PICK k \in 1..Len(s) : RemoveFirst(s, e) = RemoveAt(s, k)
    BY <1>1, FirstRemoved
  <2> QED  BY <2>1, Removed
<1>2. CASE ~\E i \in 1..Len(s) : s[i] = e
  BY <1>2 DEF RemoveFirst
<1> QED  BY <1>1, <1>2

-----------------------------------------------------------------------------
(* The inductive invariant.  The types alone are not inductive: a server   *)
(* that receives a datagram is up, and when it is about to deliver or to   *)
(* answer there is something to deliver and to answer.                     *)
Consistent ==
    /\ \A m \in net : m.to \in up
    /\ \A n \in Servers :
          /\ receiver[n].pc \in {"deliver", "answer"} => receiver[n].batch # <<>>
          /\ receiver[n].pc = "answer" => receiver[n].answers # <<>>

Receivers == [pc : {"listen", "scan", "deliver", "answer", "dead"},
              batch : Seq(HeldMessages), answers : Seq(Items)]

LEMMA ItemTypes ==
    /\ Content \subseteq Items
    /\ \A n \in Servers : Introduction(n) \in Items
BY DEF Items

LEMMA ListeningTypes == Listening \in Receivers /\ [Listening EXCEPT !.pc = "dead"] \in Receivers
<1>1. <<>> \in Seq(HeldMessages) /\ <<>> \in Seq(Items)
  OBVIOUS
<1> QED  BY <1>1 DEF Listening, Receivers

LEMMA DatagramTypes ==
    /\ \A from, to \in Servers, id \in Nat, v \in Counts, item \in Items :
          Message(from, to, id, v, item) \in Datagrams /\ Message(from, to, id, v, item).to = to
    /\ \A from, to \in Servers, id \in Nat, v \in Counts :
          Ack(from, to, id, v) \in Datagrams /\ Ack(from, to, id, v).to = to
    /\ \A m \in Datagrams : /\ m.from \in Servers /\ m.to \in Servers /\ m.id \in Nat /\ m.v \in Counts
                            /\ m.type \in {"message", "ack"}
                            /\ m.type = "message" => m.item \in Items
                            /\ [m EXCEPT !.copy = 1] \in Datagrams
                            /\ [m EXCEPT !.copy = 1].to = m.to
<1>1. \A from, to \in Servers, id \in Nat, v \in Counts, item \in Items :
          Message(from, to, id, v, item) \in Datagrams /\ Message(from, to, id, v, item).to = to
  BY DEF Message, Datagrams
<1>2. \A from, to \in Servers, id \in Nat, v \in Counts :
          Ack(from, to, id, v) \in Datagrams /\ Ack(from, to, id, v).to = to
  BY DEF Ack, Datagrams
<1>3. ASSUME NEW m \in Datagrams
      PROVE  /\ m.from \in Servers /\ m.to \in Servers /\ m.id \in Nat /\ m.v \in Counts
             /\ m.type \in {"message", "ack"}
             /\ m.type = "message" => m.item \in Items
             /\ [m EXCEPT !.copy = 1] \in Datagrams /\ [m EXCEPT !.copy = 1].to = m.to
  <2>1. CASE m \in [type : {"message"}, from : Servers, to : Servers, id : Nat, v : Counts,
                    item : Items, copy : {0, 1}]
    BY <2>1 DEF Datagrams
  <2>2. CASE m \in [type : {"ack"}, from : Servers, to : Servers, id : Nat, v : Counts, copy : {0, 1}]
    BY <2>2 DEF Datagrams
  <2> QED  BY <2>1, <2>2 DEF Datagrams
<1> QED  BY <1>1, <1>2, <1>3

LEMMA SentTypes ==
    ASSUME net \in SUBSET Datagrams, \A m \in net : m.to \in up,
           NEW D \in SUBSET Datagrams
    PROVE  net \cup Sent(D) \in SUBSET Datagrams /\ \A m \in net \cup Sent(D) : m.to \in up
BY DEF Sent

LEMMA CallTypes ==
    /\ NoCall \in Calls
    /\ \A item \in Items : [pc |-> "send", item |-> item, next |-> 1, sent |-> {}] \in Calls
    /\ \A item \in Items, read \in Nat : [pc |-> "count", item |-> item, read |-> read] \in Calls
    /\ \A call \in Calls : call.pc = "send" =>
          /\ call.item \in Items /\ call.next \in Nat \ {0} /\ call.sent \subseteq Servers
          /\ call = [pc |-> "send", item |-> call.item, next |-> call.next, sent |-> call.sent]
    /\ \A call \in Calls : call.pc = "count" => call.item \in Items /\ call.read \in Nat
<1>1. ASSUME NEW call \in Calls, call.pc # "none"
      PROVE  \/ call \in [pc : {"send"}, item : Items, next : Nat \ {0}, sent : SUBSET Servers]
             \/ call \in [pc : {"count"}, item : Items, read : Nat]
  BY <1>1 DEF Calls, NoCall
<1>2. ASSUME NEW call \in Calls, call.pc = "send"
      PROVE  /\ call.item \in Items /\ call.next \in Nat \ {0} /\ call.sent \subseteq Servers
             /\ call = [pc |-> "send", item |-> call.item, next |-> call.next, sent |-> call.sent]
  BY <1>1, <1>2
<1>3. ASSUME NEW call \in Calls, call.pc = "count"
      PROVE  call.item \in Items /\ call.read \in Nat
  BY <1>1, <1>3
<1>4. /\ NoCall \in Calls
      /\ \A item \in Items : [pc |-> "send", item |-> item, next |-> 1, sent |-> {}] \in Calls
      /\ \A item \in Items, read \in Nat : [pc |-> "count", item |-> item, read |-> read] \in Calls
  BY DEF Calls
<1> QED  BY <1>2, <1>3, <1>4

-----------------------------------------------------------------------------
(* It holds at the start and every step keeps it.                          *)
LEMMA InitTypeOK == Init => TypeOK /\ Consistent
<1> SUFFICES ASSUME Init PROVE TypeOK /\ Consistent
  OBVIOUS
<1>1. /\ <<>> \in Seq(Servers) /\ <<>> \in Seq(HeldMessages) /\ <<>> \in Seq(Items)
      /\ <<>> \in Seq(Entries)
  OBVIOUS
<1>2. up \subseteq Servers /\ members \in [Servers -> Seq(Servers)]
  BY <1>1, MembersAssumption DEF Init
<1>4. calls \in [Servers -> [Threads -> Calls]]
  BY CallTypes DEF Init
<1>5. /\ DOMAIN my_timestamp = Servers
      /\ \A n \in Servers : /\ my_timestamp[n] \in [DOMAIN my_timestamp[n] -> Nat]
                            /\ DOMAIN my_timestamp[n] \subseteq Servers
  BY DEF Init
<1>6. receiver \in [Servers -> Receivers]
  BY ListeningTypes DEF Init
<1>7. /\ holdback_queue \in [Servers -> Seq(HeldMessages)]
      /\ database \in [Servers -> Seq(Items)]
      /\ issued \in [Servers -> Seq(Items)]
      /\ delivered \in [Servers -> Seq(Entries)]
  BY <1>1 DEF Init
<1>8. TypeOK
  BY <1>2, <1>4, <1>5, <1>6, <1>7 DEF Init, TypeOK, Receivers
<1>9. Consistent
  BY DEF Init, Consistent, Listening
<1> QED  BY <1>8, <1>9

LEMMA StepTypeOK == TypeOK /\ Consistent /\ [Next]_vars => TypeOK' /\ Consistent'
<1> SUFFICES ASSUME TypeOK, Consistent, [Next]_vars PROVE TypeOK' /\ Consistent'
  OBVIOUS
<1>t. /\ up \in SUBSET Servers /\ members \in [Servers -> Seq(Servers)]
      /\ isLeader \in [Servers -> BOOLEAN] /\ asked \in SUBSET Servers
      /\ calls \in [Servers -> [Threads -> Calls]]
      /\ message_id_counter \in [Servers -> Nat]
      /\ unack_messages \in [Servers -> SUBSET [to : Servers, id : Nat, item : Items]]
      /\ holdback_queue \in [Servers -> Seq(HeldMessages)]
      /\ receiver \in [Servers -> Receivers]
      /\ database \in [Servers -> Seq(Items)]
      /\ shown \in [Servers -> SUBSET Content]
      /\ net \in SUBSET Datagrams /\ lost \in Nat /\ copied \in Nat
      /\ issued \in [Servers -> Seq(Items)] /\ delivered \in [Servers -> Seq(Entries)]
      /\ past \in [Items -> SUBSET Entries] /\ doubted \in SUBSET (Servers \X Servers)
  BY DEF TypeOK, Receivers
<1>k. /\ has_received \in [Servers -> SUBSET [from : Servers, id : Nat]]
      /\ has_acknowledged \in [Servers -> SUBSET [from : Servers, id : Nat]]
  BY DEF TypeOK
<1>m. /\ DOMAIN my_timestamp = Servers
      /\ \A n \in Servers : /\ my_timestamp[n] \in [DOMAIN my_timestamp[n] -> Nat]
                            /\ DOMAIN my_timestamp[n] \subseteq Servers
                            /\ Stamp(n) \in Counts
  BY DEF TypeOK, Stamp, Counts
<1>c. /\ \A m \in net : m.to \in up
      /\ \A n \in Servers : receiver[n].pc \in {"deliver", "answer"} => receiver[n].batch # <<>>
      /\ \A n \in Servers : receiver[n].pc = "answer" => receiver[n].answers # <<>>
  BY DEF Consistent
<1>s. ASSUME NEW n \in Servers, NEW t \in Threads, NEW item \in Items, StartCall(n, t, item)
      PROVE  /\ calls' \in [Servers -> [Threads -> Calls]]
             /\ issued' \in [Servers -> Seq(Items)]
             /\ past' \in [Items -> SUBSET Entries]
  <2>1. [pc |-> "send", item |-> item, next |-> 1, sent |-> {}] \in Calls
    BY CallTypes
  <2>2. calls' \in [Servers -> [Threads -> Calls]]
    BY <1>t, <1>s, <2>1 DEF StartCall
  <2>3. Elements(delivered[n]) \subseteq Entries
    BY <1>t, ElementTypes
  <2>4. Append(issued[n], item) \in Seq(Items)
    BY <1>t
  <2> QED  BY <1>t, <1>s, <2>2, <2>3, <2>4 DEF StartCall
<1>1. ASSUME NEW n \in Servers, NEW t \in Threads, AskForDatabase(n, t)
      PROVE  TypeOK' /\ Consistent'
  <2>1. Introduction(n) \in Items
    BY ItemTypes
  <2> QED  BY <1>t, <1>1, <1>s, <2>1
      DEF AskForDatabase, TypeOK, Consistent, socket, network
<1>2. ASSUME NEW n \in Servers, NEW t \in Threads, NEW item \in Content, Publish(n, t, item)
      PROVE  TypeOK' /\ Consistent'
  <2>1. item \in Items
    BY ItemTypes
  <2> QED  BY <1>t, <1>2, <1>s, <2>1
      DEF Publish, TypeOK, Consistent, process, socket, network
<1>3. ASSUME NEW n \in Servers, NEW t \in Threads, SendNext(n, t) PROVE TypeOK' /\ Consistent'
  <2>1. PICK call, to, id : call = calls[n][t] /\ to = members[n][call.next]
                            /\ id = message_id_counter[n]
    OBVIOUS
  <2>2. /\ call \in Calls /\ call.pc = "send" /\ call.item \in Items /\ call.next \in Nat \ {0}
        /\ call.sent \subseteq Servers
        /\ call = [pc |-> "send", item |-> call.item, next |-> call.next, sent |-> call.sent]
    BY <1>t, <1>3, <2>1, CallTypes DEF SendNext
  <2>3. to \in Servers /\ id \in Nat
    BY <1>t, <1>3, <2>1, <2>2 DEF SendNext
  <2>4. /\ net' = net \cup Sent({Message(n, to, id, Stamp(n), call.item)})
        /\ unack_messages' = [unack_messages EXCEPT ![n] =
                                 @ \cup {[to |-> to, id |-> id, item |-> call.item]}]
        /\ calls' = [calls EXCEPT ![n][t].next = @ + 1, ![n][t].sent = @ \cup {to}]
        /\ UNCHANGED <<up, process, message_id_counter, shown, my_timestamp, has_received,
                       has_acknowledged, holdback_queue, receiver, database, lost, copied,
                       history>>
    BY <1>3, <2>1 DEF SendNext
  <2>5. net' \in SUBSET Datagrams /\ \A m \in net' : m.to \in up
    <3>1. {Message(n, to, id, Stamp(n), call.item)} \in SUBSET Datagrams
      BY <1>m, <2>2, <2>3, DatagramTypes
    <3> QED  BY <1>t, <1>c, <2>4, <3>1, SentTypes
  <2>6. calls' \in [Servers -> [Threads -> Calls]]
    <3>1. call \in [pc : {"send"}, item : Items, next : Nat \ {0}, sent : SUBSET Servers]
      BY <2>2
    <3>2. [call EXCEPT !.next = @ + 1, !.sent = @ \cup {to}] \in Calls
      <4>1. call.next + 1 \in Nat \ {0} /\ call.sent \cup {to} \in SUBSET Servers
        BY <2>2, <2>3
      <4>2. [call EXCEPT !.next = call.next + 1, !.sent = call.sent \cup {to}]
               \in [pc : {"send"}, item : Items, next : Nat \ {0}, sent : SUBSET Servers]
        BY <3>1, <4>1
      <4> QED  BY <4>2 DEF Calls
    <3>3. calls' = [calls EXCEPT ![n] = [calls[n] EXCEPT ![t] =
                       [call EXCEPT !.next = @ + 1, !.sent = @ \cup {to}]]]
      BY <1>t, <2>1, <2>4
    <3> QED  BY <1>t, <3>2, <3>3
  <2>7. unack_messages' \in [Servers -> SUBSET [to : Servers, id : Nat, item : Items]]
    <3>1. [to |-> to, id |-> id, item |-> call.item] \in [to : Servers, id : Nat, item : Items]
      BY <2>2, <2>3
    <3>2. unack_messages[n] \cup {[to |-> to, id |-> id, item |-> call.item]}
             \in SUBSET [to : Servers, id : Nat, item : Items]
      BY <1>t, <3>1
    <3> QED  BY <1>t, <2>4, <3>2
  <2> QED  BY <2>4, <2>5, <2>6, <2>7 DEF TypeOK, Consistent, process, history
<1>4. ASSUME NEW n \in Servers, NEW t \in Threads, ReadCounter(n, t) PROVE TypeOK' /\ Consistent'
  <2>1. calls' \in [Servers -> [Threads -> Calls]]
    <3>1. calls[n][t].item \in Items /\ message_id_counter[n] \in Nat
      BY <1>t, <1>4, CallTypes DEF ReadCounter
    <3>2. [pc |-> "count", item |-> calls[n][t].item, read |-> message_id_counter[n]] \in Calls
      BY <3>1, CallTypes
    <3> QED  BY <1>t, <1>4, <3>2 DEF ReadCounter
  <2> QED  BY <1>4, <2>1 DEF ReadCounter, TypeOK, Consistent, process, socket, network, history
<1>5. ASSUME NEW n \in Servers, NEW t \in Threads, FinishCall(n, t) PROVE TypeOK' /\ Consistent'
  <2>1. calls[n][t].read \in Nat /\ NoCall \in Calls
    BY <1>t, <1>5, CallTypes DEF FinishCall
  <2>2. message_id_counter' \in [Servers -> Nat]
    BY <1>t, <1>5, <2>1 DEF FinishCall
  <2>3. shown' \in [Servers -> SUBSET Content]
    BY <1>t, <1>5 DEF FinishCall
  <2>4. calls' \in [Servers -> [Threads -> Calls]]
    BY <1>t, <1>5, <2>1 DEF FinishCall
  <2> QED  BY <1>5, <2>2, <2>3, <2>4 DEF FinishCall, TypeOK, Consistent, process, socket, network, history
<1>a. ASSUME NEW n \in Servers, NEW m \in net, Arrives(n, m)
      PROVE  /\ m \in Datagrams /\ n \in up /\ receiver[n] = Listening
             /\ DOMAIN my_timestamp' = Servers
             /\ \A p \in Servers : /\ my_timestamp'[p] \in [DOMAIN my_timestamp'[p] -> Nat]
                                   /\ DOMAIN my_timestamp'[p] \subseteq Servers
             /\ Stamp(n)' \in Counts
             /\ [from |-> m.from, id |-> m.id] \in [from : Servers, id : Nat]
  <2>1. m \in Datagrams /\ m.from \in Servers /\ m.id \in Nat /\ m.v \in Counts /\ m.to = n
        /\ n \in up
    BY <1>t, <1>c, <1>a, DatagramTypes DEF Arrives, Incoming
  <2>2. my_timestamp' = [my_timestamp EXCEPT ![n] = Refreshed(n, m)] /\ receiver[n] = Listening
        /\ ~Unstamped(n, m)
    BY <1>a DEF Arrives, Incoming
  <2>3. PICK r : r = Refreshed(n, m)
    OBVIOUS
  <2>4. PICK known : known = DOMAIN my_timestamp[n]
    OBVIOUS
  <2>5. known \subseteq Servers /\ my_timestamp[n] \in [known -> Nat]
    BY <1>m, <2>4
  <2>6. r = [q \in (known \cup {m.from}) \cap Elements(members[n]) |->
               IF q \in known THEN my_timestamp[n][q] ELSE m.v]
    BY <2>3, <2>4 DEF Refreshed
  <2>7. m.from \in known \/ m.v \in Nat
    BY <2>1, <2>2, <2>4 DEF Unstamped, Counts
  <2>8. r \in [DOMAIN r -> Nat] /\ DOMAIN r \subseteq Servers
    BY <1>m, <2>1, <2>5, <2>6, <2>7
  <2>9. DOMAIN my_timestamp' = Servers /\ my_timestamp'[n] = r
        /\ \A p \in Servers \ {n} : my_timestamp'[p] = my_timestamp[p]
    BY <1>m, <2>2, <2>3
  <2>10. Stamp(n)' \in Counts
    BY <2>8, <2>9 DEF Stamp, Counts
  <2> QED  BY <1>m, <2>1, <2>2, <2>8, <2>9, <2>10
<1>6. ASSUME NEW n \in Servers, NEW m \in net, Receive(n, m) PROVE TypeOK' /\ Consistent'
  <2>0. Arrives(n, m)
    BY <1>6 DEF Receive, ReceiveAck, ReceiveAgain, ReceiveNew
  <2>1. /\ m \in Datagrams /\ n \in up /\ receiver[n] = Listening
        /\ DOMAIN my_timestamp' = Servers
        /\ \A p \in Servers : /\ my_timestamp'[p] \in [DOMAIN my_timestamp'[p] -> Nat]
                              /\ DOMAIN my_timestamp'[p] \subseteq Servers
        /\ Stamp(n)' \in Counts
        /\ [from |-> m.from, id |-> m.id] \in [from : Servers, id : Nat]
    BY <1>a, <2>0
  <2>2. Answered(n, m) \in SUBSET Datagrams /\ \A a \in Answered(n, m) : a.to \in up
    <3>1. Ack(n, m.from, m.id, Stamp(n)') \in Datagrams
      BY <2>1, DatagramTypes
    <3>2. PICK D : D = {Ack(n, m.from, m.id, Stamp(n)')} /\ D \in SUBSET Datagrams
      BY <3>1
    <3>3. Answered(n, m) \subseteq net \cup Sent(D)
      BY <3>2 DEF Answered
    <3>4. net \cup Sent(D) \in SUBSET Datagrams /\ \A a \in net \cup Sent(D) : a.to \in up
      BY <1>t, <1>c, <3>2, SentTypes
    <3> QED  BY <3>3, <3>4
  <2>3. CASE ReceiveAck(n, m)
    <3>1. net' \in SUBSET Datagrams /\ \A a \in net' : a.to \in up
      BY <1>t, <1>c, <2>3 DEF ReceiveAck
    <3>2. has_acknowledged' \in [Servers -> SUBSET [from : Servers, id : Nat]]
      BY <1>k, <2>1, <2>3 DEF ReceiveAck
    <3> QED  BY <2>1, <2>3, <3>1, <3>2, <1>m
        DEF ReceiveAck, TypeOK, Consistent, process, sender, history
  <2>4. CASE ReceiveAgain(n, m)
    <3>1. net' \in SUBSET Datagrams /\ \A a \in net' : a.to \in up
      BY <2>2, <2>4 DEF ReceiveAgain
    <3> QED  BY <2>1, <2>4, <3>1, <1>m
        DEF ReceiveAgain, TypeOK, Consistent, process, sender, history
  <2>5. CASE ReceiveNew(n, m)
    <3>1. net' \in SUBSET Datagrams /\ \A a \in net' : a.to \in up
      BY <2>2, <2>5 DEF ReceiveNew
    <3>2. has_received' \in [Servers -> SUBSET [from : Servers, id : Nat]]
      BY <1>k, <2>1, <2>5 DEF ReceiveNew
    <3>3. holdback_queue' \in [Servers -> Seq(HeldMessages)]
      <4>1. [from |-> m.from, v |-> m.v, item |-> m.item] \in HeldMessages
        BY <2>1, <2>5, DatagramTypes DEF ReceiveNew, HeldMessages
      <4>2. Append(holdback_queue[n], [from |-> m.from, v |-> m.v, item |-> m.item])
               \in Seq(HeldMessages)
        BY <1>t, <4>1
      <4> QED  BY <1>t, <2>5, <4>2 DEF ReceiveNew
    <3>4. /\ receiver' \in [Servers -> Receivers] /\ receiver'[n].pc = "scan"
          /\ \A p \in Servers \ {n} : receiver'[p] = receiver[p]
      <4>1. [receiver[n] EXCEPT !.pc = "scan"] \in Receivers
            /\ [receiver[n] EXCEPT !.pc = "scan"].pc = "scan"
        BY <1>t, ZenonT(30) DEF Receivers
      <4> QED  BY <1>t, <2>5, <4>1 DEF ReceiveNew
    <3>5. Consistent'
      BY <1>c, <2>5, <3>1, <3>4 DEF Consistent, ReceiveNew
    <3> QED  BY <2>1, <2>5, <3>1, <3>2, <3>3, <3>4, <3>5, <1>m
        DEF ReceiveNew, TypeOK, Receivers, process, sender, history
  <2> QED  BY <1>6, <2>3, <2>4, <2>5 DEF Receive
<1>7. ASSUME NEW n \in Servers, ThreadDies(n) PROVE TypeOK' /\ Consistent'
  <2>1. /\ receiver' \in [Servers -> Receivers] /\ receiver'[n].pc = "dead"
        /\ \A p \in Servers \ {n} : receiver'[p] = receiver[p]
    <3>1. [receiver[n] EXCEPT !.pc = "dead"] \in Receivers
          /\ [receiver[n] EXCEPT !.pc = "dead"].pc = "dead"
      BY <1>t DEF Receivers
    <3> QED  BY <1>t, <1>7, <3>1 DEF ThreadDies
  <2>2. Consistent'
    BY <1>c, <1>7, <2>1 DEF Consistent, ThreadDies, network
  <2> QED  BY <1>7, <2>1, <2>2
      DEF ThreadDies, TypeOK, Receivers, process, sender, socket, network, history
<1>8. ASSUME NEW n \in Servers, Scan(n) PROVE TypeOK' /\ Consistent'
  <2>1. PICK queue, due :
          /\ queue = holdback_queue[n]
          /\ due = {i \in DOMAIN queue : \/ queue[i].v = NoCount
                                         \/ queue[i].v = my_timestamp[n][queue[i].from]}
    OBVIOUS
  <2>2. /\ holdback_queue' = [holdback_queue EXCEPT ![n] = Picked(queue, DOMAIN queue \ due)]
        /\ receiver' = [receiver EXCEPT ![n] =
                           IF due = {} THEN Listening
                           ELSE [pc |-> "deliver", batch |-> Picked(queue, due),
                                 answers |-> <<>>]]
        /\ UNCHANGED <<up, process, sender, my_timestamp, has_received, has_acknowledged,
                       unack_messages, database, network, history>>
    BY <1>8, <2>1 DEF Scan
  <2>3. queue \in Seq(HeldMessages) /\ due \in SUBSET (DOMAIN queue)
        /\ DOMAIN queue \ due \in SUBSET (DOMAIN queue)
    BY <1>t, <2>1
  <2>4. /\ Picked(queue, due) \in Seq(HeldMessages)
        /\ Picked(queue, DOMAIN queue \ due) \in Seq(HeldMessages)
        /\ Len(Picked(queue, due)) = Cardinality(due) /\ Cardinality(due) \in Nat
        /\ \A i \in due : \E k \in 1..Cardinality(due) : Place(due, k) = i
    BY <2>3, PickedProperties
  <2>5. due # {} => Picked(queue, due) # <<>>
    BY <2>4
  <2>6. <<>> \in Seq(Items)
    OBVIOUS
  <2>7. [pc |-> "deliver", batch |-> Picked(queue, due), answers |-> <<>>] \in Receivers
    BY <2>4, <2>6 DEF Receivers
  <2>8. /\ receiver' \in [Servers -> Receivers]
        /\ \A p \in Servers \ {n} : receiver'[p] = receiver[p]
    BY <1>t, <2>2, <2>7, ListeningTypes
  <2>9. receiver'[n].pc \in {"deliver", "answer"} =>
           receiver'[n].batch # <<>> /\ receiver'[n].pc = "deliver"
    BY <1>t, <2>2, <2>5 DEF Listening
  <2>10. holdback_queue' \in [Servers -> Seq(HeldMessages)]
    BY <1>t, <2>2, <2>4
  <2>11. Consistent'
    BY <1>c, <2>2, <2>8, <2>9 DEF Consistent, network
  <2> QED  BY <2>2, <2>8, <2>10, <2>11
      DEF TypeOK, Receivers, process, sender, network, history
<1>o. ASSUME NEW batch \in Seq(HeldMessages), batch # <<>>
      PROVE  /\ Onward(batch) \in Receivers
             /\ Onward(batch).pc \in {"scan", "deliver"}
             /\ Onward(batch).pc = "deliver" => Onward(batch).batch # <<>>
  <2>1. Tail(batch) \in Seq(HeldMessages) /\ <<>> \in Seq(Items)
    BY <1>o, BatchTypes
  <2> QED  BY <2>1 DEF Onward, Receivers
<1>b. ASSUME NEW n \in Servers, receiver[n].pc \in {"deliver", "answer"}
      PROVE  /\ receiver[n].batch \in Seq(HeldMessages) /\ receiver[n].batch # <<>>
             /\ receiver[n].answers \in Seq(Items)
             /\ Head(receiver[n].batch) \in HeldMessages
             /\ Head(receiver[n].batch).from \in Servers
             /\ Head(receiver[n].batch).item \in Items
  <2>1. /\ receiver[n].batch \in Seq(HeldMessages) /\ receiver[n].batch # <<>>
        /\ receiver[n].answers \in Seq(Items)
    BY <1>t, <1>c, <1>b DEF Receivers
  <2>2. Head(receiver[n].batch) \in HeldMessages
    BY <2>1, BatchTypes
  <2> QED  BY <2>1, <2>2 DEF HeldMessages
<1>d. ASSUME NEW n \in Servers, Delivering(n)
      PROVE  /\ DOMAIN my_timestamp' = Servers
             /\ \A p \in Servers : /\ my_timestamp'[p] \in [DOMAIN my_timestamp'[p] -> Nat]
                                   /\ DOMAIN my_timestamp'[p] \subseteq Servers
             /\ delivered' \in [Servers -> Seq(Entries)]
  <2>1. PICK e : e = Head(receiver[n].batch)
    OBVIOUS
  <2>2. e.from \in Servers /\ e.item \in Items
    BY <1>b, <1>d, <2>1 DEF Delivering
  <2>3. /\ my_timestamp' = [my_timestamp EXCEPT ![n][e.from] = @ + 1]
        /\ delivered' = [delivered EXCEPT ![n] = Append(@, [from |-> e.from, item |-> e.item])]
    BY <1>d, <2>1 DEF Delivering
  <2>4. PICK r : r = [my_timestamp[n] EXCEPT ![e.from] = @ + 1]
    OBVIOUS
  <2>5. r \in [DOMAIN r -> Nat] /\ DOMAIN r = DOMAIN my_timestamp[n]
    <3>1. PICK f, D : f = my_timestamp[n] /\ D = DOMAIN f /\ f \in [D -> Nat]
      BY <1>m
    <3>2. r = [q \in D |-> IF q = e.from THEN f[q] + 1 ELSE f[q]]
      BY <2>4, <3>1
    <3>3. \A q \in D : f[q] \in Nat /\ f[q] + 1 \in Nat
      BY <3>1
    <3> QED  BY <3>1, <3>2, <3>3
  <2>6. my_timestamp' = [my_timestamp EXCEPT ![n] = r]
    BY <2>3, <2>4
  <2>7. [from |-> e.from, item |-> e.item] \in Entries
    BY <2>2 DEF Entries
  <2>8. delivered' \in [Servers -> Seq(Entries)]
    <3>1. Append(delivered[n], [from |-> e.from, item |-> e.item]) \in Seq(Entries)
      BY <1>t, <2>7
    <3> QED  BY <1>t, <2>3, <3>1
  <2> QED  BY <1>m, <2>5, <2>6, <2>8
<1>9. ASSUME NEW n \in Servers, AnswerNewServer(n) PROVE TypeOK' /\ Consistent'
  <2>1. PICK latest : latest = Recent(database[n], Latest) /\ latest \in Seq(Items)
    BY <1>t, RecentTypes, BoundsAssumption
  <2>2. /\ Delivering(n) /\ receiver[n].pc = "deliver"
        /\ receiver' = [receiver EXCEPT ![n] =
                           IF latest = <<>> THEN Onward(receiver[n].batch)
                           ELSE [receiver[n] EXCEPT !.pc = "answer", !.answers = latest]]
        /\ UNCHANGED <<up, process, sender, has_received, has_acknowledged, unack_messages,
                       holdback_queue, database, network, issued, past, doubted>>
    BY <1>9, <2>1 DEF AnswerNewServer, Delivering
  <2>3. PICK r : r = [receiver[n] EXCEPT !.pc = "answer", !.answers = latest]
    OBVIOUS
  <2>4. r \in Receivers /\ r.pc = "answer" /\ r.answers = latest /\ r.batch = receiver[n].batch
    BY <1>t, <2>1, <2>3 DEF Receivers
  <2>5. /\ receiver[n].batch \in Seq(HeldMessages) /\ receiver[n].batch # <<>>
    BY <1>b, <2>2
  <2>6. PICK o : /\ o = Onward(receiver[n].batch) /\ o \in Receivers
                 /\ o.pc \in {"scan", "deliver"} /\ (o.pc = "deliver" => o.batch # <<>>)
    BY <1>o, <2>5
  <2>7. /\ receiver' \in [Servers -> Receivers]
        /\ receiver'[n] = IF latest = <<>> THEN o ELSE r
        /\ \A p \in Servers \ {n} : receiver'[p] = receiver[p]
    BY <1>t, <2>2, <2>3, <2>4, <2>6
  <2>8. Consistent'
    BY <1>c, <2>2, <2>4, <2>5, <2>6, <2>7 DEF Consistent, network
  <2>9. /\ DOMAIN my_timestamp' = Servers
        /\ \A p \in Servers : /\ my_timestamp'[p] \in [DOMAIN my_timestamp'[p] -> Nat]
                              /\ DOMAIN my_timestamp'[p] \subseteq Servers
        /\ delivered' \in [Servers -> Seq(Entries)]
    BY <1>d, <2>2
  <2> QED  BY <1>m, <2>2, <2>7, <2>8, <2>9
      DEF TypeOK, Receivers, process, sender, network
<1>10. ASSUME NEW n \in Servers, SendAnswer(n) PROVE TypeOK' /\ Consistent'
  <2>1. PICK to, id, item, rest : /\ to = Head(receiver[n].batch).from /\ id = message_id_counter[n]
                                  /\ item = Head(receiver[n].answers)
                                  /\ rest = Tail(receiver[n].answers)
    OBVIOUS
  <2>2. /\ receiver[n].pc = "answer"
        /\ net' = net \cup Sent({Message(n, to, id, Stamp(n), item)})
        /\ unack_messages' = [unack_messages EXCEPT ![n] =
                                 @ \cup {[to |-> to, id |-> id, item |-> item]}]
        /\ receiver' = [receiver EXCEPT ![n] =
                           IF rest = <<>> THEN Onward(receiver[n].batch)
                           ELSE [receiver[n] EXCEPT !.answers = rest]]
        /\ UNCHANGED <<up, process, sender, my_timestamp, has_received, has_acknowledged,
                       holdback_queue, database, lost, copied, history>>
    BY <1>10, <2>1 DEF SendAnswer
  <2>3. /\ receiver[n].batch \in Seq(HeldMessages) /\ receiver[n].batch # <<>> /\ to \in Servers
        /\ id \in Nat
    BY <1>t, <1>b, <2>1, <2>2
  <2>4. item \in Items /\ rest \in Seq(Items)
    BY <1>b, <1>c, <2>1, <2>2, BatchTypes
  <2>5. net' \in SUBSET Datagrams /\ \A m \in net' : m.to \in up
    <3>1. {Message(n, to, id, Stamp(n), item)} \in SUBSET Datagrams
      BY <1>m, <2>3, <2>4, DatagramTypes
    <3> QED  BY <1>t, <1>c, <2>2, <3>1, SentTypes
  <2>6. PICK r : r = [receiver[n] EXCEPT !.answers = rest]
    OBVIOUS
  <2>7. r \in Receivers /\ r.pc = "answer" /\ r.answers = rest /\ r.batch = receiver[n].batch
    BY <1>t, <2>2, <2>4, <2>6 DEF Receivers
  <2>8. PICK o : /\ o = Onward(receiver[n].batch) /\ o \in Receivers
                 /\ o.pc \in {"scan", "deliver"} /\ (o.pc = "deliver" => o.batch # <<>>)
    BY <1>o, <2>3
  <2>9. /\ receiver' \in [Servers -> Receivers]
        /\ receiver'[n] = IF rest = <<>> THEN o ELSE r
        /\ \A p \in Servers \ {n} : receiver'[p] = receiver[p]
    BY <1>t, <2>2, <2>6, <2>7, <2>8
  <2>10. Consistent'
    BY <1>c, <2>2, <2>3, <2>5, <2>7, <2>8, <2>9 DEF Consistent
  <2>11. unack_messages' \in [Servers -> SUBSET [to : Servers, id : Nat, item : Items]]
    <3>1. [to |-> to, id |-> id, item |-> item] \in [to : Servers, id : Nat, item : Items]
      BY <2>3, <2>4
    <3>2. unack_messages[n] \cup {[to |-> to, id |-> id, item |-> item]}
             \in SUBSET [to : Servers, id : Nat, item : Items]
      BY <1>t, <3>1
    <3> QED  BY <1>t, <2>2, <3>2
  <2> QED  BY <1>m, <2>2, <2>5, <2>9, <2>10, <2>11
      DEF TypeOK, Receivers, process, sender, history
<1>11. ASSUME NEW n \in Servers, Store(n) PROVE TypeOK' /\ Consistent'
  <2>1. /\ Delivering(n) /\ receiver[n].pc = "deliver"
        /\ receiver' = [receiver EXCEPT ![n] = Onward(receiver[n].batch)]
        /\ database' = [database EXCEPT ![n] = Insert(@, Head(receiver[n].batch).item)]
        /\ UNCHANGED <<up, process, sender, has_received, has_acknowledged, unack_messages,
                       holdback_queue, network, issued, past, doubted>>
    BY <1>11 DEF Store, Delivering
  <2>2. /\ receiver[n].batch \in Seq(HeldMessages) /\ receiver[n].batch # <<>>
        /\ Head(receiver[n].batch).item \in Items
    BY <1>b, <2>1
  <2>3. PICK o : /\ o = Onward(receiver[n].batch) /\ o \in Receivers
                 /\ o.pc \in {"scan", "deliver"} /\ (o.pc = "deliver" => o.batch # <<>>)
    BY <1>o, <2>2
  <2>4. /\ receiver' \in [Servers -> Receivers] /\ receiver'[n] = o
        /\ \A p \in Servers \ {n} : receiver'[p] = receiver[p]
    BY <1>t, <2>1, <2>3
  <2>5. Consistent'
    BY <1>c, <2>1, <2>3, <2>4 DEF Consistent, network
  <2>6. database' \in [Servers -> Seq(Items)]
    <3>1. Insert(database[n], Head(receiver[n].batch).item) \in Seq(Items)
      BY <1>t, <2>2, InsertTypes
    <3> QED  BY <1>t, <2>1, <3>1
  <2>7. /\ DOMAIN my_timestamp' = Servers
        /\ \A p \in Servers : /\ my_timestamp'[p] \in [DOMAIN my_timestamp'[p] -> Nat]
                              /\ DOMAIN my_timestamp'[p] \subseteq Servers
        /\ delivered' \in [Servers -> Seq(Entries)]
    BY <1>d, <2>1
  <2> QED  BY <1>m, <2>1, <2>4, <2>5, <2>6, <2>7
      DEF TypeOK, Receivers, process, sender, network
<1>20. ASSUME NEW n \in Servers, Discard(n) PROVE TypeOK' /\ Consistent'
  <2>1. /\ Delivering(n) /\ receiver[n].pc = "deliver"
        /\ receiver' = [receiver EXCEPT ![n] = Onward(receiver[n].batch)]
        /\ UNCHANGED <<up, process, sender, has_received, has_acknowledged, unack_messages,
                       holdback_queue, database, network, issued, past, doubted>>
    BY <1>20 DEF Discard, Delivering
  <2>2. /\ receiver[n].batch \in Seq(HeldMessages) /\ receiver[n].batch # <<>>
        /\ Head(receiver[n].batch).item \in Items
    BY <1>b, <2>1
  <2>3. PICK o : /\ o = Onward(receiver[n].batch) /\ o \in Receivers
                 /\ o.pc \in {"scan", "deliver"} /\ (o.pc = "deliver" => o.batch # <<>>)
    BY <1>o, <2>2
  <2>4. /\ receiver' \in [Servers -> Receivers] /\ receiver'[n] = o
        /\ \A p \in Servers \ {n} : receiver'[p] = receiver[p]
    BY <1>t, <2>1, <2>3
  <2>5. Consistent'
    BY <1>c, <2>1, <2>3, <2>4 DEF Consistent, network
  <2>6. /\ DOMAIN my_timestamp' = Servers
        /\ \A p \in Servers : /\ my_timestamp'[p] \in [DOMAIN my_timestamp'[p] -> Nat]
                              /\ DOMAIN my_timestamp'[p] \subseteq Servers
        /\ delivered' \in [Servers -> Seq(Entries)]
    BY <1>d, <2>1
  <2> QED  BY <1>m, <2>1, <2>4, <2>5, <2>6
      DEF TypeOK, Receivers, process, sender, network
<1>12. ASSUME NEW n \in Servers, ForgetAcknowledged(n) PROVE TypeOK' /\ Consistent'
  <2>1. unack_messages' \in [Servers -> SUBSET [to : Servers, id : Nat, item : Items]]
    BY <1>t, <1>12 DEF ForgetAcknowledged
  <2> QED  BY <1>12, <2>1
      DEF ForgetAcknowledged, TypeOK, Consistent, process, sender, network, history
<1>13. ASSUME NEW n \in Servers, Boot(n) PROVE TypeOK' /\ Consistent'
  <2>1. PICK others \in [1..Cardinality(up) -> up] :
          /\ Elements(others) = up
          /\ members' = [p \in Servers |->
                 IF p = n THEN <<n>> \o others
                 ELSE IF p \in up /\ n \notin Elements(members[p]) THEN Append(members[p], n)
                 ELSE members[p]]
    BY <1>13 DEF Boot
  <2>2. Cardinality(up) \in Nat
    BY <1>t, ServersAssumption, FS_Subset, FS_CardinalityType
  <2>3. others \in Seq(Servers) /\ <<n>> \in Seq(Servers)
    <3>1. PICK k \in Nat : k = Cardinality(up)
      BY <2>2
    <3>2. others \in [1..k -> Servers]
      BY <1>t, <2>1, <3>1
    <3>3. others \in Seq(Servers)
      BY <3>1, <3>2
    <3> QED  BY <3>3
  <2>4. /\ <<n>> \o others \in Seq(Servers)
        /\ n \in Elements(<<n>> \o others)
    <3>1. PICK l : l = <<n>> \o others
      OBVIOUS
    <3>2. l \in Seq(Servers) /\ Len(l) = 1 + Len(others) /\ l[1] = n /\ Len(others) \in Nat
      BY <2>3, <3>1
    <3>3. 1 \in DOMAIN l
      BY <3>2
    <3> QED  BY <3>1, <3>2, <3>3 DEF Elements
  <2>5. \A p \in Servers : /\ Append(members[p], n) \in Seq(Servers)
                           /\ Elements(Append(members[p], n)) = Elements(members[p]) \cup {n}
    BY <1>t, ElementTypes
  <2>6. members' \in [Servers -> Seq(Servers)]
    BY <1>t, <2>1, <2>4, <2>5
  <2>7. /\ up' = up \cup {n}
        /\ UNCHANGED <<isLeader, asked, sender, socket, receiver, database, network, history>>
    BY <1>13 DEF Boot
  <2> QED  BY <1>t, <2>6, <2>7 DEF TypeOK, Consistent, sender, socket, network, history
<1>14. ASSUME NEW n \in Servers, NEW p \in Servers, RemoveHost(n, p) PROVE TypeOK' /\ Consistent'
  <2>1. RemoveFirst(members[n], p) \in Seq(Servers)
    BY <1>t, RemovedTypes
  <2>2. members' \in [Servers -> Seq(Servers)] /\ doubted' \in SUBSET (Servers \X Servers)
    BY <1>t, <1>14, <2>1, SMTT(30) DEF RemoveHost
  <2> QED  BY <1>14, <2>2 DEF RemoveHost, TypeOK, Consistent, sender, socket, network
<1>21. ASSUME NEW n \in Servers, NEW p \in Servers, AddHost(n, p) PROVE TypeOK' /\ Consistent'
  <2>1. members' \in [Servers -> Seq(Servers)]
    BY <1>t, <1>21 DEF AddHost
  <2> QED  BY <1>21, <2>1 DEF AddHost, TypeOK, Consistent, sender, socket, network, history
<1>15. ASSUME NEW n \in Servers, Elect(n) PROVE TypeOK' /\ Consistent'
  BY <1>15 DEF Elect, TypeOK, Consistent, sender, socket, network, history
<1>16. ASSUME NEW n \in Servers, Crash(n) PROVE TypeOK' /\ Consistent'
  <2>1. /\ up' = up \ {n} /\ net' = {m \in net : m.to # n}
        /\ isLeader' = [isLeader EXCEPT ![n] = FALSE]
        /\ calls' = [calls EXCEPT ![n] = [t \in Threads |-> NoCall]]
        /\ receiver' = [receiver EXCEPT ![n] = [Listening EXCEPT !.pc = "dead"]]
        /\ UNCHANGED <<members, asked, message_id_counter, shown, socket, database, lost, copied,
                       history>>
    BY <1>16 DEF Crash
  <2>2. calls' \in [Servers -> [Threads -> Calls]]
    BY <1>t, <2>1, CallTypes
  <2>3. /\ receiver' \in [Servers -> Receivers] /\ receiver'[n].pc = "dead"
        /\ \A p \in Servers \ {n} : receiver'[p] = receiver[p]
    BY <1>t, <2>1, ListeningTypes DEF Listening
  <2>4. net' \in SUBSET Datagrams /\ \A m \in net' : m.to \in up'
    BY <1>t, <1>c, <2>1
  <2>5. Consistent'
    BY <1>c, <2>3, <2>4 DEF Consistent
  <2>6. isLeader' \in [Servers -> BOOLEAN]
    BY <1>t, <2>1
  <2> QED  BY <1>t, <1>m, <2>1, <2>2, <2>3, <2>4, <2>5, <2>6 DEF TypeOK, Receivers, socket, history
<1>17. ASSUME NEW m \in net, Lose(m) PROVE TypeOK' /\ Consistent'
  <2>1. net' \in SUBSET Datagrams /\ \A a \in net' : a.to \in up
    BY <1>t, <1>c, <1>17 DEF Lose
  <2>2. lost' \in Nat
    BY <1>t, <1>17 DEF Lose
  <2> QED  BY <1>17, <2>1, <2>2 DEF Lose, TypeOK, Consistent, process, sender, socket, history
<1>18. ASSUME NEW m \in net, Copy(m) PROVE TypeOK' /\ Consistent'
  <2>1. [m EXCEPT !.copy = 1] \in Datagrams /\ [m EXCEPT !.copy = 1].to \in up
    BY <1>t, <1>c, DatagramTypes
  <2>2. net' \in SUBSET Datagrams /\ \A a \in net' : a.to \in up
    BY <1>t, <1>c, <1>18, <2>1 DEF Copy
  <2>3. copied' \in Nat
    BY <1>t, <1>18 DEF Copy
  <2> QED  BY <1>18, <2>2, <2>3 DEF Copy, TypeOK, Consistent, process, sender, socket, history
<1>19. CASE UNCHANGED vars
  BY <1>19 DEF vars, process, sender, socket, network, history, TypeOK, Consistent
<1> QED  BY <1>1, <1>2, <1>3, <1>4, <1>5, <1>6, <1>7, <1>8, <1>9, <1>10, <1>11, <1>12, <1>13,
            <1>14, <1>15, <1>16, <1>17, <1>18, <1>19, <1>20, <1>21 DEF Next, Call, Work

-----------------------------------------------------------------------------
(* Whatever is lost, copied or delayed, whoever crashes, comes up or is    *)
(* taken for crashed, and however the threads of a server interleave:      *)
(* every variable has its type, so every count is a number though          *)
(* datagrams without a count may be in flight (unicast_receive), and the   *)
(* receiving thread never looks for the next message or entry in an empty  *)
(* list (update_holdback_queue_casual and multicast_delivered).            *)
THEOREM TypeCorrect == Spec => [](TypeOK /\ Consistent)
<1> QED  BY InitTypeOK, StepTypeOK, PTL DEF Spec
====
