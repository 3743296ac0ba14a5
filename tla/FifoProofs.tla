----------------------------- MODULE FifoProofs -----------------------------
(***************************************************************************)
(* Proof that the reliable multicast of Replication, used as PacedSpec     *)
(* says, is a FIFO broadcast, for any number of servers and of threads,    *)
(* any quotes, any datagrams lost, copied or out of order, any crashes and *)
(* any servers that take each other off their rings and back; and that     *)
(* only second copies are dropped, and only what has arrived is taken for  *)
(* acknowledged.                                                           *)
(***************************************************************************)
EXTENDS MCReplication, ReplicationProofs

\* The servers of the start are all there are, and know each other.
AllKnown ==
    /\ DOMAIN FirstMembers = Servers
    /\ FirstLeader \in Servers
    /\ \A n \in Servers : Elements(FirstMembers[n]) = Servers

-----------------------------------------------------------------------------
(* How many messages of s were delivered at n.                             *)
count == [n \in Servers |->
             [s \in Servers |-> Cardinality({i \in DOMAIN delivered[n] : delivered[n][i].from = s})]]

LEMMA SameCount == \A n, s \in Servers : Fifo!Count(n, s) = count[n][s]
<1>1. \A S : Fifo!Cardinality(S) = Cardinality(S)
  BY DEF Fifo!Cardinality, Cardinality
<1> QED  BY <1>1 DEF count, Fifo!Count

LEMMA CountStart == delivered = [n \in Servers |-> <<>>] => \A n, s \in Servers : count[n][s] = 0
<1> SUFFICES ASSUME delivered = [n \in Servers |-> <<>>], NEW n \in Servers, NEW s \in Servers
             PROVE  count[n][s] = 0
  OBVIOUS
<1>1. {i \in DOMAIN delivered[n] : delivered[n][i].from = s} = {}
  OBVIOUS
<1> QED  BY <1>1, FS_EmptySet DEF count

LEMMA CountedOnce ==
    ASSUME NEW list \in Seq(Entries), NEW e \in Entries, NEW s
    PROVE  /\ Cardinality({i \in DOMAIN list : list[i].from = s}) \in Nat
           /\ Cardinality({i \in DOMAIN Append(list, e) : Append(list, e)[i].from = s})
                 = Cardinality({i \in DOMAIN list : list[i].from = s})
                      + (IF e.from = s THEN 1 ELSE 0)
<1>1. PICK a, k, A, B : /\ a = Append(list, e) /\ k = Len(list)
                        /\ A = {i \in DOMAIN list : list[i].from = s}
                        /\ B = {i \in DOMAIN a : a[i].from = s}
  OBVIOUS
<1>2. /\ k \in Nat /\ DOMAIN list = 1..k /\ DOMAIN a = 1..(k + 1)
      /\ (\A i \in 1..k : a[i] = list[i]) /\ a[k + 1] = e
  BY <1>1
<1>3. IsFiniteSet(A) /\ Cardinality(A) \in Nat
  <2>1. A \subseteq 1..k /\ IsFiniteSet(1..k)
    BY <1>1, <1>2, FS_Interval
  <2> QED  BY <2>1, FS_Subset, FS_CardinalityType
<1>4. k + 1 \notin A
  BY <1>1, <1>2
<1>5. CASE e.from = s
  <2>1. \A i : i \in B <=> i \in A \/ i = k + 1
    BY <1>1, <1>2, <1>5
  <2>2. B = A \cup {k + 1}
    BY <2>1, Zenon
  <2>3. Cardinality(B) = Cardinality(A) + 1
    BY <1>3, <1>4, <2>2, FS_AddElement
  <2> QED  BY <1>1, <1>3, <1>5, <2>3
<1>6. CASE e.from # s
  <2>1. \A i : i \in B <=> i \in A
    BY <1>1, <1>2, <1>6
  <2>2. B = A
    BY <2>1, Zenon
  <2>3. Cardinality(B) = Cardinality(A)
    BY <2>2
  <2>4. Cardinality(B) = Cardinality(A) + (IF e.from = s THEN 1 ELSE 0)
    BY <1>3, <1>6, <2>3
  <2> QED  BY <1>1, <1>3, <2>4, Zenon
<1> QED  BY <1>5, <1>6

LEMMA CountTypes ==
    delivered \in [Servers -> Seq(Entries)] => \A n, s \in Servers : count[n][s] \in Nat
<1> SUFFICES ASSUME delivered \in [Servers -> Seq(Entries)], NEW n \in Servers, NEW s \in Servers
             PROVE  count[n][s] \in Nat
  OBVIOUS
<1>1. PICK list : list = delivered[n] /\ list \in Seq(Entries)
  OBVIOUS
<1>2. PICK A : A = {i \in DOMAIN list : list[i].from = s}
  OBVIOUS
<1>3. IsFiniteSet(A)
  <2>1. PICK k \in Nat : k = Len(list)
    BY <1>1
  <2>2. A \subseteq 1..k
    BY <1>1, <1>2, <2>1
  <2>3. IsFiniteSet(1..k)
    BY <2>1, FS_Interval
  <2> QED  BY <2>2, <2>3, FS_Subset
<1>4. Cardinality(A) \in Nat
  BY <1>3, FS_CardinalityType
<1> QED  BY <1>1, <1>2, <1>4 DEF count

LEMMA CountGrows ==
    ASSUME delivered \in [Servers -> Seq(Entries)],
           NEW n \in Servers, NEW s \in Servers, NEW item \in Items,
           delivered' = [delivered EXCEPT ![n] = Append(@, [from |-> s, item |-> item])]
    PROVE  /\ count'[n][s] = count[n][s] + 1
           /\ \A p, q \in Servers : p # n \/ q # s => count'[p][q] = count[p][q]
<1>1. PICK list, e : list = delivered[n] /\ e = [from |-> s, item |-> item]
  OBVIOUS
<1>2. list \in Seq(Entries) /\ e \in Entries /\ e.from = s
  BY <1>1 DEF Entries
<1>3. delivered'[n] = Append(list, e) /\ \A p \in Servers \ {n} : delivered'[p] = delivered[p]
  BY <1>1
<1>4. ASSUME NEW q \in Servers
      PROVE  count'[n][q] = count[n][q] + (IF q = s THEN 1 ELSE 0) /\ count[n][q] \in Nat
  <2>1. /\ Cardinality({i \in DOMAIN list : list[i].from = q}) \in Nat
        /\ Cardinality({i \in DOMAIN Append(list, e) : Append(list, e)[i].from = q})
              = Cardinality({i \in DOMAIN list : list[i].from = q})
                   + (IF e.from = q THEN 1 ELSE 0)
    BY <1>2, CountedOnce
  <2>2. count[n][q] = Cardinality({i \in DOMAIN list : list[i].from = q})
    BY <1>1 DEF count
  <2>3. count'[n][q] = Cardinality({i \in DOMAIN Append(list, e) : Append(list, e)[i].from = q})
    BY <1>3 DEF count
  <2> QED  BY <1>2, <2>1, <2>2, <2>3
<1>5. ASSUME NEW p \in Servers, NEW q \in Servers, p # n PROVE count'[p][q] = count[p][q]
  BY <1>3, <1>5 DEF count
<1> QED  BY <1>4, <1>5

-----------------------------------------------------------------------------
(* Messages in the hold-back queue, and what is taken out of it.           *)
Same(x, y) == x.from = y.from /\ x.item = y.item

NoTwoSame(list) == \A i, j \in DOMAIN list : Same(list[i], list[j]) => i = j

LEMMA AppendedOnce ==
    ASSUME NEW S, NEW list \in Seq(S), NEW x \in S, NoTwoSame(list),
           \A y \in Elements(list) : ~Same(x, y)
    PROVE  NoTwoSame(Append(list, x))
<1>1. PICK a, k : a = Append(list, x) /\ k = Len(list)
  OBVIOUS
<1>2. /\ k \in Nat /\ DOMAIN list = 1..k /\ DOMAIN a = 1..(k + 1)
      /\ (\A i \in 1..k : a[i] = list[i]) /\ a[k + 1] = x
  BY <1>1
<1>3. \A i \in 1..k : ~Same(x, a[i]) /\ ~Same(a[i], x)
  BY <1>2 DEF Elements, Same
<1>4. \A i, j \in 1..k : Same(a[i], a[j]) => i = j
  BY <1>2 DEF NoTwoSame
<1>5. \A i \in 1..(k + 1) : i \in 1..k \/ i = k + 1
  BY <1>2
<1>6. \A i, j \in 1..(k + 1) : Same(a[i], a[j]) => i = j
  BY <1>2, <1>3, <1>4, <1>5
<1> QED  BY <1>1, <1>2, <1>6 DEF NoTwoSame

LEMMA PickedOnce ==
    ASSUME NEW S, NEW list \in Seq(S), NoTwoSame(list), NEW places \in SUBSET (DOMAIN list)
    PROVE  /\ NoTwoSame(Picked(list, places))
           /\ Elements(Picked(list, places)) = {list[i] : i \in places}
           /\ \A k \in DOMAIN Picked(list, places) : \E i \in places : Picked(list, places)[k] = list[i]
<1>1. PICK N, r : N = Cardinality(places) /\ r = Picked(list, places)
  OBVIOUS
<1>2. PICK f : f = [k \in 1..N |-> Place(places, k)]
  OBVIOUS
<1>3. /\ N \in Nat /\ DOMAIN r = 1..N
      /\ \A k \in 1..N : f[k] \in places /\ r[k] = list[f[k]]
      /\ \A i \in places : \E k \in 1..N : f[k] = i
      /\ \A k, l \in 1..N : k < l => f[k] < f[l]
  <2>1. /\ N \in Nat /\ r \in Seq(S) /\ Len(r) = N
        /\ \A k \in 1..N : Place(places, k) \in places /\ r[k] = list[Place(places, k)]
        /\ \A i \in places : \E k \in 1..N : Place(places, k) = i
        /\ \A k, l \in 1..N : k < l => Place(places, k) < Place(places, l)
    BY <1>1, PickedProperties
  <2>2. DOMAIN r = 1..N
    BY <2>1
  <2> QED  BY <1>2, <2>1, <2>2
<1>4. places \subseteq Nat /\ places \subseteq DOMAIN list
  <2>1. DOMAIN list \subseteq Nat
    OBVIOUS
  <2> QED  BY <2>1
<1>5. NoTwoSame(r)
  <2> SUFFICES ASSUME NEW k \in 1..N, NEW l \in 1..N, Same(r[k], r[l]) PROVE k = l
    BY <1>3 DEF NoTwoSame
  <2>1. Same(list[f[k]], list[f[l]]) /\ f[k] \in DOMAIN list /\ f[l] \in DOMAIN list
    BY <1>3, <1>4
  <2>2. f[k] = f[l]
    BY <2>1 DEF NoTwoSame
  <2>3. ~(f[k] < f[l]) /\ ~(f[l] < f[k])
    BY <1>3, <1>4, <2>2
  <2>4. ~(k < l) /\ ~(l < k)
    BY <1>3, <2>3
  <2> QED  BY <1>3, <2>4
<1>6. \A x : x \in Elements(r) <=> \E i \in places : x = list[i]
  <2>1. \A x : x \in Elements(r) <=> \E k \in 1..N : x = r[k]
    BY <1>3 DEF Elements
  <2>2. ASSUME NEW x, NEW k \in 1..N, x = r[k] PROVE \E i \in places : x = list[i]
    BY <1>3, <2>2
  <2>3. ASSUME NEW x, NEW i \in places, x = list[i] PROVE \E k \in 1..N : x = r[k]
    BY <1>3, <2>3
  <2> QED  BY <2>1, <2>2, <2>3, Zenon
<1>7. Elements(r) = {list[i] : i \in places}
  BY <1>6, Zenon
<1> QED  BY <1>1, <1>3, <1>5, <1>7

LEMMA TakenOnce ==
    ASSUME NEW S, NEW list \in Seq(S), list # <<>>, NoTwoSame(list)
    PROVE  /\ NoTwoSame(Tail(list))
           /\ \A x \in Elements(list) : x = Head(list) \/ x \in Elements(Tail(list))
           /\ \A x \in Elements(Tail(list)) : x \in Elements(list) /\ ~Same(x, Head(list))
           /\ Head(list) \in Elements(list)
<1>1. PICK r, h, k : r = Tail(list) /\ h = Head(list) /\ k = Len(list)
  OBVIOUS
<1>2. /\ k \in Nat \ {0} /\ DOMAIN list = 1..k /\ DOMAIN r = 1..(k - 1) /\ h = list[1]
      /\ \A i \in 1..(k - 1) : r[i] = list[i + 1]
  BY <1>1
<1>3. \A i \in 1..(k - 1) : i + 1 \in 1..k /\ i + 1 # 1
  BY <1>2
<1>4. NoTwoSame(r)
  <2> SUFFICES ASSUME NEW i \in 1..(k - 1), NEW j \in 1..(k - 1), Same(r[i], r[j])
               PROVE  i = j
    BY <1>2 DEF NoTwoSame
  <2>1. Same(list[i + 1], list[j + 1])
    BY <1>2
  <2>2. i + 1 = j + 1
    BY <1>2, <1>3, <2>1 DEF NoTwoSame
  <2> QED  BY <1>2, <2>2
<1>5. ASSUME NEW x \in Elements(list) PROVE x = h \/ x \in Elements(r)
  <2>1. PICK i \in 1..k : x = list[i]
    BY <1>2 DEF Elements
  <2>2. CASE i = 1
    BY <1>2, <2>1, <2>2
  <2>3. CASE i # 1
    <3>1. i - 1 \in 1..(k - 1) /\ (i - 1) + 1 = i
      BY <1>2, <2>3
    <3>2. x = r[i - 1]
      BY <1>2, <2>1, <3>1
    <3> QED  BY <1>2, <3>1, <3>2 DEF Elements
  <2> QED  BY <2>2, <2>3
<1>6. ASSUME NEW x \in Elements(r) PROVE x \in Elements(list) /\ ~Same(x, h)
  <2>1. PICK i \in 1..(k - 1) : x = r[i]
    BY <1>2 DEF Elements
  <2>2. x = list[i + 1] /\ i + 1 \in 1..k /\ i + 1 # 1
    BY <1>2, <1>3, <2>1
  <2>3. 1 \in 1..k
    BY <1>2
  <2>4. ~Same(x, h)
    BY <1>2, <2>2, <2>3 DEF NoTwoSame
  <2> QED  BY <1>2, <2>2, <2>4 DEF Elements
<1>7. h \in Elements(list)
  BY <1>2 DEF Elements
<1> QED  BY <1>1, <1>4, <1>5, <1>6, <1>7

LEMMA RemovedElements ==
    ASSUME NEW S, NEW s \in Seq(S), NEW e
    PROVE  /\ Elements(RemoveFirst(s, e)) \subseteq Elements(s)
           /\ \A x \in Elements(s) : x # e => x \in Elements(RemoveFirst(s, e))
<1>1. ASSUME NEW x \in Elements(s), x # e PROVE x \in Elements(RemoveFirst(s, e))
  <2>1. PICK i \in 1..Len(s) : s[i] = x
    BY DEF Elements
  <2>2. PICK r : r = RemoveFirst(s, e)
    OBVIOUS
  <2>3. r \in Seq(S) /\ \E j \in 1..Len(r) : r[j] = x
    BY <1>1, <2>1, <2>2, OthersStay
  <2> QED  BY <2>2, <2>3 DEF Elements
<1>2. ASSUME NEW x \in Elements(RemoveFirst(s, e)) PROVE x \in Elements(s)
  <2>1. CASE \E j \in 1..Len(s) : s[j] = e
    <3>1. PICK k \in 1..Len(s) : RemoveFirst(s, e) = RemoveAt(s, k)
      BY <2>1, FirstRemoved
    <3>2. PICK r, l : r = RemoveAt(s, k) /\ l = Len(s)
      OBVIOUS
    <3>3. /\ l \in Nat /\ DOMAIN s = 1..l /\ k \in 1..l
          /\ DOMAIN r = 1..(l - 1)
          /\ \A i \in 1..(l - 1) : r[i] = IF i < k THEN s[i] ELSE s[i + 1]
      <4>1. /\ r \in Seq(S) /\ Len(r) = l - 1
            /\ \A i \in 1..(l - 1) : r[i] = IF i < k THEN s[i] ELSE s[i + 1]
        BY <3>2, Removed
      <4> QED  BY <3>2, <4>1
    <3>4. PICK i \in 1..(l - 1) : x = r[i]
      BY <1>2, <3>1, <3>2, <3>3 DEF Elements
    <3>5. \E j \in 1..l : x = s[j]
      BY <3>3, <3>4
    <3> QED  BY <3>3, <3>5 DEF Elements
  <2>2. CASE ~\E j \in 1..Len(s) : s[j] = e
    <3>1. RemoveFirst(s, e) = s
      BY <2>2 DEF RemoveFirst
    <3> QED  BY <1>2, <3>1
  <2> QED  BY <2>1, <2>2
<1> QED  BY <1>1, <1>2

-----------------------------------------------------------------------------
(* The inductive invariant.  The k-th quote of s is sent with the id k, and *)
(* with k or more as the count of s, unless s has taken itself off its ring. *)

\* The messages of s come in at n as they should.
Trusted(n, s) == <<n, s>> \notin doubted /\ <<s, s>> \notin doubted

\* All that wait in the queue or are about to be delivered.
held == [n \in Servers |-> Elements(holdback_queue[n]) \cup Elements(receiver[n].batch)]

\* A server is a member, and its messages are counted, until it is removed.  Who
\* has crashed receives nothing any more.
RingInv ==
    /\ asked = Servers
    /\ \A n \in Servers : n \notin up => receiver[n].pc = "dead"
    /\ \A n, s \in Servers : <<n, s>> \notin doubted =>
          s \in Elements(members[n]) /\ s \in DOMAIN my_timestamp[n]

\* One thread at a time multicasts, with the number of the quote as the id.
CallInv ==
    \A n \in Servers :
       /\ \A t \in Threads :
             /\ calls[n][t] # NoCall =>
                   /\ n \in up
                   /\ message_id_counter[n] = Len(issued[n]) /\ Len(issued[n]) # 0
                   /\ \A u \in Threads : calls[n][u] # NoCall => t = u
             /\ calls[n][t].pc = "send" => calls[n][t].item = issued[n][Len(issued[n])]
             /\ calls[n][t].pc = "count" => calls[n][t].read = Len(issued[n])
       /\ n \in up /\ (\A t \in Threads : calls[n][t] = NoCall) =>
             message_id_counter[n] = Len(issued[n]) + 1
       /\ Len(issued[n]) <= count[n][n] + 1

\* A server multicasts quotes, none of them twice.
IssueInv ==
    \A s \in Servers : \A i \in 1..Len(issued[s]) :
       /\ issued[s][i] \in Content
       /\ \A j \in 1..Len(issued[s]) : issued[s][i] = issued[s][j] => i = j

\* What is in flight: an acknowledgement is of a message that has come in.
NetInv ==
    \A m \in net :
       /\ m.type = "message" => /\ m.id \in 1..Len(issued[m.from])
                                /\ m.item = issued[m.from][m.id]
                                /\ <<m.from, m.from>> \notin doubted => m.v \in Nat /\ m.id <= m.v
       /\ m.type = "ack" => m.id # 0 /\ [from |-> m.to, id |-> m.id] \in has_received[m.from]

\* What was taken out of the queue is due, and no message is held twice.
BatchInv ==
    \A n \in Servers :
       /\ receiver[n].pc # "answer"
       /\ receiver[n].pc \in {"listen", "scan"} => receiver[n].batch = <<>>
       /\ NoTwoSame(holdback_queue[n])
       /\ NoTwoSame(receiver[n].batch)
       /\ \A x \in Elements(receiver[n].batch) :
             /\ Trusted(n, x.from) => x.v = my_timestamp[n][x.from]
             /\ \A y \in Elements(holdback_queue[n]) : ~Same(x, y)

\* What is held has been received and not been delivered.
HeldInv ==
    \A n \in Servers : \A e \in held[n] :
       /\ [from |-> e.from, item |-> e.item] \notin Elements(delivered[n])
       /\ \E k \in 1..Len(issued[e.from]) :
             /\ e.item = issued[e.from][k]
             /\ [from |-> e.from, id |-> k] \in has_received[n]
             /\ <<e.from, e.from>> \notin doubted => e.v \in Nat /\ k <= e.v
             /\ Trusted(n, e.from) => count[n][e.from] < k

\* What is delivered has been received, ...
DeliveredInv ==
    \A n \in Servers : \A d \in Elements(delivered[n]) : \E k \in 1..Len(issued[d.from]) :
       d.item = issued[d.from][k] /\ [from |-> d.from, id |-> k] \in has_received[n]

\* ... of a server that was never removed the first quotes, and these are counted.
CountedInv ==
    \A n, s \in Servers : Trusted(n, s) =>
       /\ count[n][s] <= Len(issued[s])
       /\ my_timestamp[n][s] = count[n][s] + 1
       /\ \A k \in 1..count[n][s] : [from |-> s, id |-> k] \in has_received[n]

\* What has been received is held or delivered.
ArrivedInv ==
    \A n \in Servers : \A r \in has_received[n] :
       /\ r.id <= Len(issued[r.from])
       /\ n \in up /\ r.id # 0 =>
             \/ [from |-> r.from, item |-> issued[r.from][r.id]] \in Elements(delivered[n])
             \/ \E e \in held[n] : e.from = r.from /\ e.item = issued[r.from][r.id]

\* An acknowledgement that has come in is of a message that has.
AckInv ==
    \A n \in Servers :
       /\ \A a \in has_acknowledged[n] :
             a.id # 0 => [from |-> n, id |-> a.id] \in has_received[a.from]
       /\ \A u \in unack_messages[n] : u.id \in 1..Len(issued[n]) /\ u.item = issued[n][u.id]

FifoInv ==
    /\ TypeOK /\ Consistent
    /\ RingInv /\ CallInv /\ IssueInv /\ NetInv /\ BatchInv /\ HeldInv
    /\ DeliveredInv /\ CountedInv /\ ArrivedInv /\ AckInv

LEMMA InitFifoInv == ASSUME AllKnown, SettledInit PROVE FifoInv
<1>f. /\ DOMAIN FirstMembers = Servers /\ FirstLeader \in Servers
      /\ \A n \in Servers : /\ Elements(FirstMembers[n]) = Servers
                            /\ FirstMembers[n] \in Seq(Servers) /\ FirstMembers[n] # <<>>
  <2>1. /\ DOMAIN FirstMembers = Servers /\ FirstLeader \in Servers
        /\ \A n \in Servers : Elements(FirstMembers[n]) = Servers /\ FirstMembers[n] \in Seq(Servers)
    BY MembersAssumption DEF AllKnown
  <2>2. Elements(<<>>) = {}
    BY DEF Elements
  <2> QED  BY <2>1, <2>2
<1>1. /\ up = Servers /\ asked = Servers /\ net = {} /\ lost = 0 /\ copied = 0
      /\ members = [n \in Servers |-> FirstMembers[n]]
      /\ isLeader = [n \in Servers |-> n = FirstLeader]
      /\ calls = [n \in Servers |-> [t \in Threads |-> NoCall]]
      /\ message_id_counter = [n \in Servers |-> 1]
      /\ my_timestamp = [n \in Servers |-> [s \in Servers |-> 1]]
      /\ receiver = [n \in Servers |-> Listening]
      /\ holdback_queue = [n \in Servers |-> <<>>]
      /\ shown = [n \in Servers |-> {}]
      /\ unack_messages = [n \in Servers |-> {}]
      /\ issued = [n \in Servers |-> <<>>]
      /\ delivered = [n \in Servers |-> <<>>]
      /\ past = [item \in Items |-> {}] /\ doubted = {}
  BY <1>f DEF SettledInit
<1>2. PICK heard : /\ heard = {[from |-> s, id |-> 0] : s \in Servers}
                   /\ has_received = [n \in Servers |-> heard]
                   /\ has_acknowledged = [n \in Servers |-> heard]
  BY <1>f DEF SettledInit
<1>3. heard \in SUBSET [from : Servers, id : Nat] /\ \A r \in heard : r.id = 0 /\ r.from \in Servers
  BY <1>2
<1>4. PICK known : /\ known = [i \in DOMAIN FirstMembers[FirstLeader] |->
                                 Introduction(FirstMembers[FirstLeader][i])]
                   /\ database = [n \in Servers |-> IF n \in Servers \ {FirstLeader}
                                                    THEN known ELSE <<>>]
  BY <1>f DEF SettledInit
<1>5. known \in Seq(Items)
  <2>1. PICK list, k : list = FirstMembers[FirstLeader] /\ k = Len(list)
    OBVIOUS
  <2>2. list \in Seq(Servers) /\ DOMAIN list = 1..k /\ k \in Nat
    BY <1>f, <2>1
  <2>3. \A i \in 1..k : Introduction(list[i]) \in Items
    BY <2>2, ItemTypes
  <2>4. known = [i \in 1..k |-> Introduction(list[i])]
    BY <1>4, <2>1, <2>2
  <2>5. known \in [1..k -> Items]
    BY <2>3, <2>4
  <2> QED  BY <2>2, <2>5
<1>6. /\ <<>> \in Seq(Servers) /\ <<>> \in Seq(HeldMessages) /\ <<>> \in Seq(Items)
      /\ <<>> \in Seq(Entries)
  OBVIOUS
<1>7. TypeOK /\ Consistent
  <2>1. receiver \in [Servers -> Receivers]
    BY <1>1, ListeningTypes
  <2>2. calls \in [Servers -> [Threads -> Calls]]
    BY <1>1, CallTypes
  <2>3. /\ database \in [Servers -> Seq(Items)] /\ issued \in [Servers -> Seq(Items)]
        /\ delivered \in [Servers -> Seq(Entries)] /\ holdback_queue \in [Servers -> Seq(HeldMessages)]
    BY <1>1, <1>4, <1>5, <1>6
  <2>4. /\ has_received \in [Servers -> SUBSET [from : Servers, id : Nat]]
        /\ has_acknowledged \in [Servers -> SUBSET [from : Servers, id : Nat]]
    BY <1>2, <1>3
  <2>5. /\ DOMAIN my_timestamp = Servers
        /\ \A n \in Servers : /\ my_timestamp[n] \in [DOMAIN my_timestamp[n] -> Nat]
                              /\ DOMAIN my_timestamp[n] \subseteq Servers
    BY <1>1
  <2>6. members \in [Servers -> Seq(Servers)]
    BY <1>f, <1>1
  <2>7. TypeOK
    BY <1>1, <2>1, <2>2, <2>3, <2>4, <2>5, <2>6 DEF TypeOK, Receivers
  <2>8. Consistent
    BY <1>1 DEF Consistent, Listening
  <2> QED  BY <2>7, <2>8
<1>8. \A n, s \in Servers : count[n][s] = 0
  BY <1>1, CountStart
<1>9. \A n \in Servers : /\ held[n] = {} /\ Elements(holdback_queue[n]) = {}
                         /\ receiver[n].batch = <<>> /\ Elements(receiver[n].batch) = {}
                         /\ Elements(delivered[n]) = {}
  <2>1. Elements(<<>>) = {}
    BY DEF Elements
  <2> QED  BY <1>1, <2>1 DEF held, Listening
<1>10. RingInv
  BY <1>f, <1>1 DEF RingInv
<1>11. CallInv
  BY <1>1, <1>8 DEF CallInv, NoCall
<1>12. IssueInv /\ NetInv
  BY <1>1 DEF IssueInv, NetInv
<1>13. BatchInv
  BY <1>1, <1>9 DEF BatchInv, NoTwoSame, Listening
<1>14. HeldInv /\ DeliveredInv
  BY <1>9 DEF HeldInv, DeliveredInv
<1>15. CountedInv
  BY <1>1, <1>8 DEF CountedInv
<1>16. ArrivedInv /\ AckInv
  BY <1>1, <1>2, <1>3 DEF ArrivedInv, AckInv
<1> QED  BY <1>7, <1>10, <1>11, <1>12, <1>13, <1>14, <1>15, <1>16 DEF FifoInv

LEMMA HeldTypes ==
    ASSUME TypeOK
    PROVE  \A n \in Servers :
              /\ held[n] \subseteq HeldMessages
              /\ \A e \in held[n] : e.from \in Servers /\ e.v \in Counts /\ e.item \in Items
              /\ \A d \in Elements(delivered[n]) : d.from \in Servers /\ d.item \in Items
<1>1. ASSUME NEW n \in Servers PROVE held[n] \subseteq HeldMessages
  <2>1. holdback_queue[n] \in Seq(HeldMessages) /\ receiver[n].batch \in Seq(HeldMessages)
    BY DEF TypeOK
  <2> QED  BY <2>1, ElementTypes DEF held
<1>2. ASSUME NEW n \in Servers PROVE Elements(delivered[n]) \subseteq Entries
  <2>1. delivered[n] \in Seq(Entries)
    BY DEF TypeOK
  <2> QED  BY <2>1, ElementTypes
<1>3. ASSUME NEW n \in Servers, NEW e \in held[n]
      PROVE  e.from \in Servers /\ e.v \in Counts /\ e.item \in Items
  BY <1>1 DEF HeldMessages
<1>4. ASSUME NEW n \in Servers, NEW d \in Elements(delivered[n])
      PROVE  d.from \in Servers /\ d.item \in Items
  BY <1>2 DEF Entries
<1> QED  BY <1>1, <1>3, <1>4

-----------------------------------------------------------------------------
(* What no step touches stays true.                                        *)
LEMMA Untouched ==
    ASSUME FifoInv
    PROVE  /\ UNCHANGED <<asked, up, receiver, members, my_timestamp, doubted>> => RingInv'
           /\ UNCHANGED <<up, calls, message_id_counter, issued, count>> => CallInv'
           /\ UNCHANGED issued => IssueInv'
           /\ UNCHANGED <<net, issued, has_received, doubted>> => NetInv'
           /\ UNCHANGED <<receiver, holdback_queue, my_timestamp, doubted>> => BatchInv'
           /\ UNCHANGED <<held, delivered, issued, count, has_received, doubted>> => HeldInv'
           /\ UNCHANGED <<delivered, issued, has_received>> => DeliveredInv'
           /\ UNCHANGED <<count, issued, my_timestamp, has_received, doubted>> => CountedInv'
           /\ UNCHANGED <<up, has_received, issued, delivered, held>> => ArrivedInv'
           /\ UNCHANGED <<has_acknowledged, has_received, unack_messages, issued>> => AckInv'
           /\ UNCHANGED delivered => UNCHANGED count
           /\ UNCHANGED <<holdback_queue, receiver>> => UNCHANGED held
<1>1. UNCHANGED <<asked, up, receiver, members, my_timestamp, doubted>> => RingInv'
  BY DEF FifoInv, RingInv
<1>2. UNCHANGED <<up, calls, message_id_counter, issued, count>> => CallInv'
  BY DEF FifoInv, CallInv
<1>3. UNCHANGED issued => IssueInv'
  BY DEF FifoInv, IssueInv
<1>4. UNCHANGED <<net, issued, has_received, doubted>> => NetInv'
  BY DEF FifoInv, NetInv
<1>5. UNCHANGED <<receiver, holdback_queue, my_timestamp, doubted>> => BatchInv'
  BY DEF FifoInv, BatchInv, Trusted
<1>6. UNCHANGED <<held, delivered, issued, count, has_received, doubted>> => HeldInv'
  BY DEF FifoInv, HeldInv, Trusted
<1>7. UNCHANGED <<delivered, issued, has_received>> => DeliveredInv'
  BY DEF FifoInv, DeliveredInv
<1>8. UNCHANGED <<count, issued, my_timestamp, has_received, doubted>> => CountedInv'
  BY DEF FifoInv, CountedInv, Trusted
<1>9. UNCHANGED <<up, has_received, issued, delivered, held>> => ArrivedInv'
  BY DEF FifoInv, ArrivedInv
<1>10. UNCHANGED <<has_acknowledged, has_received, unack_messages, issued>> => AckInv'
  BY DEF FifoInv, AckInv
<1>11. UNCHANGED delivered => UNCHANGED count
  BY DEF count
<1>12. UNCHANGED <<holdback_queue, receiver>> => UNCHANGED held
  BY DEF held
<1> QED  BY <1>1, <1>2, <1>3, <1>4, <1>5, <1>6, <1>7, <1>8, <1>9, <1>10, <1>11, <1>12

(* A server that has not taken itself off its ring counts itself.          *)
LEMMA OwnCount ==
    ASSUME FifoInv
    PROVE  /\ delivered \in [Servers -> Seq(Entries)]
           /\ \A n, s \in Servers : count[n][s] \in Nat
           /\ \A s \in Servers : Len(issued[s]) \in Nat
           /\ \A n \in Servers : Stamp(n) \in Counts
           /\ \A n \in Servers : <<n, n>> \notin doubted =>
                 Stamp(n) \in Nat /\ Len(issued[n]) <= Stamp(n)
<1>1. delivered \in [Servers -> Seq(Entries)] /\ issued \in [Servers -> Seq(Items)]
  BY DEF FifoInv, TypeOK
<1>2. \A n, s \in Servers : count[n][s] \in Nat
  BY <1>1, CountTypes
<1>3. \A s \in Servers : Len(issued[s]) \in Nat
  BY <1>1
<1>4. \A n \in Servers : Stamp(n) \in Counts
  BY DEF FifoInv, TypeOK, Stamp, Counts
<1>5. ASSUME NEW n \in Servers, <<n, n>> \notin doubted
      PROVE  Stamp(n) \in Nat /\ Len(issued[n]) <= Stamp(n)
  <2>1. my_timestamp[n][n] = count[n][n] + 1
    BY <1>5 DEF FifoInv, CountedInv, Trusted
  <2>2. n \in DOMAIN my_timestamp[n]
    BY <1>5 DEF FifoInv, RingInv
  <2>3. Len(issued[n]) <= count[n][n] + 1
    BY DEF FifoInv, CallInv
  <2> QED  BY <1>2, <1>3, <2>1, <2>2, <2>3 DEF Stamp
<1> QED  BY <1>1, <1>2, <1>3, <1>4, <1>5

(* A quote that is added to those of a server takes nothing from what was  *)
(* known of the others.                                                    *)
LEMMA PublishKeeps ==
    ASSUME FifoInv, TypeOK', Consistent', Paced,
           NEW n \in Servers, NEW t \in Threads, NEW item \in Content, Publish(n, t, item)
    PROVE  FifoInv'
<1>1. /\ n \in up /\ item \in Items /\ issued \in [Servers -> Seq(Items)]
      /\ calls \in [Servers -> [Threads -> Calls]]
      /\ \A s \in Servers : item \notin Elements(issued[s])
      /\ calls' = [calls EXCEPT ![n][t] = [pc |-> "send", item |-> item, next |-> 1, sent |-> {}]]
      /\ issued' = [issued EXCEPT ![n] = Append(@, item)]
      /\ UNCHANGED <<up, asked, members, message_id_counter, my_timestamp, has_received,
                     has_acknowledged, unack_messages, holdback_queue, receiver, net, delivered,
                     doubted>>
  BY ItemTypes DEF FifoInv, TypeOK, Publish, StartCall, process, socket, network
<1>2. PICK len : len = [s \in Servers |-> Len(issued[s])]
  OBVIOUS
<1>3. /\ \A s \in Servers : len[s] \in Nat /\ len[s] = Len(issued[s]) /\ DOMAIN issued[s] = 1..len[s]
      /\ Len(issued'[n]) = len[n] + 1 /\ issued'[n][len[n] + 1] = item
      /\ \A s \in Servers \ {n} : Len(issued'[s]) = len[s] /\ issued'[s] = issued[s]
      /\ \A s \in Servers : \A k \in 1..len[s] : issued'[s][k] = issued[s][k]
  <2>1. PICK list, k : list = issued[n] /\ k = Len(list)
    OBVIOUS
  <2>2. list \in Seq(Items) /\ k \in Nat /\ len[n] = k
    BY <1>1, <1>2, <2>1
  <2>3. /\ Len(Append(list, item)) = k + 1 /\ Append(list, item)[k + 1] = item
        /\ \A i \in 1..k : Append(list, item)[i] = list[i]
    BY <1>1, <2>1, <2>2
  <2>4. issued'[n] = Append(list, item) /\ \A s \in Servers \ {n} : issued'[s] = issued[s]
    BY <1>1, <2>1
  <2>5. \A s \in Servers : len[s] \in Nat /\ len[s] = Len(issued[s]) /\ DOMAIN issued[s] = 1..len[s]
    BY <1>1, <1>2
  <2> QED  BY <2>1, <2>2, <2>3, <2>4, <2>5
<1>4. UNCHANGED count /\ UNCHANGED held
  BY <1>1, Untouched
<1>5. /\ \A u \in Threads : calls[n][u] = NoCall
      /\ count[n][n] = len[n]
  <2>1. issued'[n] # issued[n]
    BY <1>3
  <2> QED  BY <1>3, <2>1 DEF Paced, DeliveredOwn, count
<1>6. message_id_counter[n] = len[n] + 1
  BY <1>1, <1>3, <1>5 DEF FifoInv, CallInv
<1>7. /\ \A s \in Servers \ {n} : calls'[s] = calls[s]
      /\ calls'[n][t] = [pc |-> "send", item |-> item, next |-> 1, sent |-> {}]
      /\ \A u \in Threads \ {t} : calls'[n][u] = NoCall
  BY <1>1, <1>5
<1>8. CallInv'
  <2> SUFFICES ASSUME NEW s \in Servers
               PROVE  /\ \A u \in Threads :
                            /\ calls'[s][u] # NoCall =>
                                  /\ s \in up
                                  /\ message_id_counter[s] = Len(issued'[s]) /\ Len(issued'[s]) # 0
                                  /\ \A w \in Threads : calls'[s][w] # NoCall => u = w
                            /\ calls'[s][u].pc = "send" =>
                                  calls'[s][u].item = issued'[s][Len(issued'[s])]
                            /\ calls'[s][u].pc = "count" => calls'[s][u].read = Len(issued'[s])
                      /\ s \in up /\ (\A u \in Threads : calls'[s][u] = NoCall) =>
                            message_id_counter[s] = Len(issued'[s]) + 1
                      /\ Len(issued'[s]) <= count[s][s] + 1
    BY <1>1, <1>4 DEF CallInv
  <2>1. CASE s = n
    BY <1>1, <1>3, <1>5, <1>6, <1>7, <2>1 DEF NoCall
  <2>2. CASE s # n
    <3>1. calls'[s] = calls[s] /\ issued'[s] = issued[s]
      BY <1>3, <1>7, <2>2
    <3> QED  BY <3>1 DEF FifoInv, CallInv
  <2> QED  BY <2>1, <2>2
<1>9. IssueInv'
  <2>1. \A i \in 1..len[n] : issued[n][i] # item
    BY <1>1, <1>3 DEF Elements
  <2>2. ASSUME NEW s \in Servers, NEW i \in 1..Len(issued'[s])
        PROVE  /\ issued'[s][i] \in Content
               /\ \A j \in 1..Len(issued'[s]) : issued'[s][i] = issued'[s][j] => i = j
    <3>1. CASE s = n
      <4>1. PICK k, q : k = len[n] /\ q = issued'[n]
        OBVIOUS
      <4>2. /\ k \in Nat /\ Len(q) = k + 1 /\ q[k + 1] = item /\ i \in 1..(k + 1)
            /\ \A j \in 1..k : q[j] = issued[n][j] /\ q[j] # item
        BY <1>3, <2>1, <2>2, <3>1, <4>1
      <4>3. \A j \in 1..k : q[j] \in Content /\ \A l \in 1..k : q[j] = q[l] => j = l
        <5>1. \A j \in 1..k : /\ issued[n][j] \in Content
                              /\ \A l \in 1..k : issued[n][j] = issued[n][l] => j = l
          <6>1. k = Len(issued[n])
            BY <1>3, <4>1
          <6> QED  BY <6>1 DEF FifoInv, IssueInv
        <5>2. \A j \in 1..k : q[j] = issued[n][j]
          BY <4>2
        <5> QED  BY <5>1, <5>2
      <4>4. \A j \in 1..(k + 1) : j \in 1..k \/ j = k + 1
        BY <4>2
      <4>5. \A j \in 1..(k + 1) : q[i] = q[j] => i = j
        BY <4>2, <4>3, <4>4
      <4> QED  BY <3>1, <4>1, <4>2, <4>3, <4>4, <4>5
    <3>2. CASE s # n
      BY <1>3, <3>2 DEF FifoInv, IssueInv
    <3> QED  BY <3>1, <3>2
  <2> QED  BY <2>2 DEF IssueInv
<1>10. \A s \in Servers : \A k \in 1..Len(issued[s]) :
          k \in 1..Len(issued'[s]) /\ issued'[s][k] = issued[s][k]
  <2>1. ASSUME NEW s \in Servers, NEW k \in 1..Len(issued[s])
        PROVE  k \in 1..Len(issued'[s]) /\ issued'[s][k] = issued[s][k]
    <3>1. k \in 1..len[s] /\ len[s] \in Nat
      BY <1>3
    <3>2. Len(issued'[s]) = len[s] \/ Len(issued'[s]) = len[s] + 1
      BY <1>3
    <3> QED  BY <1>3, <3>1, <3>2
  <2> QED  BY <2>1
<1>11. \A s \in Servers : Len(issued[s]) <= Len(issued'[s]) /\ Len(issued[s]) \in Nat
                          /\ Len(issued'[s]) \in Nat
  BY <1>3
<1>12. NetInv'
  <2>1. \A m \in net : m.from \in Servers
    BY DatagramTypes DEF FifoInv, TypeOK
  <2> QED  BY <1>1, <1>10, <2>1 DEF FifoInv, NetInv
<1>13. HeldInv'
  <2>1. ASSUME NEW s \in Servers, NEW e \in held[s] PROVE e.from \in Servers
    BY <2>1, HeldTypes DEF FifoInv
  <2>2. ASSUME NEW s \in Servers, NEW e \in held[s]
        PROVE  /\ [from |-> e.from, item |-> e.item] \notin Elements(delivered[s])
               /\ \E k \in 1..Len(issued'[e.from]) :
                     /\ e.item = issued'[e.from][k]
                     /\ [from |-> e.from, id |-> k] \in has_received[s]
                     /\ <<e.from, e.from>> \notin doubted => e.v \in Nat /\ k <= e.v
                     /\ Trusted(s, e.from) => count[s][e.from] < k
    <3>1. [from |-> e.from, item |-> e.item] \notin Elements(delivered[s])
      BY DEF FifoInv, HeldInv
    <3>2. PICK k \in 1..Len(issued[e.from]) :
             /\ e.item = issued[e.from][k]
             /\ [from |-> e.from, id |-> k] \in has_received[s]
             /\ <<e.from, e.from>> \notin doubted => e.v \in Nat /\ k <= e.v
             /\ Trusted(s, e.from) => count[s][e.from] < k
      BY DEF FifoInv, HeldInv
    <3>3. k \in 1..Len(issued'[e.from]) /\ issued'[e.from][k] = issued[e.from][k]
      BY <1>10, <2>1
    <3> QED  BY <3>1, <3>2, <3>3
  <2>3. UNCHANGED <<held, delivered, count, has_received, doubted>>
    BY <1>1, <1>4
  <2> QED  BY <2>2, <2>3, Zenon DEF HeldInv, Trusted
<1>14. DeliveredInv' /\ CountedInv'
  <2>1. DeliveredInv'
    <3>1. ASSUME NEW p \in Servers, NEW d \in Elements(delivered[p])
          PROVE  \E k \in 1..Len(issued'[d.from]) :
                    d.item = issued'[d.from][k] /\ [from |-> d.from, id |-> k] \in has_received[p]
      <4>1. PICK k \in 1..Len(issued[d.from]) :
               d.item = issued[d.from][k] /\ [from |-> d.from, id |-> k] \in has_received[p]
        BY DEF FifoInv, DeliveredInv
      <4>2. d.from \in Servers
        BY HeldTypes DEF FifoInv
      <4> QED  BY <1>10, <4>1, <4>2
    <3> QED  BY <1>1, <3>1 DEF DeliveredInv
  <2>2. \A p, s \in Servers : Trusted(p, s) => count[p][s] <= Len(issued'[s])
    BY <1>11, OwnCount, SMTT(30) DEF FifoInv, CountedInv
  <2> QED  BY <1>1, <1>4, <2>1, <2>2 DEF FifoInv, CountedInv, Trusted
<1>15. ArrivedInv'
  <2>1. ASSUME NEW p \in Servers, NEW r \in has_received[p]
        PROVE  r.from \in Servers /\ r.id \in Nat
    <3>1. has_received[p] \subseteq [from : Servers, id : Nat]
      BY DEF FifoInv, TypeOK
    <3> QED  BY <3>1
  <2>2. ASSUME NEW p \in Servers, NEW r \in has_received[p]
        PROVE  /\ r.id <= Len(issued[r.from]) /\ r.id <= Len(issued'[r.from])
               /\ r.id # 0 => issued'[r.from][r.id] = issued[r.from][r.id]
    <3>1. r.id <= Len(issued[r.from])
      BY DEF FifoInv, ArrivedInv
    <3>2. r.id <= Len(issued'[r.from])
      BY <1>11, <2>1, <3>1
    <3>3. r.id # 0 => r.id \in 1..Len(issued[r.from])
      BY <1>11, <2>1, <3>1
    <3> QED  BY <1>10, <2>1, <3>1, <3>2, <3>3
  <2>3. ASSUME NEW p \in Servers, NEW r \in has_received[p]
        PROVE  /\ r.id <= Len(issued'[r.from])
               /\ p \in up /\ r.id # 0 =>
                     \/ [from |-> r.from, item |-> issued'[r.from][r.id]] \in Elements(delivered[p])
                     \/ \E e \in held[p] : e.from = r.from /\ e.item = issued'[r.from][r.id]
    BY <2>2 DEF FifoInv, ArrivedInv
  <2> QED  BY <1>1, <1>4, <2>3 DEF ArrivedInv
<1>16. AckInv'
  <2>1. ASSUME NEW p \in Servers, NEW u \in unack_messages[p]
        PROVE  u.id \in 1..Len(issued'[p]) /\ u.item = issued'[p][u.id]
    BY <1>10 DEF FifoInv, AckInv
  <2> QED  BY <1>1, <2>1 DEF FifoInv, AckInv
<1>17. RingInv' /\ BatchInv'
  BY <1>1, Untouched
<1> QED  BY <1>8, <1>9, <1>12, <1>13, <1>14, <1>15, <1>16, <1>17 DEF FifoInv

(* The loop of a multicast sends the last quote with its number, and with  *)
(* a count that is not below it, if the server keeps one.                  *)
LEMMA SendKeeps ==
    ASSUME FifoInv, TypeOK', Consistent', NEW n \in Servers, NEW t \in Threads, SendNext(n, t)
    PROVE  FifoInv'
<1>1. PICK call, to, id, m : /\ call = calls[n][t] /\ to = members[n][call.next]
                             /\ id = message_id_counter[n]
                             /\ m = Message(n, to, id, Stamp(n), call.item)
  OBVIOUS
<1>2. /\ call.pc = "send" /\ call.next <= Len(members[n])
      /\ net' = net \cup Sent({m})
      /\ unack_messages' = [unack_messages EXCEPT ![n] =
                               @ \cup {[to |-> to, id |-> id, item |-> call.item]}]
      /\ calls' = [calls EXCEPT ![n][t].next = @ + 1, ![n][t].sent = @ \cup {to}]
      /\ UNCHANGED <<up, asked, members, message_id_counter, my_timestamp, has_received,
                     has_acknowledged, holdback_queue, receiver, issued, delivered, doubted>>
  BY <1>1 DEF SendNext, process, history
<1>3. /\ n \in up /\ id = Len(issued[n]) /\ Len(issued[n]) \in Nat \ {0}
      /\ call.item = issued[n][id] /\ id \in 1..Len(issued[n])
      /\ <<n, n>> \notin doubted => Stamp(n) \in Nat /\ id <= Stamp(n)
  <2>1. call # NoCall
    BY <1>2 DEF NoCall
  <2>2. n \in up /\ id = Len(issued[n]) /\ Len(issued[n]) # 0 /\ call.item = issued[n][id]
    BY <1>1, <1>2, <2>1 DEF FifoInv, CallInv
  <2>3. Len(issued[n]) \in Nat
    BY OwnCount
  <2>4. <<n, n>> \notin doubted => Stamp(n) \in Nat /\ Len(issued[n]) <= Stamp(n)
    BY OwnCount
  <2> QED  BY <2>2, <2>3, <2>4
<1>4. UNCHANGED count /\ UNCHANGED held
  BY <1>2, Untouched
<1>5. CallInv'
  <2>1. calls \in [Servers -> [Threads -> Calls]]
    BY DEF FifoInv, TypeOK
  <2>2. call \in Calls
    BY <1>1, <2>1
  <2>3. call \in [pc : {"send"}, item : Items, next : Nat \ {0}, sent : SUBSET Servers]
    BY <1>2, <2>2 DEF Calls, NoCall
  <2>4. PICK c : c = [call EXCEPT !.next = call.next + 1, !.sent = call.sent \cup {to}]
    OBVIOUS
  <2>5. c.pc = "send" /\ c.item = call.item
    BY <2>3, <2>4
  <2>6. calls' = [calls EXCEPT ![n] = [calls[n] EXCEPT ![t] = c]]
    BY <1>1, <1>2, <2>1, <2>4
  <2>7. calls'[n][t] = c /\ \A s \in Servers, u \in Threads : s # n \/ u # t => calls'[s][u] = calls[s][u]
    BY <2>1, <2>6
  <2>8. call # NoCall /\ c # NoCall
    BY <1>2, <2>5 DEF NoCall
  <2>9. ASSUME NEW s \in Servers, NEW u \in Threads
        PROVE  /\ calls'[s][u] # NoCall <=> calls[s][u] # NoCall
               /\ calls'[s][u].pc = calls[s][u].pc
               /\ calls[s][u].pc = "send" => calls'[s][u].item = calls[s][u].item
               /\ calls[s][u].pc = "count" => calls'[s][u].read = calls[s][u].read
    BY <1>1, <1>2, <2>5, <2>7, <2>8
  <2>10. ASSUME NEW s \in Servers
         PROVE  /\ \A u \in Threads :
                      /\ calls'[s][u] # NoCall =>
                            /\ s \in up
                            /\ message_id_counter[s] = Len(issued[s]) /\ Len(issued[s]) # 0
                            /\ \A w \in Threads : calls'[s][w] # NoCall => u = w
                      /\ calls'[s][u].pc = "send" =>
                            calls'[s][u].item = issued[s][Len(issued[s])]
                      /\ calls'[s][u].pc = "count" => calls'[s][u].read = Len(issued[s])
                /\ s \in up /\ (\A u \in Threads : calls'[s][u] = NoCall) =>
                      message_id_counter[s] = Len(issued[s]) + 1
                /\ Len(issued[s]) <= count[s][s] + 1
    BY <2>9 DEF FifoInv, CallInv
  <2>11. UNCHANGED <<up, message_id_counter, issued, count>>
    BY <1>2, <1>4
  <2> QED  BY <2>10, <2>11 DEF CallInv
<1>6. NetInv'
  <2>1. /\ m.type = "message" /\ m.from = n /\ m.id = id /\ m.item = call.item
        /\ m.v = Stamp(n)
    BY <1>1 DEF Message
  <2>2. \A d \in net' : d \in net \/ d = m
    BY <1>2 DEF Sent
  <2>3. ASSUME NEW d \in net'
        PROVE  /\ d.type = "message" => /\ d.id \in 1..Len(issued[d.from])
                                        /\ d.item = issued[d.from][d.id]
                                        /\ <<d.from, d.from>> \notin doubted =>
                                              d.v \in Nat /\ d.id <= d.v
               /\ d.type = "ack" => /\ d.id # 0
                                    /\ [from |-> d.to, id |-> d.id] \in has_received[d.from]
    <3>1. CASE d \in net
      BY <3>1 DEF FifoInv, NetInv
    <3>2. CASE d = m
      BY <1>3, <2>1, <3>2
    <3> QED  BY <2>2, <3>1, <3>2
  <2> QED  BY <1>2, <2>3 DEF NetInv
<1>7. AckInv'
  <2>1. unack_messages \in [Servers -> SUBSET [to : Servers, id : Nat, item : Items]]
    BY DEF FifoInv, TypeOK
  <2>2. ASSUME NEW s \in Servers, NEW u \in unack_messages'[s]
        PROVE  u.id \in 1..Len(issued[s]) /\ u.item = issued[s][u.id]
    <3>1. CASE u \in unack_messages[s]
      BY <3>1 DEF FifoInv, AckInv
    <3>2. CASE s = n /\ u = [to |-> to, id |-> id, item |-> call.item]
      BY <1>3, <3>2
    <3> QED  BY <1>2, <2>1, <3>1, <3>2
  <2> QED  BY <1>2, <2>2 DEF FifoInv, AckInv
<1>8. RingInv' /\ IssueInv' /\ BatchInv' /\ HeldInv' /\ DeliveredInv' /\ CountedInv'
      /\ ArrivedInv'
  BY <1>2, <1>4, Untouched
<1> QED  BY <1>5, <1>6, <1>7, <1>8 DEF FifoInv

(* After the loop the counter is read and written back: no other thread    *)
(* comes between.                                                          *)
LEMMA CountingKeeps ==
    ASSUME FifoInv, TypeOK', Consistent', NEW n \in Servers, NEW t \in Threads,
           ReadCounter(n, t) \/ FinishCall(n, t)
    PROVE  FifoInv'
<1>1. /\ UNCHANGED <<up, asked, members, my_timestamp, has_received, has_acknowledged,
                     unack_messages, holdback_queue, receiver, net, issued, delivered, doubted>>
      /\ calls \in [Servers -> [Threads -> Calls]]
      /\ message_id_counter \in [Servers -> Nat]
  BY DEF ReadCounter, FinishCall, process, socket, network, history, FifoInv, TypeOK
<1>2. UNCHANGED count /\ UNCHANGED held
  BY <1>1, Untouched
<1>3. calls[n][t] # NoCall
  BY DEF ReadCounter, FinishCall, NoCall
<1>4. /\ n \in up /\ message_id_counter[n] = Len(issued[n]) /\ Len(issued[n]) # 0
      /\ \A u \in Threads \ {t} : calls[n][u] = NoCall
  BY <1>3 DEF FifoInv, CallInv
<1>5. ASSUME NEW s \in Servers
      PROVE  /\ \A u \in Threads :
                   /\ calls'[s][u] # NoCall =>
                         /\ s \in up
                         /\ message_id_counter'[s] = Len(issued[s]) /\ Len(issued[s]) # 0
                         /\ \A w \in Threads : calls'[s][w] # NoCall => u = w
                   /\ calls'[s][u].pc = "send" => calls'[s][u].item = issued[s][Len(issued[s])]
                   /\ calls'[s][u].pc = "count" => calls'[s][u].read = Len(issued[s])
             /\ s \in up /\ (\A u \in Threads : calls'[s][u] = NoCall) =>
                   message_id_counter'[s] = Len(issued[s]) + 1
             /\ Len(issued[s]) <= count[s][s] + 1
  <2>1. CASE s # n
    <3>1. calls'[s] = calls[s] /\ message_id_counter'[s] = message_id_counter[s]
      BY <1>1, <2>1 DEF ReadCounter, FinishCall
    <3> QED  BY <3>1 DEF FifoInv, CallInv
  <2>2. CASE s = n /\ ReadCounter(n, t)
    <3>1. PICK c : c = [pc |-> "count", item |-> calls[n][t].item, read |-> message_id_counter[n]]
      OBVIOUS
    <3>2. /\ calls'[n][t] = c /\ c.pc = "count" /\ c.read = message_id_counter[n]
          /\ \A u \in Threads \ {t} : calls'[n][u] = NoCall
          /\ message_id_counter' = message_id_counter
      BY <1>1, <1>4, <2>2, <3>1 DEF ReadCounter
    <3>3. Len(issued[n]) <= count[n][n] + 1
      BY DEF FifoInv, CallInv
    <3> QED  BY <1>4, <2>2, <3>2, <3>3 DEF NoCall
  <2>3. CASE s = n /\ FinishCall(n, t)
    <3>1. calls[n][t].read = Len(issued[n])
      BY <2>3 DEF FinishCall, FifoInv, CallInv
    <3>2. /\ \A u \in Threads : calls'[n][u] = NoCall
          /\ message_id_counter'[n] = Len(issued[n]) + 1
      BY <1>1, <1>4, <2>3, <3>1 DEF FinishCall
    <3>3. Len(issued[n]) <= count[n][n] + 1
      BY DEF FifoInv, CallInv
    <3> QED  BY <2>3, <3>2, <3>3 DEF NoCall
  <2> QED  BY <2>1, <2>2, <2>3
<1>6. CallInv'
  BY <1>1, <1>2, <1>5 DEF CallInv
<1>7. RingInv' /\ IssueInv' /\ NetInv' /\ BatchInv' /\ HeldInv' /\ DeliveredInv' /\ CountedInv'
      /\ ArrivedInv' /\ AckInv'
  BY <1>1, <1>2, Untouched
<1> QED  BY <1>6, <1>7 DEF FifoInv

(* What is acknowledged may be forgotten.                                  *)
LEMMA ForgetKeeps ==
    ASSUME FifoInv, TypeOK', Consistent', NEW n \in Servers, ForgetAcknowledged(n)
    PROVE  FifoInv'
<1>1. /\ UNCHANGED <<up, asked, members, calls, message_id_counter, my_timestamp, has_received,
                     has_acknowledged, holdback_queue, receiver, net, issued, delivered, doubted>>
      /\ \A s \in Servers : unack_messages'[s] \subseteq unack_messages[s]
  BY DEF ForgetAcknowledged, process, sender, network, history, FifoInv, TypeOK
<1>2. UNCHANGED count /\ UNCHANGED held
  BY <1>1, Untouched
<1>3. AckInv'
  BY <1>1 DEF FifoInv, AckInv
<1>4. RingInv' /\ CallInv' /\ IssueInv' /\ NetInv' /\ BatchInv' /\ HeldInv' /\ DeliveredInv'
      /\ CountedInv' /\ ArrivedInv'
  BY <1>1, <1>2, Untouched
<1> QED  BY <1>3, <1>4 DEF FifoInv

(* Of a server that is removed, right or wrong, nothing is claimed any     *)
(* more.                                                                   *)
LEMMA RemoveKeeps ==
    ASSUME FifoInv, TypeOK', Consistent', NEW n \in Servers, NEW p \in Servers, RemoveHost(n, p)
    PROVE  FifoInv'
<1>1. /\ UNCHANGED <<up, asked, calls, message_id_counter, my_timestamp, has_received,
                     has_acknowledged, unack_messages, holdback_queue, receiver, net, issued,
                     delivered>>
      /\ doubted' = doubted \cup {<<n, p>>}
      /\ members \in [Servers -> Seq(Servers)]
      /\ members' = [members EXCEPT ![n] = RemoveFirst(@, p)]
  BY DEF RemoveHost, sender, socket, network, FifoInv, TypeOK
<1>2. UNCHANGED count /\ UNCHANGED held
  BY <1>1, Untouched
<1>3. PICK list : list = members[n] /\ list \in Seq(Servers)
  BY <1>1
<1>4. members'[n] = RemoveFirst(list, p) /\ \A s \in Servers \ {n} : members'[s] = members[s]
  BY <1>1, <1>3
<1>5. \A x \in Elements(members[n]) : x # p => x \in Elements(members'[n])
  BY <1>3, <1>4, RemovedElements
<1>6. /\ \A s, q \in Servers : <<s, q>> \notin doubted' => <<s, q>> \notin doubted
      /\ <<n, p>> \in doubted'
      /\ \A s, q \in Servers : Trusted(s, q)' => Trusted(s, q)
  BY <1>1 DEF Trusted
<1>7. RingInv'
  <2>1. ASSUME NEW s \in Servers, NEW q \in Servers, <<s, q>> \notin doubted'
        PROVE  q \in Elements(members'[s]) /\ q \in DOMAIN my_timestamp[s]
    <3>1. q \in Elements(members[s]) /\ q \in DOMAIN my_timestamp[s]
      BY <1>6, <2>1 DEF FifoInv, RingInv
    <3>2. CASE s = n
      BY <1>5, <1>6, <2>1, <3>1, <3>2
    <3>3. CASE s # n
      BY <1>4, <3>1, <3>3
    <3> QED  BY <3>2, <3>3
  <2> QED  BY <1>1, <2>1 DEF FifoInv, RingInv
<1>8. NetInv'
  <2>1. \A m \in net : m.from \in Servers
    BY DatagramTypes DEF FifoInv, TypeOK
  <2> QED  BY <1>1, <1>6, <2>1 DEF FifoInv, NetInv
<1>t. \A s \in Servers : \A e \in held[s] : e.from \in Servers
  BY HeldTypes DEF FifoInv
<1>9. BatchInv'
  <2>1. ASSUME NEW s \in Servers, NEW x \in Elements(receiver[s].batch), Trusted(s, x.from)'
        PROVE  x.v = my_timestamp[s][x.from]
    <3>1. x.from \in Servers
      BY <1>t DEF held
    <3> QED  BY <1>6, <2>1, <3>1 DEF FifoInv, BatchInv
  <2>2. ASSUME NEW s \in Servers
        PROVE  /\ receiver[s].pc # "answer"
               /\ receiver[s].pc \in {"listen", "scan"} => receiver[s].batch = <<>>
               /\ NoTwoSame(holdback_queue[s])
               /\ NoTwoSame(receiver[s].batch)
               /\ \A x \in Elements(receiver[s].batch) :
                     \A y \in Elements(holdback_queue[s]) : ~Same(x, y)
    BY DEF FifoInv, BatchInv
  <2>3. UNCHANGED <<receiver, holdback_queue, my_timestamp>>
    BY <1>1
  <2> QED  BY <2>1, <2>2, <2>3, Zenon DEF BatchInv
<1>10. HeldInv'
  <2>1. ASSUME NEW s \in Servers, NEW e \in held[s]
        PROVE  /\ [from |-> e.from, item |-> e.item] \notin Elements(delivered[s])
               /\ \E k \in 1..Len(issued[e.from]) :
                     /\ e.item = issued[e.from][k]
                     /\ [from |-> e.from, id |-> k] \in has_received[s]
                     /\ <<e.from, e.from>> \notin doubted' => e.v \in Nat /\ k <= e.v
                     /\ Trusted(s, e.from)' => count[s][e.from] < k
    BY <1>6, <1>t DEF FifoInv, HeldInv
  <2>2. UNCHANGED <<held, delivered, issued, has_received, count>>
    BY <1>1, <1>2
  <2> QED  BY <2>1, <2>2, Zenon DEF HeldInv
<1>11. CountedInv'
  BY <1>1, <1>2, <1>6 DEF FifoInv, CountedInv
<1>12. CallInv' /\ IssueInv' /\ DeliveredInv' /\ ArrivedInv' /\ AckInv'
  BY <1>1, <1>2, Untouched
<1> QED  BY <1>7, <1>8, <1>9, <1>10, <1>11, <1>12 DEF FifoInv

LEMMA AddKeeps ==
    ASSUME FifoInv, TypeOK', Consistent', NEW n \in Servers, NEW p \in Servers, AddHost(n, p)
    PROVE  FifoInv'
<1>1. /\ UNCHANGED <<up, asked, calls, message_id_counter, my_timestamp, has_received,
                     has_acknowledged, unack_messages, holdback_queue, receiver, net, issued,
                     delivered, doubted>>
      /\ members \in [Servers -> Seq(Servers)]
      /\ members' = [members EXCEPT ![n] = Append(@, p)]
  BY DEF AddHost, sender, socket, network, history, FifoInv, TypeOK
<1>2. UNCHANGED count /\ UNCHANGED held
  BY <1>1, Untouched
<1>3. PICK list : list = members[n] /\ list \in Seq(Servers)
  BY <1>1
<1>4. members'[n] = Append(list, p) /\ \A s \in Servers \ {n} : members'[s] = members[s]
  BY <1>1, <1>3
<1>5. Elements(members'[n]) = Elements(members[n]) \cup {p}
  BY <1>3, <1>4, ElementTypes
<1>6. \A s \in Servers : Elements(members[s]) \subseteq Elements(members'[s])
  BY <1>4, <1>5
<1>7. RingInv'
  BY <1>1, <1>6 DEF FifoInv, RingInv
<1>8. CallInv' /\ IssueInv' /\ NetInv' /\ BatchInv' /\ HeldInv' /\ DeliveredInv' /\ CountedInv'
      /\ ArrivedInv' /\ AckInv'
  BY <1>1, <1>2, Untouched
<1> QED  BY <1>7, <1>8 DEF FifoInv

LEMMA ElectKeeps ==
    ASSUME FifoInv, TypeOK', Consistent', NEW n \in Servers, Elect(n)
    PROVE  FifoInv'
<1>1. UNCHANGED <<up, asked, members, calls, message_id_counter, my_timestamp, has_received,
                  has_acknowledged, unack_messages, holdback_queue, receiver, net, issued, delivered,
                  doubted>>
  BY DEF Elect, sender, socket, network, history
<1>2. UNCHANGED count /\ UNCHANGED held
  BY <1>1, Untouched
<1> QED  BY <1>1, <1>2, Untouched DEF FifoInv

(* With a server its calls are gone, what it was about to deliver and what *)
(* was on its way to it.                                                   *)
LEMMA CrashKeeps ==
    ASSUME FifoInv, TypeOK', Consistent', NEW n \in Servers, Crash(n)
    PROVE  FifoInv'
<1>1. /\ up' = up \ {n} /\ net' \subseteq net
      /\ calls' = [calls EXCEPT ![n] = [t \in Threads |-> NoCall]]
      /\ receiver' = [receiver EXCEPT ![n] = [Listening EXCEPT !.pc = "dead"]]
      /\ UNCHANGED <<asked, members, message_id_counter, my_timestamp, has_received,
                     has_acknowledged, unack_messages, holdback_queue, issued, delivered, doubted>>
      /\ calls \in [Servers -> [Threads -> Calls]] /\ receiver \in [Servers -> Receivers]
  BY DEF Crash, socket, history, FifoInv, TypeOK, Receivers
<1>2. UNCHANGED count
  BY <1>1, Untouched
<1>3. /\ receiver'[n].pc = "dead" /\ receiver'[n].batch = <<>>
      /\ \A s \in Servers \ {n} : receiver'[s] = receiver[s]
  BY <1>1 DEF Listening
<1>4. Elements(<<>>) = {}
  BY DEF Elements
<1>5. /\ \A s \in Servers : held'[s] \subseteq held[s]
      /\ \A s \in Servers \ {n} : held'[s] = held[s]
  BY <1>1, <1>3, <1>4 DEF held
<1>6. RingInv'
  BY <1>1, <1>3 DEF FifoInv, RingInv
<1>7. CallInv'
  <2>1. ASSUME NEW s \in Servers
        PROVE  /\ \A u \in Threads :
                     /\ calls'[s][u] # NoCall =>
                           /\ s \in up'
                           /\ message_id_counter[s] = Len(issued[s]) /\ Len(issued[s]) # 0
                           /\ \A w \in Threads : calls'[s][w] # NoCall => u = w
                     /\ calls'[s][u].pc = "send" => calls'[s][u].item = issued[s][Len(issued[s])]
                     /\ calls'[s][u].pc = "count" => calls'[s][u].read = Len(issued[s])
               /\ s \in up' /\ (\A u \in Threads : calls'[s][u] = NoCall) =>
                     message_id_counter[s] = Len(issued[s]) + 1
               /\ Len(issued[s]) <= count[s][s] + 1
    <3>1. CASE s = n
      <4>1. s \notin up' /\ \A u \in Threads : calls'[s][u] = NoCall
        BY <1>1, <3>1
      <4>2. Len(issued[s]) <= count[s][s] + 1
        BY DEF FifoInv, CallInv
      <4> QED  BY <4>1, <4>2 DEF NoCall
    <3>2. CASE s # n
      <4>1. calls'[s] = calls[s] /\ (s \in up' <=> s \in up)
        BY <1>1, <3>2
      <4> QED  BY <4>1 DEF FifoInv, CallInv
    <3> QED  BY <3>1, <3>2
  <2>2. UNCHANGED <<message_id_counter, issued, count>>
    BY <1>1, <1>2
  <2> QED  BY <2>1, <2>2 DEF CallInv
<1>8. NetInv'
  BY <1>1 DEF FifoInv, NetInv
<1>9. BatchInv'
  <2>1. UNCHANGED <<my_timestamp, holdback_queue, doubted>>
    BY <1>1
  <2>2. NoTwoSame(<<>>)
    BY DEF NoTwoSame
  <2>3. ASSUME NEW s \in Servers
        PROVE  /\ receiver'[s].pc # "answer"
               /\ receiver'[s].pc \in {"listen", "scan"} => receiver'[s].batch = <<>>
               /\ NoTwoSame(holdback_queue[s])
               /\ NoTwoSame(receiver'[s].batch)
               /\ \A x \in Elements(receiver'[s].batch) :
                     /\ Trusted(s, x.from) => x.v = my_timestamp[s][x.from]
                     /\ \A y \in Elements(holdback_queue[s]) : ~Same(x, y)
    <3>1. CASE s = n
      BY <1>3, <1>4, <2>2, <3>1 DEF FifoInv, BatchInv
    <3>2. CASE s # n
      BY <1>3, <3>2 DEF FifoInv, BatchInv
    <3> QED  BY <3>1, <3>2
  <2> QED  BY <2>1, <2>3 DEF BatchInv, Trusted
<1>10. HeldInv'
  <2>1. ASSUME NEW s \in Servers, NEW e \in held'[s]
        PROVE  /\ [from |-> e.from, item |-> e.item] \notin Elements(delivered[s])
               /\ \E k \in 1..Len(issued[e.from]) :
                     /\ e.item = issued[e.from][k]
                     /\ [from |-> e.from, id |-> k] \in has_received[s]
                     /\ <<e.from, e.from>> \notin doubted => e.v \in Nat /\ k <= e.v
                     /\ Trusted(s, e.from) => count[s][e.from] < k
    <3>1. e \in held[s]
      BY <1>5, <2>1
    <3> QED  BY <3>1 DEF FifoInv, HeldInv
  <2>2. UNCHANGED <<delivered, issued, has_received, doubted, count>>
    BY <1>1, <1>2
  <2> QED  BY <2>1, <2>2, Zenon DEF HeldInv, Trusted
<1>11. ArrivedInv'
  <2>1. ASSUME NEW s \in Servers, NEW r \in has_received[s]
        PROVE  /\ r.id <= Len(issued[r.from])
               /\ s \in up' /\ r.id # 0 =>
                     \/ [from |-> r.from, item |-> issued[r.from][r.id]] \in Elements(delivered[s])
                     \/ \E e \in held'[s] : e.from = r.from /\ e.item = issued[r.from][r.id]
    <3>1. r.id <= Len(issued[r.from])
      BY DEF FifoInv, ArrivedInv
    <3>2. ASSUME s \in up', r.id # 0
          PROVE  \/ [from |-> r.from, item |-> issued[r.from][r.id]] \in Elements(delivered[s])
                 \/ \E e \in held'[s] : e.from = r.from /\ e.item = issued[r.from][r.id]
      <4>1. s \in up /\ held'[s] = held[s]
        BY <1>1, <1>5, <3>2
      <4> QED  BY <3>2, <4>1 DEF FifoInv, ArrivedInv
    <3> QED  BY <3>1, <3>2
  <2>2. UNCHANGED <<issued, delivered, has_received>>
    BY <1>1
  <2> QED  BY <2>1, <2>2, Zenon DEF ArrivedInv
<1>12. IssueInv' /\ DeliveredInv' /\ CountedInv' /\ AckInv'
  BY <1>1, <1>2, Untouched
<1> QED  BY <1>6, <1>7, <1>8, <1>9, <1>10, <1>11, <1>12 DEF FifoInv

(* A datagram that is lost, or delivered twice, was there before.          *)
LEMMA NetworkKeeps ==
    ASSUME FifoInv, TypeOK', Consistent', NEW m \in net, Lose(m) \/ Copy(m)
    PROVE  FifoInv'
<1>1. UNCHANGED <<up, asked, members, calls, message_id_counter, my_timestamp, has_received,
                  has_acknowledged, unack_messages, holdback_queue, receiver, issued, delivered, doubted>>
  BY DEF Lose, Copy, process, sender, socket, history
<1>2. UNCHANGED count /\ UNCHANGED held
  BY <1>1, Untouched
<1>3. \A d \in net' : \E o \in net : /\ d.type = o.type /\ d.from = o.from /\ d.to = o.to
                                     /\ d.id = o.id /\ d.v = o.v
                                     /\ d.type = "message" => d.item = o.item
  <2>1. CASE Lose(m)
    BY <2>1 DEF Lose
  <2>2. CASE Copy(m)
    <3>1. m \in Datagrams
      BY DEF FifoInv, TypeOK
    <3>2. PICK c : c = [m EXCEPT !.copy = 1]
      OBVIOUS
    <3>3. /\ c.type = m.type /\ c.from = m.from /\ c.to = m.to /\ c.id = m.id /\ c.v = m.v
          /\ c.type = "message" => c.item = m.item
      BY <3>1, <3>2 DEF Datagrams
    <3>4. \A d \in net' : d \in net \/ d = c
      BY <2>2, <3>2 DEF Copy
    <3> QED  BY <3>3, <3>4
  <2> QED  BY <2>1, <2>2
<1>4. NetInv'
  <2>1. ASSUME NEW d \in net'
        PROVE  /\ d.type = "message" => /\ d.id \in 1..Len(issued[d.from])
                                        /\ d.item = issued[d.from][d.id]
                                        /\ <<d.from, d.from>> \notin doubted =>
                                              d.v \in Nat /\ d.id <= d.v
               /\ d.type = "ack" => d.id # 0 /\ [from |-> d.to, id |-> d.id] \in has_received[d.from]
    <3>1. PICK o \in net : /\ d.type = o.type /\ d.from = o.from /\ d.to = o.to
                           /\ d.id = o.id /\ d.v = o.v
                           /\ d.type = "message" => d.item = o.item
      BY <1>3
    <3> QED  BY <3>1 DEF FifoInv, NetInv
  <2> QED  BY <1>1, <2>1 DEF NetInv
<1>5. RingInv' /\ CallInv' /\ IssueInv' /\ BatchInv' /\ HeldInv' /\ DeliveredInv' /\ CountedInv'
      /\ ArrivedInv' /\ AckInv'
  BY <1>1, <1>2, Untouched
<1> QED  BY <1>4, <1>5 DEF FifoInv

(* A receiving thread that is over still holds what it held.               *)
LEMMA ThreadDiesKeeps ==
    ASSUME FifoInv, TypeOK', Consistent', NEW n \in Servers, ThreadDies(n)
    PROVE  FifoInv'
<1>1. /\ UNCHANGED <<up, asked, members, calls, message_id_counter, my_timestamp, has_received,
                     has_acknowledged, unack_messages, holdback_queue, net, issued, delivered, doubted>>
      /\ receiver' = [receiver EXCEPT ![n].pc = "dead"] /\ receiver \in [Servers -> Receivers]
  BY DEF ThreadDies, process, sender, socket, network, history, FifoInv, TypeOK, Receivers
<1>2. /\ receiver'[n].pc = "dead"
      /\ \A s \in Servers : receiver'[s].batch = receiver[s].batch
      /\ \A s \in Servers \ {n} : receiver'[s] = receiver[s]
  BY <1>1 DEF Receivers
<1>3. UNCHANGED count /\ UNCHANGED held
  <2>1. UNCHANGED held
    BY <1>1, <1>2 DEF held
  <2> QED  BY <1>1, <2>1, Untouched
<1>4. BatchInv'
  BY <1>1, <1>2 DEF FifoInv, BatchInv, Trusted
<1>5. RingInv'
  BY <1>1, <1>2 DEF FifoInv, RingInv
<1>6. CallInv' /\ IssueInv' /\ NetInv' /\ HeldInv' /\ DeliveredInv' /\ CountedInv' /\ ArrivedInv'
      /\ AckInv'
  BY <1>1, <1>3, Untouched
<1> QED  BY <1>4, <1>5, <1>6 DEF FifoInv

LEMMA ListeningHolds == Listening.batch = <<>> /\ Elements(Listening.batch) = {}
<1>1. Elements(<<>>) = {}
  BY DEF Elements
<1> QED  BY <1>1 DEF Listening

(* A datagram that arrives leaves the entries of the vector timestamp that *)
(* belong to members as they are.                                          *)
LEMMA Refreshes ==
    ASSUME FifoInv, NEW n \in Servers, NEW m \in net, Arrives(n, m)
    PROVE  /\ m \in Datagrams /\ m.from \in Servers /\ m.to = n /\ n \in up
           /\ receiver[n] = Listening
           /\ \A s \in Servers : <<n, s>> \notin doubted =>
                 s \in DOMAIN my_timestamp'[n] /\ my_timestamp'[n][s] = my_timestamp[n][s]
           /\ \A s \in Servers \ {n} : my_timestamp'[s] = my_timestamp[s]
<1>1. /\ m \in Datagrams /\ m.from \in Servers /\ m.to = n /\ n \in up /\ receiver[n] = Listening
      /\ DOMAIN my_timestamp = Servers
  BY DatagramTypes DEF FifoInv, TypeOK, Consistent, Arrives, Incoming
<1>2. PICK r, known : r = Refreshed(n, m) /\ known = DOMAIN my_timestamp[n]
  OBVIOUS
<1>3. r = [s \in (known \cup {m.from}) \cap Elements(members[n]) |->
             IF s \in known THEN my_timestamp[n][s] ELSE m.v]
  BY <1>2 DEF Refreshed
<1>4. ASSUME NEW s \in Servers, <<n, s>> \notin doubted
      PROVE  s \in DOMAIN r /\ r[s] = my_timestamp[n][s]
  <2>1. s \in Elements(members[n]) /\ s \in known
    BY <1>2, <1>4 DEF FifoInv, RingInv
  <2> QED  BY <1>3, <2>1
<1>5. my_timestamp'[n] = r /\ \A s \in Servers \ {n} : my_timestamp'[s] = my_timestamp[s]
  BY <1>1, <1>2 DEF Arrives
<1> QED  BY <1>1, <1>4, <1>5

(* So the counts of a server that receives stay right.                     *)
LEMMA RefreshKeeps ==
    ASSUME FifoInv, NEW n \in Servers, NEW m \in net, Arrives(n, m),
           UNCHANGED <<up, asked, members, delivered, issued, doubted>>,
           \A s \in Servers : has_received[s] \subseteq has_received'[s],
           \A s \in Servers : s \notin up => receiver'[s] = receiver[s]
    PROVE  RingInv' /\ DeliveredInv' /\ CountedInv'
<1>1. ASSUME NEW s \in Servers, NEW q \in Servers, <<s, q>> \notin doubted
      PROVE  q \in DOMAIN my_timestamp'[s] /\ my_timestamp'[s][q] = my_timestamp[s][q]
  <2>1. CASE s = n
    BY <1>1, <2>1, Refreshes
  <2>2. CASE s # n
    <3>1. my_timestamp'[s] = my_timestamp[s]
      BY <2>2, Refreshes
    <3>2. q \in DOMAIN my_timestamp[s]
      BY <1>1 DEF FifoInv, RingInv
    <3> QED  BY <3>1, <3>2
  <2> QED  BY <2>1, <2>2
<1>2. UNCHANGED count
  BY Untouched
<1>3. RingInv'
  BY <1>1 DEF FifoInv, RingInv
<1>4. DeliveredInv'
  <2>1. ASSUME NEW s \in Servers, NEW d \in Elements(delivered[s])
        PROVE  \E k \in 1..Len(issued[d.from]) :
                  d.item = issued[d.from][k] /\ [from |-> d.from, id |-> k] \in has_received'[s]
    BY DEF FifoInv, DeliveredInv
  <2> QED  BY <2>1, Zenon DEF DeliveredInv
<1>5. CountedInv'
  BY <1>1, <1>2 DEF FifoInv, CountedInv, Trusted
<1> QED  BY <1>3, <1>4, <1>5

(* An acknowledgement is answered by nothing.                              *)
LEMMA ReceiveAckKeeps ==
    ASSUME FifoInv, TypeOK', Consistent', NEW n \in Servers, NEW m \in net, ReceiveAck(n, m)
    PROVE  FifoInv'
<1>1. /\ Arrives(n, m) /\ m.type = "ack" /\ net' = net \ {m}
      /\ has_acknowledged' = [has_acknowledged EXCEPT ![n] = @ \cup {[from |-> m.from, id |-> m.id]}]
      /\ has_acknowledged \in [Servers -> SUBSET [from : Servers, id : Nat]]
      /\ UNCHANGED <<up, asked, members, calls, message_id_counter, has_received,
                     unack_messages, holdback_queue, receiver, issued, delivered, doubted>>
  BY DEF ReceiveAck, process, sender, history, FifoInv, TypeOK
<1>2. UNCHANGED count /\ UNCHANGED held
  BY <1>1, Untouched
<1>3. /\ m.to = n /\ receiver[n] = Listening
      /\ \A s \in Servers \ {n} : my_timestamp'[s] = my_timestamp[s]
  BY <1>1, Refreshes
<1>4. NetInv'
  BY <1>1 DEF FifoInv, NetInv
<1>5. BatchInv'
  BY <1>1, <1>3, ListeningHolds DEF FifoInv, BatchInv, Trusted
<1>6. RingInv' /\ DeliveredInv' /\ CountedInv'
  BY <1>1, RefreshKeeps
<1>7. AckInv'
  <2>1. m.id # 0 /\ [from |-> n, id |-> m.id] \in has_received[m.from]
    BY <1>1, <1>3 DEF FifoInv, NetInv
  <2>2. ASSUME NEW s \in Servers, NEW a \in has_acknowledged'[s], a.id # 0
        PROVE  [from |-> s, id |-> a.id] \in has_received[a.from]
    <3>1. CASE a \in has_acknowledged[s]
      BY <2>2, <3>1 DEF FifoInv, AckInv
    <3>2. CASE s = n /\ a = [from |-> m.from, id |-> m.id]
      BY <2>1, <3>2
    <3> QED  BY <1>1, <2>2, <3>1, <3>2
  <2> QED  BY <1>1, <2>2 DEF FifoInv, AckInv
<1>8. CallInv' /\ IssueInv' /\ HeldInv' /\ ArrivedInv'
  BY <1>1, <1>2, Untouched
<1> QED  BY <1>4, <1>5, <1>6, <1>7, <1>8 DEF FifoInv

(* A message is answered by an acknowledgement of what is received by now. *)
LEMMA AnswerKeeps ==
    ASSUME FifoInv, NEW n \in Servers, NEW m \in net, Arrives(n, m), m.type = "message",
           net' = Answered(n, m), UNCHANGED <<up, issued, doubted>>,
           \A s \in Servers : has_received[s] \subseteq has_received'[s],
           [from |-> m.from, id |-> m.id] \in has_received'[n]
    PROVE  NetInv'
<1>1. PICK a : a = Ack(n, m.from, m.id, Stamp(n)')
  OBVIOUS
<1>2. a.type = "ack" /\ a.from = n /\ a.to = m.from /\ a.id = m.id
  BY <1>1 DEF Ack
<1>3. \A d \in net' : d \in net \/ d = a
  BY <1>1 DEF Answered, Sent
<1>4. m.from \in Servers /\ \A d \in net : d.from \in Servers
  BY DatagramTypes DEF FifoInv, TypeOK
<1>5. m.id # 0
  <2>1. m.id \in 1..Len(issued[m.from])
    BY DEF FifoInv, NetInv
  <2>2. Len(issued[m.from]) \in Nat
    BY <1>4, OwnCount
  <2> QED  BY <2>1, <2>2
<1>6. ASSUME NEW d \in net'
      PROVE  /\ d.type = "message" => /\ d.id \in 1..Len(issued[d.from])
                                      /\ d.item = issued[d.from][d.id]
                                      /\ <<d.from, d.from>> \notin doubted =>
                                            d.v \in Nat /\ d.id <= d.v
             /\ d.type = "ack" => /\ d.id # 0
                                  /\ [from |-> d.to, id |-> d.id] \in has_received'[d.from]
  <2>1. CASE d \in net
    BY <1>4, <2>1 DEF FifoInv, NetInv
  <2>2. CASE d = a
    BY <1>2, <1>5, <2>2
  <2> QED  BY <1>3, <2>1, <2>2
<1> QED  BY <1>6 DEF NetInv

LEMMA ReceiveAgainKeeps ==
    ASSUME FifoInv, TypeOK', Consistent', NEW n \in Servers, NEW m \in net, ReceiveAgain(n, m)
    PROVE  FifoInv'
<1>1. /\ Arrives(n, m) /\ m.type = "message" /\ net' = Answered(n, m)
      /\ [from |-> m.from, id |-> m.id] \in has_received[n]
      /\ UNCHANGED <<up, asked, members, calls, message_id_counter, has_received,
                     has_acknowledged, unack_messages, holdback_queue, receiver, issued, delivered,
                     doubted>>
  BY DEF ReceiveAgain, process, sender, history
<1>2. UNCHANGED count /\ UNCHANGED held
  BY <1>1, Untouched
<1>3. NetInv'
  BY <1>1, AnswerKeeps
<1>4. receiver[n] = Listening /\ \A s \in Servers \ {n} : my_timestamp'[s] = my_timestamp[s]
  BY <1>1, Refreshes
<1>5. BatchInv'
  BY <1>1, <1>4, ListeningHolds DEF FifoInv, BatchInv, Trusted
<1>6. RingInv' /\ DeliveredInv' /\ CountedInv'
  BY <1>1, RefreshKeeps
<1>7. CallInv' /\ IssueInv' /\ HeldInv' /\ ArrivedInv' /\ AckInv'
  BY <1>1, <1>2, Untouched
<1> QED  BY <1>3, <1>5, <1>6, <1>7 DEF FifoInv

(* A message that is new is not held and has not been delivered.           *)
LEMMA ReceiveNewKeeps ==
    ASSUME FifoInv, TypeOK', Consistent', NEW n \in Servers, NEW m \in net, ReceiveNew(n, m)
    PROVE  FifoInv'
<1>1. PICK e, key : /\ e = [from |-> m.from, v |-> m.v, item |-> m.item]
                    /\ key = [from |-> m.from, id |-> m.id]
  OBVIOUS
<1>2. /\ Arrives(n, m) /\ m.type = "message" /\ net' = Answered(n, m) /\ key \notin has_received[n]
      /\ has_received' = [has_received EXCEPT ![n] = @ \cup {key}]
      /\ holdback_queue' = [holdback_queue EXCEPT ![n] = Append(@, e)]
      /\ receiver' = [receiver EXCEPT ![n].pc = "scan"]
      /\ UNCHANGED <<up, asked, members, calls, message_id_counter, has_acknowledged,
                     unack_messages, issued, delivered, doubted>>
      /\ has_received \in [Servers -> SUBSET [from : Servers, id : Nat]]
      /\ holdback_queue \in [Servers -> Seq(HeldMessages)] /\ receiver \in [Servers -> Receivers]
  BY <1>1 DEF ReceiveNew, process, sender, history, FifoInv, TypeOK, Receivers
<1>3. UNCHANGED count
  BY <1>2, Untouched
<1>4. /\ m \in Datagrams /\ m.from \in Servers /\ m.item \in Items /\ m.v \in Counts /\ m.id \in Nat
      /\ receiver[n] = Listening /\ n \in up
      /\ \A s \in Servers \ {n} : my_timestamp'[s] = my_timestamp[s]
  BY <1>2, Refreshes, DatagramTypes
<1>5. /\ m.id \in 1..Len(issued[m.from]) /\ m.item = issued[m.from][m.id]
      /\ <<m.from, m.from>> \notin doubted => m.v \in Nat /\ m.id <= m.v
  BY <1>2 DEF FifoInv, NetInv
<1>6. /\ e \in HeldMessages /\ e.from = m.from /\ e.item = m.item /\ e.v = m.v
      /\ key.from = m.from /\ key.id = m.id
  BY <1>1, <1>4 DEF HeldMessages
<1>7. /\ has_received'[n] = has_received[n] \cup {key}
      /\ \A s \in Servers \ {n} : has_received'[s] = has_received[s]
      /\ \A s \in Servers : has_received[s] \subseteq has_received'[s]
  BY <1>2
<1>8. /\ receiver'[n].pc = "scan" /\ receiver'[n].batch = <<>> /\ receiver[n].batch = <<>>
      /\ \A s \in Servers \ {n} : receiver'[s] = receiver[s]
  BY <1>2, <1>4 DEF Receivers, Listening
<1>9. PICK queue : queue = holdback_queue[n] /\ queue \in Seq(HeldMessages)
  BY <1>2
<1>10. /\ holdback_queue'[n] = Append(queue, e)
       /\ \A s \in Servers \ {n} : holdback_queue'[s] = holdback_queue[s]
  BY <1>2, <1>9
<1>11. Elements(Append(queue, e)) = Elements(queue) \cup {e}
  BY <1>6, <1>9, ElementTypes
<1>12. Elements(<<>>) = {} /\ NoTwoSame(<<>>)
  BY DEF Elements, NoTwoSame
<1>13. /\ held[n] = Elements(queue) /\ held'[n] = held[n] \cup {e}
       /\ \A s \in Servers \ {n} : held'[s] = held[s]
  BY <1>8, <1>9, <1>10, <1>11, <1>12 DEF held
<1>14. /\ \A s \in Servers : Len(issued[s]) \in Nat
       /\ \A p, s \in Servers : count[p][s] \in Nat
  BY OwnCount
<1>15. \A k \in 1..Len(issued[m.from]) :
          [from |-> m.from, id |-> k] \in has_received[n] => issued[m.from][k] # m.item
  <2> SUFFICES ASSUME NEW k \in 1..Len(issued[m.from]), issued[m.from][k] = m.item,
                      [from |-> m.from, id |-> k] \in has_received[n]
               PROVE  FALSE
    OBVIOUS
  <2>1. PICK list : list = issued[m.from]
    OBVIOUS
  <2>2. \A i, j \in 1..Len(list) : list[i] = list[j] => i = j
    BY <1>4, <2>1 DEF FifoInv, IssueInv
  <2>3. m.id \in 1..Len(list) /\ k \in 1..Len(list) /\ list[k] = list[m.id]
    BY <1>5, <2>1
  <2>4. k = m.id
    BY <2>2, <2>3
  <2> QED  BY <1>1, <1>2, <2>4
<1>16. /\ \A y \in held[n] : ~Same(e, y)
       /\ [from |-> e.from, item |-> e.item] \notin Elements(delivered[n])
       /\ Trusted(n, m.from) => count[n][m.from] < m.id
  <2>1. ASSUME NEW y \in held[n], Same(e, y) PROVE FALSE
    <3>1. y.from = m.from /\ y.item = m.item
      BY <1>6, <2>1 DEF Same
    <3>2. \E k \in 1..Len(issued[m.from]) : /\ y.item = issued[m.from][k]
                                            /\ [from |-> m.from, id |-> k] \in has_received[n]
      BY <3>1 DEF FifoInv, HeldInv
    <3> QED  BY <1>15, <3>1, <3>2
  <2>2. ASSUME NEW d \in Elements(delivered[n]), d.from = m.from, d.item = m.item PROVE FALSE
    BY <1>15, <2>2 DEF FifoInv, DeliveredInv
  <2>3. ASSUME Trusted(n, m.from), ~(count[n][m.from] < m.id) PROVE FALSE
    <3>1. m.id \in 1..count[n][m.from]
      BY <1>4, <1>5, <1>14, <2>3
    <3>2. [from |-> m.from, id |-> m.id] \in has_received[n]
      BY <1>4, <2>3, <3>1 DEF FifoInv, CountedInv
    <3> QED  BY <1>1, <1>2, <3>2
  <2>4. [from |-> e.from, item |-> e.item] \notin Elements(delivered[n])
    BY <1>6, <2>2
  <2> QED  BY <2>1, <2>3, <2>4
<1>17. RingInv' /\ NetInv' /\ DeliveredInv' /\ CountedInv'
  <2>1. [from |-> m.from, id |-> m.id] \in has_received'[n]
    BY <1>1, <1>7
  <2>2. NetInv'
    BY <1>2, <1>7, <2>1, AnswerKeeps
  <2>3. \A s \in Servers : s \notin up => receiver'[s] = receiver[s]
    BY <1>4, <1>8
  <2> QED  BY <1>2, <1>7, <2>2, <2>3, RefreshKeeps
<1>18. BatchInv'
  <2>1. NoTwoSame(Append(queue, e))
    <3>1. NoTwoSame(queue)
      BY <1>9 DEF FifoInv, BatchInv
    <3> QED  BY <1>6, <1>9, <1>13, <1>16, <3>1, AppendedOnce
  <2>2. ASSUME NEW s \in Servers
        PROVE  /\ receiver'[s].pc # "answer"
               /\ receiver'[s].pc \in {"listen", "scan"} => receiver'[s].batch = <<>>
               /\ NoTwoSame(holdback_queue'[s])
               /\ NoTwoSame(receiver'[s].batch)
               /\ \A x \in Elements(receiver'[s].batch) :
                     /\ Trusted(s, x.from) => x.v = my_timestamp'[s][x.from]
                     /\ \A y \in Elements(holdback_queue'[s]) : ~Same(x, y)
    <3>1. CASE s = n
      BY <1>8, <1>10, <1>12, <2>1, <3>1
    <3>2. CASE s # n
      <4>1. /\ holdback_queue'[s] = holdback_queue[s] /\ receiver'[s] = receiver[s]
            /\ my_timestamp'[s] = my_timestamp[s]
        BY <1>4, <1>8, <1>10, <3>2
      <4> QED  BY <4>1 DEF FifoInv, BatchInv
    <3> QED  BY <3>1, <3>2
  <2> QED  BY <1>2, <2>2 DEF BatchInv, Trusted
<1>19. HeldInv'
  <2>1. ASSUME NEW s \in Servers, NEW x \in held'[s]
        PROVE  /\ [from |-> x.from, item |-> x.item] \notin Elements(delivered[s])
               /\ \E k \in 1..Len(issued[x.from]) :
                     /\ x.item = issued[x.from][k]
                     /\ [from |-> x.from, id |-> k] \in has_received'[s]
                     /\ <<x.from, x.from>> \notin doubted => x.v \in Nat /\ k <= x.v
                     /\ Trusted(s, x.from) => count[s][x.from] < k
    <3>1. CASE x \in held[s]
      BY <1>7, <3>1 DEF FifoInv, HeldInv
    <3>2. CASE s = n /\ x = e
      BY <1>1, <1>5, <1>6, <1>7, <1>16, <3>2
    <3> QED  BY <1>13, <3>1, <3>2
  <2>2. UNCHANGED <<issued, delivered, count, doubted>>
    BY <1>2, <1>3
  <2> QED  BY <2>1, <2>2, Zenon DEF HeldInv, Trusted
<1>20. ArrivedInv'
  <2>1. ASSUME NEW s \in Servers, NEW r \in has_received'[s]
        PROVE  /\ r.id <= Len(issued[r.from])
               /\ s \in up /\ r.id # 0 =>
                     \/ [from |-> r.from, item |-> issued[r.from][r.id]] \in Elements(delivered[s])
                     \/ \E x \in held'[s] : x.from = r.from /\ x.item = issued[r.from][r.id]
    <3>1. CASE r \in has_received[s]
      <4>1. held[s] \subseteq held'[s]
        BY <1>13
      <4> QED  BY <3>1, <4>1 DEF FifoInv, ArrivedInv
    <3>2. CASE s = n /\ r = key
      <4>1. r.id <= Len(issued[r.from])
        BY <1>4, <1>5, <1>6, <1>14, <3>2
      <4>2. e \in held'[s] /\ e.from = r.from /\ e.item = issued[r.from][r.id]
        BY <1>5, <1>6, <1>13, <3>2
      <4> QED  BY <4>1, <4>2
    <3> QED  BY <1>7, <3>1, <3>2
  <2>2. UNCHANGED <<up, issued, delivered>>
    BY <1>2
  <2> QED  BY <2>1, <2>2, Zenon DEF ArrivedInv
<1>21. AckInv'
  <2>1. \A p \in Servers : \A a \in has_acknowledged[p] : a.from \in Servers
    <3>1. has_acknowledged \in [Servers -> SUBSET [from : Servers, id : Nat]]
      BY DEF FifoInv, TypeOK
    <3> QED  BY <3>1
  <2> QED  BY <1>2, <1>7, <2>1 DEF FifoInv, AckInv
<1>22. CallInv' /\ IssueInv'
  BY <1>2, <1>3, Untouched
<1> QED  BY <1>17, <1>18, <1>19, <1>20, <1>21, <1>22 DEF FifoInv

(* One round takes the messages that are due out of the queue.             *)
LEMMA ScanKeeps ==
    ASSUME FifoInv, TypeOK', Consistent', NEW n \in Servers, Scan(n)
    PROVE  FifoInv'
<1>1. PICK queue, due, rest, batch :
        /\ queue = holdback_queue[n]
        /\ due = {i \in DOMAIN queue : \/ queue[i].v = NoCount
                                       \/ queue[i].v = my_timestamp[n][queue[i].from]}
        /\ rest = DOMAIN queue \ due
        /\ batch = Picked(queue, due)
  OBVIOUS
<1>2. /\ receiver[n].pc = "scan"
      /\ holdback_queue' = [holdback_queue EXCEPT ![n] = Picked(queue, rest)]
      /\ receiver' = [receiver EXCEPT ![n] =
                         IF due = {} THEN Listening
                         ELSE [pc |-> "deliver", batch |-> batch, answers |-> <<>>]]
      /\ UNCHANGED <<up, asked, members, calls, message_id_counter, my_timestamp, has_received,
                     has_acknowledged, unack_messages, net, issued, delivered, doubted>>
      /\ holdback_queue \in [Servers -> Seq(HeldMessages)] /\ receiver \in [Servers -> Receivers]
  BY <1>1, SMTT(30) DEF Scan, process, sender, network, history, FifoInv, TypeOK, Receivers
<1>3. UNCHANGED count
  BY <1>2, Untouched
<1>4. /\ queue \in Seq(HeldMessages) /\ due \in SUBSET (DOMAIN queue) /\ rest \in SUBSET (DOMAIN queue)
      /\ NoTwoSame(queue) /\ receiver[n].batch = <<>>
  BY <1>1, <1>2 DEF FifoInv, BatchInv
<1>5. /\ NoTwoSame(batch) /\ Elements(batch) = {queue[i] : i \in due}
      /\ NoTwoSame(Picked(queue, rest)) /\ Elements(Picked(queue, rest)) = {queue[i] : i \in rest}
  <2>1. NoTwoSame(Picked(queue, due)) /\ Elements(Picked(queue, due)) = {queue[i] : i \in due}
    BY <1>4, PickedOnce
  <2>2. NoTwoSame(Picked(queue, rest)) /\ Elements(Picked(queue, rest)) = {queue[i] : i \in rest}
    BY <1>4, PickedOnce
  <2>3. batch = Picked(queue, due)
    BY <1>1
  <2> QED  BY <2>1, <2>2, <2>3
<1>6. /\ holdback_queue'[n] = Picked(queue, rest)
      /\ \A s \in Servers \ {n} : holdback_queue'[s] = holdback_queue[s]
      /\ \A s \in Servers \ {n} : receiver'[s] = receiver[s]
      /\ receiver'[n].pc # "answer"
      /\ receiver'[n].pc \in {"listen", "scan"} => receiver'[n].batch = <<>>
      /\ due = {} => receiver'[n].batch = <<>>
      /\ due # {} => receiver'[n].batch = batch
  BY <1>2 DEF Listening
<1>7. Elements(<<>>) = {} /\ NoTwoSame(<<>>)
  BY DEF Elements, NoTwoSame
<1>8. Elements(receiver'[n].batch) = {queue[i] : i \in due}
  <2>1. CASE due = {}
    BY <1>6, <1>7, <2>1
  <2>2. CASE due # {}
    BY <1>5, <1>6, <2>2
  <2> QED  BY <2>1, <2>2
<1>9. UNCHANGED held
  <2>1. \A x : x \in Elements(queue) <=> \E i \in DOMAIN queue : x = queue[i]
    BY DEF Elements
  <2>2. \A i : i \in DOMAIN queue <=> i \in due \/ i \in rest
    BY <1>1
  <2>3. \A x : x \in Elements(queue) <=>
                  x \in {queue[i] : i \in rest} \/ x \in {queue[i] : i \in due}
    BY <2>1, <2>2
  <2>4. held[n] = Elements(queue)
    BY <1>1, <1>4, <1>7 DEF held
  <2>5. held'[n] = {queue[i] : i \in rest} \cup {queue[i] : i \in due}
    BY <1>5, <1>6, <1>8 DEF held
  <2>6. held'[n] = held[n]
    BY <2>3, <2>4, <2>5, Zenon
  <2>7. \A s \in Servers \ {n} : held'[s] = held[s]
    BY <1>6 DEF held
  <2>8. \A s \in Servers : held'[s] = held[s]
    BY <2>6, <2>7
  <2> QED  BY <2>8 DEF held
<1>10. ASSUME NEW i \in due, Trusted(n, queue[i].from)
       PROVE  queue[i].v = my_timestamp[n][queue[i].from]
  <2>1. queue[i] \in held[n]
    BY <1>1 DEF held, Elements
  <2>2. queue[i].v \in Nat
    BY <1>10, <2>1 DEF FifoInv, HeldInv, Trusted
  <2>3. queue[i].v # NoCount
    BY <2>2 DEF NoCount
  <2> QED  BY <1>1, <2>3
<1>11. BatchInv'
  <2>1. NoTwoSame(receiver'[n].batch)
    BY <1>5, <1>6, <1>7
  <2>2. ASSUME NEW i \in due, NEW j \in rest PROVE ~Same(queue[i], queue[j])
    BY <1>1, <1>4 DEF NoTwoSame
  <2>3. ASSUME NEW s \in Servers
        PROVE  /\ receiver'[s].pc # "answer"
               /\ receiver'[s].pc \in {"listen", "scan"} => receiver'[s].batch = <<>>
               /\ NoTwoSame(holdback_queue'[s])
               /\ NoTwoSame(receiver'[s].batch)
               /\ \A x \in Elements(receiver'[s].batch) :
                     /\ Trusted(s, x.from) => x.v = my_timestamp[s][x.from]
                     /\ \A y \in Elements(holdback_queue'[s]) : ~Same(x, y)
    <3>1. CASE s = n
      BY <1>5, <1>6, <1>8, <1>10, <2>1, <2>2, <3>1
    <3>2. CASE s # n
      BY <1>6, <3>2 DEF FifoInv, BatchInv
    <3> QED  BY <3>1, <3>2
  <2>4. UNCHANGED <<my_timestamp, doubted>>
    BY <1>2
  <2> QED  BY <2>3, <2>4 DEF BatchInv, Trusted
<1>12. RingInv'
  <2>1. n \in up
    BY <1>2 DEF FifoInv, RingInv
  <2> QED  BY <1>2, <1>6, <2>1 DEF FifoInv, RingInv
<1>13. CallInv' /\ IssueInv' /\ NetInv' /\ HeldInv' /\ DeliveredInv' /\ CountedInv' /\ ArrivedInv'
       /\ AckInv'
  BY <1>2, <1>3, <1>9, Untouched
<1> QED  BY <1>11, <1>12, <1>13 DEF FifoInv

(* Of a server that was never removed the message that is delivered is the *)
(* next one.                                                               *)
LEMMA DueIsNext ==
    ASSUME FifoInv, NEW n \in Servers, NEW x \in Elements(receiver[n].batch), Trusted(n, x.from)
    PROVE  /\ x.from \in DOMAIN my_timestamp[n] /\ my_timestamp[n][x.from] = count[n][x.from] + 1
           /\ count[n][x.from] + 1 \in 1..Len(issued[x.from])
           /\ x.item = issued[x.from][count[n][x.from] + 1]
           /\ [from |-> x.from, id |-> count[n][x.from] + 1] \in has_received[n]
<1>1. x \in held[n] /\ x.from \in Servers
  <2>1. x \in held[n]
    BY DEF held
  <2> QED  BY <2>1, HeldTypes DEF FifoInv
<1>2. x.from \in DOMAIN my_timestamp[n]
  BY <1>1 DEF FifoInv, RingInv, Trusted
<1>3. my_timestamp[n][x.from] = count[n][x.from] + 1 /\ x.v = my_timestamp[n][x.from]
  BY <1>1 DEF FifoInv, BatchInv, CountedInv
<1>4. PICK k \in 1..Len(issued[x.from]) : /\ x.item = issued[x.from][k] /\ k <= x.v
                                          /\ count[n][x.from] < k
                                          /\ [from |-> x.from, id |-> k] \in has_received[n]
  BY <1>1 DEF FifoInv, HeldInv, Trusted
<1>5. Len(issued[x.from]) \in Nat /\ count[n][x.from] \in Nat
  BY <1>1, OwnCount
<1>6. k = count[n][x.from] + 1
  BY <1>3, <1>4, <1>5
<1> QED  BY <1>2, <1>3, <1>4, <1>6

LEMMA BatchOpens ==
    ASSUME FifoInv, NEW n \in Servers, receiver[n].pc = "deliver"
    PROVE  LET e == Head(receiver[n].batch)
           IN  /\ receiver[n].batch \in Seq(HeldMessages) /\ receiver[n].batch # <<>>
               /\ e \in Elements(receiver[n].batch) /\ e \in held[n]
               /\ e.from \in Servers /\ e.item \in Content
<1>1. PICK e : e = Head(receiver[n].batch)
  OBVIOUS
<1>2. receiver[n].batch \in Seq(HeldMessages) /\ receiver[n].batch # <<>>
  BY DEF FifoInv, TypeOK, Consistent
<1>3. e \in Elements(receiver[n].batch)
  <2>1. NoTwoSame(receiver[n].batch)
    BY DEF FifoInv, BatchInv
  <2> QED  BY <1>1, <1>2, <2>1, TakenOnce
<1>4. e \in held[n] /\ e.from \in Servers
  <2>1. e \in held[n]
    BY <1>3 DEF held
  <2> QED  BY <2>1, HeldTypes DEF FifoInv
<1>5. e.item \in Content
  <2>1. PICK k \in 1..Len(issued[e.from]) : e.item = issued[e.from][k]
    BY <1>4 DEF FifoInv, HeldInv
  <2> QED  BY <1>4, <2>1 DEF FifoInv, IssueInv
<1> QED  BY <1>1, <1>2, <1>3, <1>4, <1>5

(* So it is never the question of a new server, and it is stored.          *)
LEMMA NobodyAsks ==
    ASSUME FifoInv, NEW n \in Servers
    PROVE  ~Discard(n) /\ ~AnswerNewServer(n) /\ ~SendAnswer(n)
<1>1. ~SendAnswer(n)
  BY DEF FifoInv, BatchInv, SendAnswer
<1>2. ASSUME AnswerNewServer(n) PROVE FALSE
  <2>1. receiver[n].pc = "deliver" /\ Head(receiver[n].batch).item.type = "AA"
    BY <1>2 DEF AnswerNewServer, Delivering, Asks
  <2>2. Head(receiver[n].batch).item \in Content
    BY <2>1, BatchOpens
  <2> QED  BY <2>1, <2>2, ContentAssumption
<1>3. ~Discard(n)
  BY DEF FifoInv, RingInv, Discard
<1> QED  BY <1>1, <1>2, <1>3

(* Delivering moves the first message of the batch on to those delivered.  *)
LEMMA StoreKeeps ==
    ASSUME FifoInv, TypeOK', Consistent', NEW n \in Servers, Store(n)
    PROVE  /\ FifoInv'
           /\ \E s \in Servers : \E k \in 1..Len(issued[s]) :
                 /\ [from |-> s, item |-> issued[s][k]] \notin Elements(delivered[n])
                 /\ Trusted(n, s) => k = count[n][s] + 1
                 /\ delivered' = [delivered EXCEPT ![n] =
                                     Append(@, [from |-> s, item |-> issued[s][k]])]
                 /\ UNCHANGED <<issued, doubted>>
<1>1. PICK batch, e, s, d : /\ batch = receiver[n].batch /\ e = Head(batch) /\ s = e.from
                            /\ d = [from |-> s, item |-> e.item]
  OBVIOUS
<1>2. /\ receiver[n].pc = "deliver" /\ s \in DOMAIN my_timestamp[n]
      /\ my_timestamp' = [my_timestamp EXCEPT ![n][s] = @ + 1]
      /\ delivered' = [delivered EXCEPT ![n] = Append(@, [from |-> s, item |-> e.item])]
      /\ receiver' = [receiver EXCEPT ![n] = Onward(batch)]
      /\ UNCHANGED <<up, asked, members, calls, message_id_counter, has_received,
                     has_acknowledged, unack_messages, holdback_queue, net, issued, doubted>>
      /\ receiver \in [Servers -> Receivers]
  BY <1>1 DEF Store, Delivering, LookupFails, process, sender, network, FifoInv, TypeOK, Receivers
<1>3. /\ batch \in Seq(HeldMessages) /\ batch # <<>> /\ e \in Elements(batch) /\ e \in held[n]
      /\ s \in Servers /\ e.item \in Content
  BY <1>1, <1>2, BatchOpens
<1>4. PICK k \in 1..Len(issued[s]) : e.item = issued[s][k] /\ [from |-> s, id |-> k] \in has_received[n]
  BY <1>1, <1>3 DEF FifoInv, HeldInv
<1>5. d \notin Elements(delivered[n])
  BY <1>1, <1>3 DEF FifoInv, HeldInv
<1>6. /\ delivered \in [Servers -> Seq(Entries)] /\ Len(issued[s]) \in Nat
      /\ \A p, q \in Servers : count[p][q] \in Nat
  BY <1>3, OwnCount
<1>7. /\ count'[n][s] = count[n][s] + 1
      /\ \A p, q \in Servers : p # n \/ q # s => count'[p][q] = count[p][q]
  BY <1>1, <1>2, <1>3, <1>6, ItemTypes, CountGrows
<1>8. \A p, q \in Servers : count[p][q] <= count'[p][q] /\ count'[p][q] \in Nat
  <2>1. ASSUME NEW p \in Servers, NEW q \in Servers
        PROVE  count[p][q] <= count'[p][q] /\ count'[p][q] \in Nat
    <3>1. count[p][q] \in Nat
      BY <1>6
    <3>2. count'[p][q] = count[p][q] \/ count'[p][q] = count[p][q] + 1
      BY <1>7
    <3> QED  BY <3>1, <3>2
  <2> QED  BY <2>1
<1>9. Trusted(n, s) => k = count[n][s] + 1 /\ my_timestamp[n][s] = k
  <2> SUFFICES ASSUME Trusted(n, s) PROVE k = count[n][s] + 1 /\ my_timestamp[n][s] = k
    OBVIOUS
  <2>1. /\ my_timestamp[n][s] = count[n][s] + 1 /\ count[n][s] + 1 \in 1..Len(issued[s])
        /\ e.item = issued[s][count[n][s] + 1]
    BY <1>1, <1>3, DueIsNext
  <2>2. PICK list : list = issued[s]
    OBVIOUS
  <2>3. \A i, j \in 1..Len(list) : list[i] = list[j] => i = j
    BY <1>3, <2>2 DEF FifoInv, IssueInv
  <2>4. k \in 1..Len(list) /\ count[n][s] + 1 \in 1..Len(list) /\ list[k] = list[count[n][s] + 1]
    BY <1>4, <2>1, <2>2
  <2>5. k = count[n][s] + 1
    BY <2>3, <2>4
  <2> QED  BY <2>1, <2>5
<1>10. /\ DOMAIN my_timestamp = Servers
       /\ DOMAIN my_timestamp'[n] = DOMAIN my_timestamp[n]
       /\ my_timestamp'[n][s] = my_timestamp[n][s] + 1
       /\ \A q \in DOMAIN my_timestamp[n] : q # s => my_timestamp'[n][q] = my_timestamp[n][q]
       /\ \A p \in Servers \ {n} : my_timestamp'[p] = my_timestamp[p]
  <2>1. DOMAIN my_timestamp = Servers
    BY DEF FifoInv, TypeOK
  <2>2. PICK f : f = [my_timestamp[n] EXCEPT ![s] = @ + 1]
    OBVIOUS
  <2>3. my_timestamp' = [my_timestamp EXCEPT ![n] = f]
    BY <1>2, <2>2
  <2>4. PICK g, D : g = my_timestamp[n] /\ D = DOMAIN g /\ g \in [D -> Nat]
    BY DEF FifoInv, TypeOK
  <2>5. f = [q \in D |-> IF q = s THEN g[q] + 1 ELSE g[q]]
    BY <2>2, <2>4
  <2>6. DOMAIN f = D /\ f[s] = g[s] + 1 /\ \A q \in D : q # s => f[q] = g[q]
    BY <1>2, <2>4, <2>5
  <2> QED  BY <2>1, <2>3, <2>4, <2>6
<1>11. /\ receiver'[n].batch = Tail(batch) /\ receiver'[n].pc \in {"scan", "deliver"}
       /\ receiver'[n].pc = "scan" => Tail(batch) = <<>>
       /\ \A p \in Servers \ {n} : receiver'[p] = receiver[p]
  BY <1>2 DEF Onward
<1>12. /\ NoTwoSame(batch)
       /\ \A x \in Elements(batch) : /\ Trusted(n, x.from) => x.v = my_timestamp[n][x.from]
                                     /\ \A y \in Elements(holdback_queue[n]) : ~Same(x, y)
       /\ NoTwoSame(holdback_queue[n])
  BY <1>1 DEF FifoInv, BatchInv
<1>13. /\ NoTwoSame(Tail(batch))
       /\ \A x \in Elements(batch) : x = e \/ x \in Elements(Tail(batch))
       /\ \A x \in Elements(Tail(batch)) : x \in Elements(batch) /\ ~Same(x, e)
  BY <1>1, <1>3, <1>12, TakenOnce
<1>14. /\ held'[n] = Elements(holdback_queue[n]) \cup Elements(Tail(batch))
       /\ held[n] = Elements(holdback_queue[n]) \cup Elements(batch)
       /\ \A p \in Servers \ {n} : held'[p] = held[p]
  BY <1>1, <1>2, <1>11 DEF held
<1>15. /\ \A x \in held'[n] : x \in held[n] /\ ~Same(e, x)
       /\ \A x \in held[n] : x = e \/ x \in held'[n]
  BY <1>1, <1>3, <1>12, <1>13, <1>14 DEF Same
<1>16. /\ Elements(delivered'[n]) = Elements(delivered[n]) \cup {d}
       /\ \A p \in Servers \ {n} : delivered'[p] = delivered[p]
       /\ d.from = s /\ d.item = e.item
  <2>1. PICK list : list = delivered[n] /\ list \in Seq(Entries)
    BY <1>6
  <2>2. d \in Entries /\ d.from = s /\ d.item = e.item
    BY <1>1, <1>3, ItemTypes DEF Entries
  <2>3. Elements(Append(list, d)) = Elements(list) \cup {d}
    BY <2>1, <2>2, ElementTypes
  <2> QED  BY <1>1, <1>2, <1>6, <2>1, <2>2, <2>3
<1>17. RingInv'
  <2>1. n \in up
    BY <1>2 DEF FifoInv, RingInv
  <2>2. \A p \in Servers : DOMAIN my_timestamp'[p] = DOMAIN my_timestamp[p]
    BY <1>10
  <2> QED  BY <1>2, <1>11, <2>1, <2>2 DEF FifoInv, RingInv
<1>18. CallInv'
  <2>1. UNCHANGED <<up, calls, message_id_counter, issued>>
    BY <1>2
  <2>2. ASSUME NEW p \in Servers PROVE Len(issued[p]) <= count'[p][p] + 1
    <3>1. Len(issued[p]) \in Nat /\ Len(issued[p]) <= count[p][p] + 1 /\ count[p][p] \in Nat
      BY OwnCount DEF FifoInv, CallInv
    <3>2. count[p][p] <= count'[p][p] /\ count'[p][p] \in Nat
      BY <1>8
    <3> QED  BY <3>1, <3>2
  <2> QED  BY <2>1, <2>2 DEF FifoInv, CallInv
<1>19. BatchInv'
  <2>1. ASSUME NEW x \in Elements(Tail(batch)), Trusted(n, x.from)
        PROVE  x.v = my_timestamp'[n][x.from]
    <3>1. x \in Elements(receiver[n].batch) /\ ~Same(x, e)
      BY <1>1, <1>13
    <3>2. /\ x.from \in DOMAIN my_timestamp[n] /\ x.v = my_timestamp[n][x.from]
          /\ x.item = issued[x.from][count[n][x.from] + 1]
      BY <1>12, <1>13, <2>1, <3>1, DueIsNext
    <3>3. x.from # s
      BY <1>1, <1>4, <1>9, <2>1, <3>1, <3>2 DEF Same
    <3> QED  BY <1>10, <3>2, <3>3
  <2>2. ASSUME NEW p \in Servers
        PROVE  /\ receiver'[p].pc # "answer"
               /\ receiver'[p].pc \in {"listen", "scan"} => receiver'[p].batch = <<>>
               /\ NoTwoSame(holdback_queue[p])
               /\ NoTwoSame(receiver'[p].batch)
               /\ \A x \in Elements(receiver'[p].batch) :
                     /\ Trusted(p, x.from) => x.v = my_timestamp'[p][x.from]
                     /\ \A y \in Elements(holdback_queue[p]) : ~Same(x, y)
    <3>1. CASE p = n
      BY <1>11, <1>12, <1>13, <2>1, <3>1
    <3>2. CASE p # n
      <4>1. receiver'[p] = receiver[p] /\ my_timestamp'[p] = my_timestamp[p]
        BY <1>10, <1>11, <3>2
      <4> QED  BY <4>1 DEF FifoInv, BatchInv
    <3> QED  BY <3>1, <3>2
  <2>3. UNCHANGED <<holdback_queue, doubted>>
    BY <1>2
  <2> QED  BY <2>2, <2>3 DEF BatchInv, Trusted
<1>20. HeldInv'
  <2>1. ASSUME NEW p \in Servers, NEW x \in held'[p]
        PROVE  /\ [from |-> x.from, item |-> x.item] \notin Elements(delivered'[p])
               /\ \E l \in 1..Len(issued[x.from]) :
                     /\ x.item = issued[x.from][l]
                     /\ [from |-> x.from, id |-> l] \in has_received[p]
                     /\ <<x.from, x.from>> \notin doubted => x.v \in Nat /\ l <= x.v
                     /\ Trusted(p, x.from) => count'[p][x.from] < l
    <3>1. x \in held[p] /\ x.from \in Servers
      <4>1. x \in held[p]
        BY <1>14, <1>15
      <4> QED  BY <4>1, HeldTypes DEF FifoInv
    <3>2. PICK l \in 1..Len(issued[x.from]) :
             /\ x.item = issued[x.from][l]
             /\ [from |-> x.from, id |-> l] \in has_received[p]
             /\ <<x.from, x.from>> \notin doubted => x.v \in Nat /\ l <= x.v
             /\ Trusted(p, x.from) => count[p][x.from] < l
      BY <3>1 DEF FifoInv, HeldInv
    <3>3. [from |-> x.from, item |-> x.item] \notin Elements(delivered'[p])
      <4>1. [from |-> x.from, item |-> x.item] \notin Elements(delivered[p])
        BY <3>1 DEF FifoInv, HeldInv
      <4>2. p = n => ~(x.from = s /\ x.item = e.item)
        BY <1>1, <1>15 DEF Same
      <4>3. p = n => [from |-> x.from, item |-> x.item] # d
        BY <1>16, <4>2
      <4> QED  BY <1>16, <4>1, <4>3
    <3>4. Trusted(p, x.from) => count'[p][x.from] < l
      <4>1. CASE p = n /\ x.from = s
        <5>1. l # k
          BY <1>1, <1>4, <1>15, <3>2, <4>1 DEF Same
        <5> QED  BY <1>6, <1>7, <1>9, <3>1, <3>2, <4>1, <5>1
      <4>2. CASE ~(p = n /\ x.from = s)
        BY <1>7, <3>1, <3>2, <4>2
      <4> QED  BY <4>1, <4>2
    <3> QED  BY <3>2, <3>3, <3>4
  <2>2. UNCHANGED <<issued, has_received, doubted>>
    BY <1>2
  <2> QED  BY <2>1, <2>2, Zenon DEF HeldInv, Trusted
<1>21. DeliveredInv'
  <2>1. ASSUME NEW p \in Servers, NEW c \in Elements(delivered'[p])
        PROVE  \E l \in 1..Len(issued[c.from]) :
                  c.item = issued[c.from][l] /\ [from |-> c.from, id |-> l] \in has_received[p]
    <3>1. CASE c \in Elements(delivered[p])
      BY <3>1 DEF FifoInv, DeliveredInv
    <3>2. CASE p = n /\ c = d
      BY <1>4, <1>16, <3>2
    <3> QED  BY <1>16, <3>1, <3>2
  <2>2. UNCHANGED <<issued, has_received>>
    BY <1>2
  <2> QED  BY <2>1, <2>2, Zenon DEF DeliveredInv
<1>22. CountedInv'
  <2>1. ASSUME NEW p \in Servers, NEW q \in Servers, Trusted(p, q)
        PROVE  /\ count'[p][q] <= Len(issued[q])
               /\ my_timestamp'[p][q] = count'[p][q] + 1
               /\ \A l \in 1..count'[p][q] : [from |-> q, id |-> l] \in has_received[p]
    <3>0. /\ count[p][q] <= Len(issued[q])
          /\ my_timestamp[p][q] = count[p][q] + 1
          /\ \A l \in 1..count[p][q] : [from |-> q, id |-> l] \in has_received[p]
      BY <2>1 DEF FifoInv, CountedInv
    <3>1. CASE p = n /\ q = s
      <4>1. k = count[n][s] + 1 /\ my_timestamp[n][s] = k /\ count[n][s] \in Nat
        BY <1>3, <1>6, <1>9, <2>1, <3>1
      <4>2. \A l \in 1..k : l \in 1..count[n][s] \/ l = k
        BY <4>1
      <4>3. \A l \in 1..k : [from |-> s, id |-> l] \in has_received[n]
        BY <1>4, <3>0, <3>1, <4>2
      <4>4. k <= Len(issued[s])
        BY <1>4, <1>6
      <4> QED  BY <1>7, <1>10, <3>1, <4>1, <4>3, <4>4
    <3>2. CASE ~(p = n /\ q = s)
      <4>1. count'[p][q] = count[p][q]
        BY <1>7, <3>2
      <4>2. my_timestamp'[p][q] = my_timestamp[p][q]
        <5>1. q \in DOMAIN my_timestamp[p]
          BY <2>1 DEF FifoInv, RingInv, Trusted
        <5> QED  BY <1>10, <3>2, <5>1
      <4> QED  BY <3>0, <4>1, <4>2
    <3> QED  BY <3>1, <3>2
  <2>2. UNCHANGED <<issued, has_received, doubted>>
    BY <1>2
  <2> QED  BY <2>1, <2>2, Zenon DEF CountedInv, Trusted
<1>23. ArrivedInv'
  <2>1. ASSUME NEW p \in Servers, NEW r \in has_received[p]
        PROVE  /\ r.id <= Len(issued[r.from])
               /\ p \in up /\ r.id # 0 =>
                     \/ [from |-> r.from, item |-> issued[r.from][r.id]] \in Elements(delivered'[p])
                     \/ \E x \in held'[p] : x.from = r.from /\ x.item = issued[r.from][r.id]
    <3>1. /\ r.id <= Len(issued[r.from])
          /\ p \in up /\ r.id # 0 =>
                \/ [from |-> r.from, item |-> issued[r.from][r.id]] \in Elements(delivered[p])
                \/ \E x \in held[p] : x.from = r.from /\ x.item = issued[r.from][r.id]
      BY DEF FifoInv, ArrivedInv
    <3>2. Elements(delivered[p]) \subseteq Elements(delivered'[p])
      BY <1>16
    <3>3. ASSUME NEW x \in held[p], x.from = r.from, x.item = issued[r.from][r.id]
          PROVE  \/ [from |-> r.from, item |-> issued[r.from][r.id]] \in Elements(delivered'[p])
                 \/ x \in held'[p]
      <4>1. CASE x \in held'[p]
        BY <4>1
      <4>2. CASE x \notin held'[p]
        <5>1. p = n /\ x = e
          BY <1>14, <1>15, <4>2
        <5>2. d = [from |-> r.from, item |-> issued[r.from][r.id]]
          BY <1>1, <3>3, <5>1
        <5> QED  BY <1>16, <5>1, <5>2
      <4> QED  BY <4>1, <4>2
    <3> QED  BY <3>1, <3>2, <3>3
  <2>2. UNCHANGED <<up, issued, has_received>>
    BY <1>2
  <2> QED  BY <2>1, <2>2, Zenon DEF ArrivedInv
<1>24. IssueInv' /\ NetInv' /\ AckInv'
  BY <1>2, Untouched
<1>25. FifoInv'
  BY <1>17, <1>18, <1>19, <1>20, <1>21, <1>22, <1>23, <1>24 DEF FifoInv
<1>26. /\ [from |-> s, item |-> issued[s][k]] \notin Elements(delivered[n])
       /\ delivered' = [delivered EXCEPT ![n] = Append(@, [from |-> s, item |-> issued[s][k]])]
  BY <1>1, <1>2, <1>4, <1>5
<1> QED  BY <1>2, <1>3, <1>9, <1>25, <1>26

-----------------------------------------------------------------------------
(* A new process is not a case: all servers are there from the start.      *)
LEMMA NobodyComes ==
    ASSUME FifoInv, NEW n \in Servers
    PROVE  ~Boot(n) /\ \A t \in Threads : ~AskForDatabase(n, t)
BY DEF FifoInv, RingInv, Boot, AskForDatabase

LEMMA StepFifoInv ==
    ASSUME FifoInv, [Next /\ Paced]_vars
    PROVE  FifoInv'
<1>1. CASE UNCHANGED vars
  <2>1. /\ UNCHANGED <<up, asked, members, calls, message_id_counter, my_timestamp, has_received,
                       has_acknowledged, unack_messages, holdback_queue, receiver, net, issued,
                       delivered, doubted>>
        /\ TypeOK' /\ Consistent'
    <3>1. TypeOK' /\ Consistent'
      BY <1>1, StepTypeOK DEF FifoInv
    <3> QED  BY <1>1, <3>1 DEF vars, process, sender, socket, network, history
  <2>2. UNCHANGED count /\ UNCHANGED held
    BY <2>1, Untouched
  <2> QED  BY <2>1, <2>2, Untouched DEF FifoInv
<1>2. CASE Next /\ Paced
  <2>1. TypeOK' /\ Consistent'
    BY <1>2, StepTypeOK DEF FifoInv
  <2>2. ASSUME NEW n \in Servers, NEW t \in Threads, Call(n, t) PROVE FifoInv'
    BY <2>1, <2>2, SendKeeps, CountingKeeps DEF Call
  <2>3. ASSUME NEW n \in Servers, NEW t \in Threads, NEW item \in Content, Publish(n, t, item)
        PROVE  FifoInv'
    BY <1>2, <2>1, <2>3, PublishKeeps
  <2>4. ASSUME NEW n \in Servers, Work(n) PROVE FifoInv'
    BY <2>1, <2>4, ThreadDiesKeeps, ScanKeeps, StoreKeeps, NobodyAsks DEF Work
  <2>5. ASSUME NEW n \in Servers, NEW m \in net, Receive(n, m) PROVE FifoInv'
    BY <2>1, <2>5, ReceiveAckKeeps, ReceiveAgainKeeps, ReceiveNewKeeps DEF Receive
  <2>6. ASSUME NEW n \in Servers, ForgetAcknowledged(n) \/ Elect(n) \/ Crash(n) PROVE FifoInv'
    BY <2>1, <2>6, ForgetKeeps, ElectKeeps, CrashKeeps
  <2>7. ASSUME NEW n \in Servers, NEW p \in Servers, RemoveHost(n, p) \/ AddHost(n, p)
        PROVE  FifoInv'
    BY <2>1, <2>7, RemoveKeeps, AddKeeps
  <2>8. ASSUME NEW m \in net, Lose(m) \/ Copy(m) PROVE FifoInv'
    BY <2>1, <2>8, NetworkKeeps
  <2> QED  BY <1>2, <2>2, <2>3, <2>4, <2>5, <2>6, <2>7, <2>8, NobodyComes DEF Next
<1> QED  BY <1>1, <1>2

(* What is received, or has been acknowledged, came in at a server that is *)
(* up.                                                                     *)
LEMMA ReceivedIsAccepted ==
    ASSUME FifoInv, NEW n \in up, NEW s \in Servers, NEW k \in 1..Len(issued[s]),
           [from |-> s, id |-> k] \in has_received[n]
    PROVE  [from |-> s, item |-> issued[s][k]] \in Accepted(n)
<1>1. n \in Servers /\ k # 0
  <2>1. n \in Servers
    BY DEF FifoInv, TypeOK
  <2>2. Len(issued[s]) \in Nat
    BY OwnCount
  <2> QED  BY <2>1, <2>2
<1>2. PICK r : r = [from |-> s, id |-> k]
  OBVIOUS
<1>3. \/ [from |-> s, item |-> issued[s][k]] \in Elements(delivered[n])
      \/ \E e \in held[n] : e.from = s /\ e.item = issued[s][k]
  BY <1>1, <1>2 DEF FifoInv, ArrivedInv
<1>4. ASSUME NEW e \in held[n], e.from = s, e.item = issued[s][k]
      PROVE  [from |-> s, item |-> issued[s][k]] \in Accepted(n)
  <2>1. e \in Elements(holdback_queue[n]) \cup Elements(receiver[n].batch)
    BY <1>1 DEF held
  <2> QED  BY <1>4, <2>1 DEF Accepted
<1> QED  BY <1>3, <1>4 DEF Accepted

LEMMA InvHolds == ASSUME AllKnown PROVE PacedSpec => []FifoInv
<1>1. SettledInit => FifoInv
  BY InitFifoInv
<1>2. FifoInv /\ [Next /\ Paced]_vars => FifoInv'
  BY StepFifoInv
<1> QED  BY <1>1, <1>2, PTL DEF PacedSpec

-----------------------------------------------------------------------------
(* The multicast is a FIFO broadcast when every server waits for its own   *)
(* message before it sends the next (update_holdback_queue_casual),        *)
(* whatever datagrams are lost, delivered twice or out of order, whichever *)
(* servers crash, and whoever takes whom off its ring and back: no server  *)
(* delivers a message twice or one that was never multicast, and one that  *)
(* has not taken a sender off its ring, nor the sender itself, delivers    *)
(* the messages of that sender in the order of the multicasts and none     *)
(* before an earlier one.  Of a sender that was taken off nothing is said  *)
(* any more but the first.                                                 *)
THEOREM FifoImplemented == ASSUME AllKnown PROVE PacedSpec => FifoSafety
<1>1. SettledInit => Fifo!Init
  BY DEF SettledInit, Fifo!Init
<1>2. ASSUME FifoInv, [Next /\ Paced]_vars PROVE [Fifo!Next]_<<issued, delivered, doubted>>
  <2>1. ASSUME NEW n \in Servers, NEW t \in Threads, NEW item \in Content, Publish(n, t, item)
        PROVE  Fifo!Next
    <3>1. Fifo!Multicast(n, item)
      BY <2>1 DEF Fifo!Multicast, Publish, StartCall
    <3>2. item \in Items
      BY ItemTypes
    <3> QED  BY <3>1, <3>2 DEF Fifo!Next
  <2>2. ASSUME NEW n \in Servers, Store(n) PROVE Fifo!Next
    <3>1. TypeOK' /\ Consistent'
      BY <1>2, StepTypeOK DEF FifoInv, vars
    <3>2. PICK s \in Servers : \E k \in 1..Len(issued[s]) :
             /\ [from |-> s, item |-> issued[s][k]] \notin Elements(delivered[n])
             /\ Trusted(n, s) => k = count[n][s] + 1
             /\ delivered' = [delivered EXCEPT ![n] =
                                 Append(@, [from |-> s, item |-> issued[s][k]])]
             /\ UNCHANGED <<issued, doubted>>
      BY <1>2, <2>2, <3>1, StoreKeeps
    <3>3. PICK k \in 1..Len(issued[s]) :
             /\ [from |-> s, item |-> issued[s][k]] \notin Elements(delivered[n])
             /\ Trusted(n, s) => k = count[n][s] + 1
             /\ delivered' = [delivered EXCEPT ![n] =
                                 Append(@, [from |-> s, item |-> issued[s][k]])]
             /\ UNCHANGED <<issued, doubted>>
      BY <3>2
    <3>4. /\ k <= Len(issued[s]) /\ k \in DOMAIN issued[s]
      <4>1. issued[s] \in Seq(Items)
        BY <1>2 DEF FifoInv, TypeOK
      <4> QED  BY <4>1
    <3>5. CASE Trusted(n, s)
      <4>1. Fifo!Count(n, s) + 1 = k
        BY <3>3, <3>5, SameCount
      <4>2. Fifo!Deliver(n, s)
        BY <3>3, <3>4, <3>5, <4>1 DEF Fifo!Deliver, Fifo!Trusted, Trusted
      <4> QED  BY <4>2 DEF Fifo!Next
    <3>6. CASE ~Trusted(n, s)
      <4>1. \A i \in DOMAIN delivered[n] : delivered[n][i] # [from |-> s, item |-> issued[s][k]]
        BY <3>3 DEF Elements
      <4>2. Fifo!DeliverAny(n, s)
        BY <3>3, <3>4, <3>6, <4>1 DEF Fifo!DeliverAny, Fifo!Trusted, Trusted
      <4> QED  BY <4>2 DEF Fifo!Next
    <3> QED  BY <3>5, <3>6
  <2>3. ASSUME NEW n \in Servers, NEW p \in Servers, RemoveHost(n, p) PROVE Fifo!Next
    <3>1. Fifo!Doubt(n, p)
      BY <2>3 DEF RemoveHost, Fifo!Doubt
    <3> QED  BY <3>1 DEF Fifo!Next
  <2>4. CASE UNCHANGED vars
    BY <2>4 DEF vars, history
  <2>5. CASE Next
    <3>1. ASSUME NEW n \in Servers, NEW t \in Threads, Call(n, t)
          PROVE  UNCHANGED <<issued, delivered, doubted>>
      BY <3>1 DEF Call, SendNext, ReadCounter, FinishCall, history
    <3>2. ASSUME NEW n \in Servers, ThreadDies(n) \/ Scan(n)
          PROVE  UNCHANGED <<issued, delivered, doubted>>
      BY <3>2 DEF ThreadDies, Scan, history
    <3>3. ASSUME NEW n \in Servers, NEW m \in net, Receive(n, m)
          PROVE  UNCHANGED <<issued, delivered, doubted>>
      BY <3>3 DEF Receive, ReceiveAck, ReceiveAgain, ReceiveNew, history
    <3>4. ASSUME NEW n \in Servers,
                 ForgetAcknowledged(n) \/ Elect(n) \/ Crash(n) \/ \E p \in Servers : AddHost(n, p)
          PROVE  UNCHANGED <<issued, delivered, doubted>>
      BY <3>4 DEF ForgetAcknowledged, Elect, Crash, AddHost, history
    <3>5. ASSUME NEW m \in net, Lose(m) \/ Copy(m) PROVE UNCHANGED <<issued, delivered, doubted>>
      BY <3>5 DEF Lose, Copy, history
    <3>6. \A n \in Servers : Work(n) => ThreadDies(n) \/ Scan(n) \/ Store(n)
      BY <1>2, NobodyAsks DEF Work
    <3> QED  BY <1>2, <2>1, <2>2, <2>3, <2>5, <3>1, <3>2, <3>3, <3>4, <3>5, <3>6, NobodyComes
          DEF Next
  <2> QED  BY <1>2, <2>4, <2>5
<1>3. PacedSpec => []FifoInv
  BY InvHolds
<1>4. FifoInv /\ [Next /\ Paced]_vars => [Fifo!Next]_<<issued, delivered, doubted>>
  BY <1>2
<1> QED  BY <1>1, <1>3, <1>4, PTL DEF PacedSpec, FifoSafety, Fifo!Spec, Fifo!vars

(* A server that drops a message as one that was sent more than once has   *)
(* got that message before: no id is used for two messages.                *)
THEOREM DroppedWereCopies == ASSUME AllKnown PROVE PacedSpec => OnlyCopiesDropped
<1> DEFINE Dropped == \A n \in Servers : \A m \in net :
              ReceiveAgain(n, m) => [from |-> m.from, item |-> m.item] \in Accepted(n)
<1>1. FifoInv => Dropped
  <2> SUFFICES ASSUME FifoInv, NEW n \in Servers, NEW m \in net, ReceiveAgain(n, m)
               PROVE  [from |-> m.from, item |-> m.item] \in Accepted(n)
    BY DEF Dropped
  <2>1. /\ m.type = "message" /\ Arrives(n, m)
        /\ [from |-> m.from, id |-> m.id] \in has_received[n]
    BY DEF ReceiveAgain
  <2>2. n \in up /\ m.from \in Servers
    BY <2>1, Refreshes
  <2>3. m.id \in 1..Len(issued[m.from]) /\ m.item = issued[m.from][m.id]
    BY <2>1 DEF FifoInv, NetInv
  <2> QED  BY <2>1, <2>2, <2>3, ReceivedIsAccepted
<1>2. FifoInv => [Dropped]_vars
  BY <1>1
<1>3. PacedSpec => []FifoInv
  BY InvHolds
<1> QED  BY <1>2, <1>3, PTL DEF OnlyCopiesDropped

(* A server only stops to wait for an acknowledgement of what has come in  *)
(* at its destination, if that is up (ack_handler).                        *)
THEOREM ForgottenHadArrived == ASSUME AllKnown PROVE PacedSpec => ForgottenHasArrived
<1> DEFINE Forgotten == \A n \in Servers : \A u \in unack_messages[n] \ unack_messages'[n] :
              u.to \in up => [from |-> n, item |-> u.item] \in Accepted(u.to)
<1>1. ASSUME FifoInv, [Next /\ Paced]_vars PROVE [Forgotten]_vars
  <2> SUFFICES ASSUME NEW n \in Servers, NEW u \in unack_messages[n], u \notin unack_messages'[n],
                      u.to \in up
               PROVE  [from |-> n, item |-> u.item] \in Accepted(u.to)
    BY DEF Forgotten
  <2>1. unack_messages \in [Servers -> SUBSET [to : Servers, id : Nat, item : Items]]
    BY <1>1 DEF FifoInv, TypeOK
  <2>2. ForgetAcknowledged(n)
    <3>1. unack_messages' # unack_messages /\ Next
      BY <1>1 DEF vars, socket
    <3>2. ~\E q \in Servers, t \in Threads, item \in Content : Publish(q, t, item)
      BY <3>1 DEF Publish, StartCall, socket
    <3>3. ~\E q \in Servers, t \in Threads : Call(q, t)
      <4> SUFFICES ASSUME NEW q \in Servers, NEW t \in Threads, Call(q, t) PROVE FALSE
        OBVIOUS
      <4>1. SendNext(q, t)
        BY <3>1 DEF Call, ReadCounter, FinishCall, socket
      <4>2. PICK w : unack_messages' = [unack_messages EXCEPT ![q] = @ \cup {w}]
        BY <4>1 DEF SendNext
      <4> QED  BY <2>1, <4>2
    <3>4. ~\E q \in Servers : Work(q)
      BY <1>1, <3>1, NobodyAsks DEF Work, ThreadDies, Scan, Store, socket
    <3>5. ~\E q \in Servers, m \in net : Receive(q, m)
      BY <3>1 DEF Receive, ReceiveAck, ReceiveAgain, ReceiveNew, socket
    <3>6. ~\E q \in Servers : \/ Elect(q) \/ Crash(q)
                               \/ \E p \in Servers : RemoveHost(q, p) \/ AddHost(q, p)
      BY <3>1 DEF Elect, Crash, RemoveHost, AddHost, socket
    <3>7. ~\E m \in net : Lose(m) \/ Copy(m)
      BY <3>1 DEF Lose, Copy, socket
    <3>8. PICK q \in Servers : ForgetAcknowledged(q)
      BY <1>1, <3>1, <3>2, <3>3, <3>4, <3>5, <3>6, <3>7, NobodyComes DEF Next
    <3>9. CASE q = n
      BY <3>8, <3>9
    <3>10. CASE q # n
      BY <2>1, <3>8, <3>10 DEF ForgetAcknowledged
    <3> QED  BY <3>9, <3>10
  <2>3. [from |-> u.to, id |-> u.id] \in has_acknowledged[n]
    BY <2>1, <2>2 DEF ForgetAcknowledged
  <2>4. u.id \in 1..Len(issued[n]) /\ u.item = issued[n][u.id] /\ u.to \in Servers
    BY <1>1, <2>1 DEF FifoInv, AckInv
  <2>5. u.id # 0
    <3>1. Len(issued[n]) \in Nat
      BY <1>1, OwnCount
    <3> QED  BY <2>4, <3>1
  <2>6. [from |-> n, id |-> u.id] \in has_received[u.to]
    BY <1>1, <2>3, <2>4, <2>5 DEF FifoInv, AckInv
  <2> QED  BY <1>1, <2>4, <2>6, ReceivedIsAccepted
<1>2. FifoInv /\ [Next /\ Paced]_vars => [Forgotten]_vars
  BY <1>1
<1>3. PacedSpec => []FifoInv
  BY InvHolds
<1> QED  BY <1>2, <1>3, PTL DEF PacedSpec, ForgottenHasArrived

=============================================================================
