-------------------------- MODULE DataPlane_proofs --------------------------
(***************************************************************************)
(* That files arrive whole, and that what the routers on a path answer to  *)
(* SENDFILE-STATS agrees, for every number of routers, every set of        *)
(* transfers and every size of the buffers, whoever crashes and whatever   *)
(* the routes are.                                                         *)
(*                                                                         *)
(* A packet goes over one or two connections: to the next hop the transfer *)
(* found, and from there straight to the destination.  So what is under    *)
(* way of a transfer is in three places, and the argument is that the      *)
(* numbers of its blocks go on from each to the next without a gap, unless *)
(* what is missing can no longer arrive.                                   *)
(*                                                                         *)
(* For the answers, the same places are read as sequences: what a router   *)
(* has recorded is what is in them up to the next router, followed by what *)
(* that one has recorded (HopInv).                                         *)
(***************************************************************************)
EXTENDS DataPlane, FiniteSetTheorems, SequenceTheorems, TLAPS

-----------------------------------------------------------------------------
(* Numbered blocks in a connection *)

\* The packets of transfer t in s have the blocks from b on, up to but without e.
Numbered(s, t, b, e) ==
  /\ b \in Nat /\ e \in Nat /\ b <= e
  /\ \A i \in 1 .. Len(s) : s[i].transfer_id = t => s[i].block >= b /\ s[i].block < e
  /\ \A x \in Nat : b <= x /\ x < e =>
       \E i \in 1 .. Len(s) : s[i].transfer_id = t /\ s[i].block = x
  /\ \A i, j \in 1 .. Len(s) :
       i < j /\ s[i].transfer_id = t /\ s[j].transfer_id = t => s[i].block < s[j].block

\* A packet of the transfer.
PacketFor(q, p) ==
  /\ p \in PacketSet /\ p.dest = q.dest
  /\ p.block \in 1 .. PacketCount(q) /\ (p.fin <=> p.block = PacketCount(q))

Ends == {"none", "failed", "open", "closed", "reset"}
SendTask == [at : {"sendfile"}, q : Transfers, to : Routers, k : Nat]
ForwardTask == [at : {"forward"}, p : PacketSet]

Shape ==
  /\ up \in SUBSET Routers /\ dead \in SUBSET Routers /\ up \cap dead = {}
  /\ sock \in [Routers -> [Routers -> Ends]]
  /\ chan \in [Routers -> [Routers -> Seq(PacketSet)]]
  /\ task \in [Routers -> {Idle} \cup SendTask \cup ForwardTask]
  /\ files = [r \in Routers |-> files[r]]

\* A connection is open between routers that run; it is closed or reset only when the
\* other end is gone.  Only a router that runs is held in a handler.
Links ==
  /\ \A a, b \in Routers :
       /\ Len(chan[a][b]) <= Room
       /\ chan[a][b] # << >> => b \in up /\ (sock[a][b] = "open" \/ a \in dead)
       /\ sock[a][b] = "open" => a \in up /\ b \in up
       /\ sock[a][b] \in {"closed", "reset"} => b \in dead
  /\ \A r \in Routers : task[r] # Idle => r \in up

Commanded ==
  /\ DOMAIN issued \in SUBSET Transfers
  /\ \A q \in DOMAIN issued : issued[q] \in NextHop[q.from][q.dest] /\ issued[q] \in Routers

Sends(r, q) == task[r].at = "sendfile" /\ task[r].q = q
Holds(r, q) == task[r].at = "forward" /\ task[r].p.transfer_id = q.transfer_id

\* The packets of q on the connection from a to b, if they are s: they go to the next
\* hop as they were sent, and from there to the destination.
Travels(q, a, b, s) ==
  \A i \in 1 .. Len(s) : s[i].transfer_id = q.transfer_id =>
    /\ q \in DOMAIN issued /\ PacketFor(q, s[i])
    /\ \/ a = q.from /\ b = issued[q] /\ s[i].ttl = q.ttl
       \/ issued[q] # q.dest /\ a = issued[q] /\ b = q.dest

\* What is under way of q is where it should be.
Carried(q) ==
  /\ \A a, b \in Routers : Travels(q, a, b, chan[a][b])
  /\ \A r \in Routers : Holds(r, q) =>
       /\ q \in DOMAIN issued /\ issued[q] = r /\ r # q.dest
       /\ PacketFor(q, task[r].p) /\ q.ttl > 1
  /\ \A r \in Routers : Sends(r, q) =>
       /\ q \in DOMAIN issued /\ q.from = r
       /\ task[r].to = issued[q] /\ task[r].k \in 1 .. PacketCount(q)

\* The file of q is open until it has all blocks, and closed then.
Filed(q) ==
  /\ Content(q) \in Seq(Nat) /\ Len(Content(q)) <= PacketCount(q)
  /\ q \notin DOMAIN issued => q.transfer_id \notin DOMAIN files[q.dest]
  /\ q.transfer_id \in DOMAIN files[q.dest] =>
       /\ files[q.dest][q.transfer_id].isopen \in BOOLEAN
       /\ files[q.dest][q.transfer_id].isopen <=> Len(Content(q)) < PacketCount(q)

\* The source goes on with block e, if it sends q.
Ahead(q, e) == Sends(q.from, q) => task[q.from].k = e

\* The blocks before x have left the next hop, and those from x on are there (maybe in
\* its hands), on the way to it, or still to be sent.
Behind(q, x) ==
  LET h == issued[q]
      s == chan[q.from][h]
  IN  \E e \in Nat :
        /\ Ahead(q, e)
        /\ Holds(h, q) => task[h].p.block = x /\ Numbered(s, q.transfer_id, x + 1, e)
        /\ ~ Holds(h, q) => Numbered(s, q.transfer_id, x, e)

\* What is on the last connection goes on where the file ends, and what is behind goes
\* on there, unless the next hop is gone or drops the packets.
Gapless(q) ==
  q.dest \notin dead =>
    LET h == issued[q]
        next == Len(Content(q)) + 1
    IN  /\ h = q.dest =>
             \E e \in Nat : /\ Numbered(chan[q.from][q.dest], q.transfer_id, next, e)
                            /\ Ahead(q, e)
        /\ h # q.dest =>
             \E x \in Nat : /\ Numbered(chan[h][q.dest], q.transfer_id, next, x)
                            /\ h \notin dead /\ q.ttl > 1 => Behind(q, x)

DataInv ==
  /\ Shape /\ Links /\ Commanded
  /\ \A q \in Transfers : Carried(q) /\ Filed(q)
  /\ \A q \in DOMAIN issued : Gapless(q)

-----------------------------------------------------------------------------
(* Numbered blocks through the changes of a connection *)

\* No packet of the transfer is there.
LEMMA NumberedNone ==
  ASSUME NEW s, NEW t, NEW b \in Nat, \A i \in 1 .. Len(s) : s[i].transfer_id # t
  PROVE  Numbered(s, t, b, b)
BY DEF Numbered

\* A packet is added at the end.
LEMMA NumberedAppend ==
  ASSUME NEW s \in Seq(PacketSet), NEW p \in PacketSet, NEW t, NEW b, NEW e,
         Numbered(s, t, b, e)
  PROVE  /\ p.transfer_id # t => Numbered(Append(s, p), t, b, e)
         /\ p.transfer_id = t /\ p.block = e => Numbered(Append(s, p), t, b, e + 1)
<1> DEFINE r == Append(s, p)
           n == Len(s)
<1>1. /\ r \in Seq(PacketSet) /\ Len(r) = n + 1 /\ r[n + 1] = p
      /\ \A i \in 1 .. n : r[i] = s[i]
  BY AppendProperties
<1>2. n \in Nat
  OBVIOUS
<1> HIDE DEF r, n
<1>3. /\ b \in Nat /\ e \in Nat /\ b <= e
      /\ \A i \in 1 .. n : s[i].transfer_id = t => s[i].block >= b /\ s[i].block < e
      /\ \A x \in Nat : b <= x /\ x < e =>
           \E i \in 1 .. n : s[i].transfer_id = t /\ s[i].block = x
      /\ \A i, j \in 1 .. n :
           i < j /\ s[i].transfer_id = t /\ s[j].transfer_id = t => s[i].block < s[j].block
  BY DEF Numbered, n
<1>4. \A i \in 1 .. Len(r) : i \in 1 .. n \/ (i = n + 1 /\ r[i] = p)
  BY <1>1, <1>2
<1>5. \A i \in 1 .. n : i \in 1 .. Len(r) /\ r[i] = s[i]
  BY <1>1, <1>2
<1>6. ASSUME p.transfer_id # t PROVE Numbered(r, t, b, e)
  <2>1. \A i \in 1 .. Len(r) : r[i].transfer_id = t => i \in 1 .. n
    BY <1>4, <1>6
  <2>2. \A i \in 1 .. Len(r) : r[i].transfer_id = t => r[i].block >= b /\ r[i].block < e
    BY <2>1, <1>3, <1>5
  <2>3. \A x \in Nat : b <= x /\ x < e =>
          \E i \in 1 .. Len(r) : r[i].transfer_id = t /\ r[i].block = x
    BY <1>3, <1>5
  <2>4. \A i, j \in 1 .. Len(r) :
          i < j /\ r[i].transfer_id = t /\ r[j].transfer_id = t => r[i].block < r[j].block
    BY <2>1, <1>3, <1>5
  <2> QED
    BY <2>2, <2>3, <2>4, <1>3 DEF Numbered
<1>7. ASSUME p.transfer_id = t, p.block = e PROVE Numbered(r, t, b, e + 1)
  <2>1. ASSUME NEW i \in 1 .. Len(r), r[i].transfer_id = t
        PROVE  r[i].block >= b /\ r[i].block < e + 1 /\ (i \in 1 .. n => r[i].block < e)
    <3>1. CASE i \in 1 .. n
      <4>1. s[i].block >= b /\ s[i].block < e /\ s[i] = r[i] /\ s[i].block \in Nat
        <5>1. s[i] \in PacketSet
          BY <3>1 DEF n
        <5> QED
          BY <5>1, <3>1, <2>1, <1>3, <1>5 DEF PacketSet
      <4> QED
        BY <4>1, <1>3
    <3>2. CASE i = n + 1 /\ r[i] = p
      BY <3>2, <1>2, <1>3, <1>7
    <3> QED
      BY <3>1, <3>2, <1>4
  <2>2. \A x \in Nat : b <= x /\ x < e + 1 =>
          \E i \in 1 .. Len(r) : r[i].transfer_id = t /\ r[i].block = x
    <3> SUFFICES ASSUME NEW x \in Nat, b <= x, x < e + 1
                 PROVE  \E i \in 1 .. Len(r) : r[i].transfer_id = t /\ r[i].block = x
      OBVIOUS
    <3>1. CASE x = e
      <4>1. n + 1 \in 1 .. Len(r)
        BY <1>1, <1>2
      <4> QED
        BY <4>1, <3>1, <1>1, <1>7
    <3>2. CASE x # e
      <4>1. x < e
        BY <3>2, <1>3
      <4>2. PICK i \in 1 .. n : s[i].transfer_id = t /\ s[i].block = x
        BY <4>1, <1>3
      <4> QED
        BY <4>2, <1>5
    <3> QED
      BY <3>1, <3>2
  <2>3. ASSUME NEW i \in 1 .. Len(r), NEW j \in 1 .. Len(r), i < j,
               r[i].transfer_id = t, r[j].transfer_id = t
        PROVE  r[i].block < r[j].block
    <3>1. i \in 1 .. n
      BY <2>3, <1>1, <1>2
    <3>2. CASE j \in 1 .. n
      BY <3>1, <3>2, <2>3, <1>3, <1>5
    <3>3. CASE j = n + 1 /\ r[j] = p
      BY <3>1, <3>3, <2>1, <2>3, <1>7
    <3> QED
      BY <3>2, <3>3, <1>4
  <2>4. e + 1 \in Nat /\ b <= e + 1
    BY <1>3
  <2> QED
    BY <2>1, <2>2, <2>3, <2>4, <1>3 DEF Numbered
<1> QED
  BY <1>6, <1>7 DEF r

\* The first packet is taken: it is the next one.
LEMMA NumberedTail ==
  ASSUME NEW s \in Seq(PacketSet), s # << >>, NEW t, NEW b, NEW e, Numbered(s, t, b, e)
  PROVE  /\ Head(s).transfer_id # t => Numbered(Tail(s), t, b, e)
         /\ Head(s).transfer_id = t => Head(s).block = b /\ Numbered(Tail(s), t, b + 1, e)
<1> DEFINE r == Tail(s)
           n == Len(r)
<1>1. /\ r \in Seq(PacketSet) /\ n = Len(s) - 1 /\ Len(s) \in Nat \ {0}
      /\ \A i \in 1 .. n : r[i] = s[i + 1]
  BY HeadTailProperties, EmptySeq
<1>2. Head(s) = s[1] /\ n \in Nat
  BY <1>1
<1> HIDE DEF r
<1>3. /\ b \in Nat /\ e \in Nat /\ b <= e
      /\ \A i \in 1 .. Len(s) : s[i].transfer_id = t => s[i].block >= b /\ s[i].block < e
      /\ \A x \in Nat : b <= x /\ x < e =>
           \E i \in 1 .. Len(s) : s[i].transfer_id = t /\ s[i].block = x
      /\ \A i, j \in 1 .. Len(s) :
           i < j /\ s[i].transfer_id = t /\ s[j].transfer_id = t => s[i].block < s[j].block
  BY DEF Numbered
<1> HIDE DEF n
<1>4. \A i \in 1 .. n : i + 1 \in 1 .. Len(s) /\ r[i] = s[i + 1]
  BY <1>1, <1>2
<1>5. \A i \in 1 .. Len(s) : i = 1 \/ (i - 1 \in 1 .. n /\ r[i - 1] = s[i])
  <2> TAKE i \in 1 .. Len(s)
  <2>1. CASE i # 1
    <3>1. i - 1 \in 1 .. n /\ (i - 1) + 1 = i
      BY <2>1, <1>1, <1>2
    <3> QED
      BY <3>1, <1>4
  <2> QED
    BY <2>1
<1>6. \A i, j \in 1 .. n :
        i < j /\ r[i].transfer_id = t /\ r[j].transfer_id = t => r[i].block < r[j].block
  <2> TAKE i, j \in 1 .. n
  <2>1. i + 1 \in 1 .. Len(s) /\ j + 1 \in 1 .. Len(s) /\ r[i] = s[i + 1] /\ r[j] = s[j + 1]
    BY <1>4
  <2>2. i < j => i + 1 < j + 1
    OBVIOUS
  <2> QED
    BY <2>1, <2>2, <1>3
<1>7. \A i \in 1 .. n : r[i].transfer_id = t => r[i].block >= b /\ r[i].block < e
  BY <1>3, <1>4
<1>8. ASSUME Head(s).transfer_id # t PROVE Numbered(r, t, b, e)
  <2>1. \A x \in Nat : b <= x /\ x < e =>
          \E i \in 1 .. n : r[i].transfer_id = t /\ r[i].block = x
    <3> SUFFICES ASSUME NEW x \in Nat, b <= x, x < e
                 PROVE  \E i \in 1 .. n : r[i].transfer_id = t /\ r[i].block = x
      OBVIOUS
    <3>1. PICK i \in 1 .. Len(s) : s[i].transfer_id = t /\ s[i].block = x
      BY <1>3
    <3>2. i - 1 \in 1 .. n /\ r[i - 1] = s[i]
      BY <3>1, <1>2, <1>5, <1>8
    <3> QED
      BY <3>1, <3>2
  <2> QED
    BY <2>1, <1>3, <1>6, <1>7 DEF Numbered, n
<1>9. ASSUME Head(s).transfer_id = t
      PROVE  Head(s).block = b /\ Numbered(r, t, b + 1, e)
  <2>1. 1 \in 1 .. Len(s) /\ s[1].transfer_id = t
    BY <1>1, <1>2, <1>9
  <2>2. s[1].block \in Nat /\ s[1].block >= b /\ s[1].block < e
    <3>1. s[1] \in PacketSet
      BY <2>1
    <3> QED
      BY <3>1, <2>1, <1>3 DEF PacketSet
  <2>3. PICK i \in 1 .. Len(s) : s[i].transfer_id = t /\ s[i].block = b
    BY <2>2, <1>3
  <2>4. i = 1
    <3> SUFFICES ASSUME i # 1 PROVE FALSE
      OBVIOUS
    <3>1. 1 < i
      OBVIOUS
    <3>2. s[1].block < s[i].block
      BY <3>1, <2>1, <2>3, <1>3
    <3> QED
      BY <3>2, <2>2, <2>3, <1>3
  <2>5. \A k \in 1 .. n : r[k].transfer_id = t => r[k].block >= b + 1 /\ r[k].block < e
    <3> SUFFICES ASSUME NEW k \in 1 .. n, r[k].transfer_id = t
                 PROVE  r[k].block >= b + 1 /\ r[k].block < e
      OBVIOUS
    <3>0. r[k].transfer_id = t
      OBVIOUS
    <3>1. k + 1 \in 1 .. Len(s) /\ r[k] = s[k + 1] /\ 1 < k + 1
      BY <1>4
    <3>2. r[k] \in PacketSet
      BY <3>1
    <3>3. r[k].block \in Nat
      BY <3>2 DEF PacketSet
    <3>4. s[1].block < s[k + 1].block
      BY <3>1, <2>1, <3>0, <1>3
    <3>5. b < r[k].block
      BY <3>1, <3>4, <2>3, <2>4
    <3> QED
      BY <3>3, <3>5, <3>0, <1>3, <1>7
  <2>6. \A x \in Nat : b + 1 <= x /\ x < e =>
          \E k \in 1 .. n : r[k].transfer_id = t /\ r[k].block = x
    <3> SUFFICES ASSUME NEW x \in Nat, b + 1 <= x, x < e
                 PROVE  \E k \in 1 .. n : r[k].transfer_id = t /\ r[k].block = x
      OBVIOUS
    <3>1. b <= x /\ x # b
      BY <1>3
    <3>2. PICK k \in 1 .. Len(s) : s[k].transfer_id = t /\ s[k].block = x
      BY <3>1, <1>3
    <3>3. k - 1 \in 1 .. n /\ r[k - 1] = s[k]
      BY <3>1, <3>2, <2>3, <2>4, <1>5
    <3> QED
      BY <3>2, <3>3
  <2>7. b + 1 \in Nat /\ b + 1 <= e
    BY <2>2, <1>3
  <2> QED
    BY <2>3, <2>4, <2>5, <2>6, <2>7, <1>2, <1>3, <1>6 DEF Numbered, n
<1> QED
  BY <1>8, <1>9 DEF r

-----------------------------------------------------------------------------
(* Transfers and their packets *)

LEMMA TransferProperty ==
  ASSUME NEW q \in Transfers
  PROVE  /\ q.from \in Routers /\ q.dest \in Routers
         /\ q.ttl \in Nat /\ q.seq \in Nat /\ q.full \in Nat
         /\ NextHop[q.from][q.dest] \in SUBSET Routers
         /\ PacketCount(q) \in Nat \ {0}
         /\ q.transfer_id \in {t.transfer_id : t \in Transfers}
         /\ \A t \in Transfers : t.transfer_id = q.transfer_id => t = q
BY TransferAssumption DEF PacketCount

\* The packet made of block k, which is the last one if k is the last block.
LEMMA PacketProperty ==
  ASSUME NEW q \in Transfers, NEW k \in 1 .. PacketCount(q)
  PROVE  /\ PacketFor(q, PacketOf(q, k))
         /\ PacketOf(q, k).transfer_id = q.transfer_id /\ PacketOf(q, k).ttl = q.ttl
         /\ PacketOf(q, k).block = k
         /\ LastPacket(q, k) <=> k = PacketCount(q)
<1> DEFINE p == PacketOf(q, k)
<1>1. /\ q.dest \in Routers /\ q.ttl \in Nat /\ q.seq \in Nat /\ q.full \in Nat
      /\ q.transfer_id \in {t.transfer_id : t \in Transfers} /\ k \in Nat \ {0}
  BY TransferProperty
<1>2. LastPacket(q, k) \in BOOLEAN /\ (LastPacket(q, k) <=> k = PacketCount(q))
  BY <1>1 DEF LastPacket, PacketCount
<1>3. (q.seq + k - 1) % SeqSpace \in 0 .. SeqSpace - 1
  BY <1>1, NumberAssumption
<1>4. p \in PacketSet
  BY <1>1, <1>2, <1>3 DEF PacketOf, PacketSet
<1>5. /\ p.dest = q.dest /\ p.transfer_id = q.transfer_id /\ p.ttl = q.ttl /\ p.block = k
      /\ p.fin = LastPacket(q, k)
  BY DEF PacketOf
<1> HIDE DEF p
<1>6. PacketFor(q, p)
  BY <1>2, <1>4, <1>5 DEF PacketFor
<1> QED
  BY <1>2, <1>5, <1>6 DEF p

\* Each packet is one of a transfer.
LEMMA OfTransfer ==
  ASSUME NEW p \in PacketSet
  PROVE  \E q \in Transfers : p.transfer_id = q.transfer_id
BY DEF PacketSet

\* A packet on its way is counted down, and stays the same otherwise.
LEMMA AgedProperty ==
  ASSUME NEW p \in PacketSet
  PROVE  /\ Aged(p) \in PacketSet
         /\ Aged(p).dest = p.dest /\ Aged(p).transfer_id = p.transfer_id
         /\ Aged(p).block = p.block /\ Aged(p).fin = p.fin
         /\ Aged(p).ttl = 0 <=> p.ttl <= 1
<1>1. p.ttl \in Nat
  BY DEF PacketSet
<1>2. CASE p.ttl = 0
  BY <1>2 DEF Aged
<1>3. CASE p.ttl # 0
  <2> DEFINE l == p.ttl - 1
  <2>1. l \in Nat /\ (l = 0 <=> p.ttl <= 1)
    BY <1>1, <1>3
  <2>2. Aged(p) = [p EXCEPT !.ttl = l]
    BY <1>3 DEF Aged
  <2> HIDE DEF l
  <2> QED
    BY <2>1, <2>2 DEF PacketSet
<1> QED
  BY <1>2, <1>3

\* The connection from a to b holds s after the step, the others what they held.
ChanSet(a, b, s) ==
  /\ chan' \in [Routers -> [Routers -> Seq(PacketSet)]]
  /\ chan'[a][b] = s
  /\ \A x, y \in Routers : x # a \/ y # b => chan'[x][y] = chan[x][y]

\* The socket of a to b is e after the step, the others what they were.
SockSet(a, b, e) ==
  /\ sock' \in [Routers -> [Routers -> Ends]]
  /\ sock'[a][b] = e
  /\ \A x, y \in Routers : x # a \/ y # b => sock'[x][y] = sock[x][y]

\* The router r does t after the step.
TaskSet(r, t) ==
  /\ task' \in [Routers -> {Idle} \cup SendTask \cup ForwardTask]
  /\ task'[r] = t
  /\ \A x \in Routers : x # r => task'[x] = task[x]

\* A router that sends, or forwards.
LEMMA TaskProperty ==
  ASSUME Shape, NEW r \in Routers
  PROVE  /\ task[r].at = "sendfile" => task[r] \in SendTask /\ task[r] # Idle
         /\ task[r].at = "forward" => task[r] \in ForwardTask /\ task[r] # Idle
         /\ task[r] = Idle => task[r].at # "sendfile" /\ task[r].at # "forward"
<1>1. task[r] = Idle \/ task[r] \in SendTask \/ task[r] \in ForwardTask
  BY DEF Shape
<1>2. Idle.at # "sendfile" /\ Idle.at # "forward"
  BY DEF Idle
<1>3. task[r] \in SendTask => task[r].at = "sendfile"
  BY DEF SendTask
<1>4. task[r] \in ForwardTask => task[r].at = "forward"
  BY DEF ForwardTask
<1> QED
  BY <1>1, <1>2, <1>3, <1>4

LEMMA SendEffect ==
  ASSUME Shape, NEW a \in Routers, NEW b \in Routers, NEW p \in PacketSet, SendAll(a, b, p)
  PROVE  \/ /\ sock[a][b] = "open" /\ Len(chan[a][b]) < Room /\ sock' = sock
            /\ ChanSet(a, b, Append(chan[a][b], p))
         \/ /\ sock[a][b] = "closed" /\ chan' = chan
            /\ \E e \in {"closed", "reset"} : SockSet(a, b, e)
<1>1. CASE /\ sock[a][b] = "open"
           /\ Len(chan[a][b]) < Room
           /\ chan' = [chan EXCEPT ![a][b] = Append(@, p)]
           /\ UNCHANGED sock
  <2> DEFINE s == Append(chan[a][b], p)
  <2>1. chan \in [Routers -> [Routers -> Seq(PacketSet)]] /\ chan' = [chan EXCEPT ![a][b] = s]
    BY <1>1 DEF Shape
  <2>2. s \in Seq(PacketSet)
    BY <2>1, AppendProperties
  <2> HIDE DEF s
  <2>3. ChanSet(a, b, s)
    BY <2>1, <2>2 DEF ChanSet
  <2> QED
    BY <2>3, <1>1 DEF s
<1>2. CASE /\ sock[a][b] = "closed"
           /\ \E e \in {"closed", "reset"} : sock' = [sock EXCEPT ![a][b] = e]
           /\ UNCHANGED chan
  <2>1. PICK e \in {"closed", "reset"} : sock' = [sock EXCEPT ![a][b] = e]
    BY <1>2
  <2>2. e \in Ends /\ sock \in [Routers -> [Routers -> Ends]]
    BY DEF Shape, Ends
  <2>3. SockSet(a, b, e)
    BY <2>1, <2>2 DEF SockSet
  <2> QED
    BY <2>3, <1>2
<1> QED
  BY <1>1, <1>2 DEF SendAll

-----------------------------------------------------------------------------
(* A transfer that a step is not about *)

\* For transfer q nothing changes: not where it goes, not its file, not what the routers
\* do for it, and of the connections no packet of it.
Untouched(q) ==
  /\ dead' = dead
  /\ q \in DOMAIN issued' <=> q \in DOMAIN issued
  /\ q \in DOMAIN issued => issued'[q] = issued[q]
  /\ \A a, b \in Routers :
       \/ chan'[a][b] = chan[a][b]
       \/ \E p \in PacketSet : /\ p.transfer_id # q.transfer_id
                               /\ chan'[a][b] = Append(chan[a][b], p)
       \/ /\ chan[a][b] # << >> /\ Head(chan[a][b]).transfer_id # q.transfer_id
          /\ chan'[a][b] = Tail(chan[a][b])
  /\ \A r \in Routers :
       \/ task'[r] = task[r]
       \/ ~ Sends(r, q) /\ ~ Holds(r, q) /\ ~ Sends(r, q)' /\ ~ Holds(r, q)'
  /\ q.transfer_id \in DOMAIN files'[q.dest] <=> q.transfer_id \in DOMAIN files[q.dest]
  /\ q.transfer_id \in DOMAIN files[q.dest] =>
       files'[q.dest][q.transfer_id] = files[q.dest][q.transfer_id]

LEMMA TravelsAppend ==
  ASSUME NEW q, NEW a, NEW b, NEW s \in Seq(PacketSet), NEW p \in PacketSet,
         Travels(q, a, b, s), Travels(q, a, b, <<p>>)
  PROVE  Travels(q, a, b, Append(s, p))
<1> DEFINE r == Append(s, p)
           n == Len(s)
<1>1. /\ Len(r) = n + 1 /\ r[n + 1] = p
      /\ \A i \in 1 .. n : r[i] = s[i]
  BY AppendProperties
<1>2. n \in Nat
  OBVIOUS
<1> HIDE DEF r
<1>3. ASSUME NEW i \in 1 .. n, r[i].transfer_id = q.transfer_id
      PROVE  /\ q \in DOMAIN issued /\ PacketFor(q, r[i])
             /\ \/ a = q.from /\ b = issued[q] /\ r[i].ttl = q.ttl
                \/ issued[q] # q.dest /\ a = issued[q] /\ b = q.dest
  BY <1>1, <1>3 DEF Travels
<1> HIDE DEF n
<1>4. ASSUME p.transfer_id = q.transfer_id
      PROVE  /\ q \in DOMAIN issued /\ PacketFor(q, p)
             /\ \/ a = q.from /\ b = issued[q] /\ p.ttl = q.ttl
                \/ issued[q] # q.dest /\ a = issued[q] /\ b = q.dest
  <2> DEFINE u == <<p>>
  <2>1. 1 \in 1 .. Len(u) /\ u[1] = p
    OBVIOUS
  <2> HIDE DEF u
  <2>2. Travels(q, a, b, u)
    BY DEF u
  <2> QED
    BY <2>1, <2>2, <1>4 DEF Travels
<1>5. \A i \in 1 .. Len(r) : i \in 1 .. n \/ r[i] = p
  BY <1>1, <1>2
<1>6. Travels(q, a, b, r)
  BY <1>3, <1>4, <1>5 DEF Travels
<1> QED
  BY <1>6 DEF r

LEMMA TravelsTail ==
  ASSUME NEW q, NEW a, NEW b, NEW s \in Seq(PacketSet), s # << >>, Travels(q, a, b, s)
  PROVE  Travels(q, a, b, Tail(s))
<1> DEFINE r == Tail(s)
<1>1. /\ r \in Seq(PacketSet) /\ Len(r) = Len(s) - 1 /\ Len(s) \in Nat \ {0}
      /\ \A i \in 1 .. Len(r) : r[i] = s[i + 1]
  BY HeadTailProperties, EmptySeq
<1> HIDE DEF r
<1>2. \A i \in 1 .. Len(r) : i + 1 \in 1 .. Len(s) /\ r[i] = s[i + 1]
  BY <1>1
<1>3. Travels(q, a, b, r)
  BY <1>2 DEF Travels
<1> QED
  BY <1>3 DEF r

\* What holds of the packets of q and of its file holds after a step not about it ...
LEMMA UntouchedCarried ==
  ASSUME Shape, NEW q \in Transfers, Untouched(q), Carried(q), Filed(q)
  PROVE  Carried(q)' /\ Filed(q)' /\ Content(q)' = Content(q)
<1>1. /\ q \in DOMAIN issued' <=> q \in DOMAIN issued
      /\ q \in DOMAIN issued => issued'[q] = issued[q]
  BY DEF Untouched
<1>2. ASSUME NEW a \in Routers, NEW b \in Routers
      PROVE  Travels(q, a, b, chan[a][b])'
  <2>1. Travels(q, a, b, chan[a][b]) /\ chan[a][b] \in Seq(PacketSet)
    BY DEF Carried, Shape
  <2>2. Travels(q, a, b, chan'[a][b])
    <3>1. CASE chan'[a][b] = chan[a][b]
      BY <2>1, <3>1
    <3>2. ASSUME NEW p \in PacketSet, p.transfer_id # q.transfer_id,
                 chan'[a][b] = Append(chan[a][b], p)
          PROVE  Travels(q, a, b, chan'[a][b])
      <4>1. Travels(q, a, b, <<p>>)
        BY <3>2 DEF Travels
      <4> QED
        BY <4>1, <2>1, <3>2, TravelsAppend
    <3>3. ASSUME chan[a][b] # << >>, chan'[a][b] = Tail(chan[a][b])
          PROVE  Travels(q, a, b, chan'[a][b])
      BY <2>1, <3>3, TravelsTail
    <3> QED
      BY <3>1, <3>2, <3>3 DEF Untouched
  <2> QED
    BY <2>2, <1>1 DEF Travels
<1>3. ASSUME NEW r \in Routers
      PROVE  /\ Holds(r, q)' => Holds(r, q) /\ task'[r] = task[r]
             /\ Sends(r, q)' => Sends(r, q) /\ task'[r] = task[r]
  BY DEF Untouched, Holds, Sends
<1>4. Carried(q)'
  <2>1. ASSUME NEW r \in Routers, Holds(r, q)'
        PROVE  /\ q \in DOMAIN issued' /\ issued'[q] = r /\ r # q.dest
               /\ PacketFor(q, task'[r].p) /\ q.ttl > 1
    BY <2>1, <1>1, <1>3 DEF Carried
  <2>2. ASSUME NEW r \in Routers, Sends(r, q)'
        PROVE  /\ q \in DOMAIN issued' /\ q.from = r
               /\ task'[r].to = issued'[q] /\ task'[r].k \in 1 .. PacketCount(q)
    BY <2>2, <1>1, <1>3 DEF Carried
  <2> QED
    BY <2>1, <2>2, <1>2 DEF Carried
<1>5. Content(q)' = Content(q)
  BY DEF Untouched, Content
<1>6. Filed(q)'
  BY <1>1, <1>5 DEF Untouched, Filed
<1> QED
  BY <1>4, <1>5, <1>6

LEMMA UntouchedNumbered ==
  ASSUME Shape, NEW q, Untouched(q), NEW a \in Routers, NEW b \in Routers, NEW x, NEW e,
         Numbered(chan[a][b], q.transfer_id, x, e)
  PROVE  Numbered(chan'[a][b], q.transfer_id, x, e)
<1> DEFINE s == chan[a][b]
<1>1. s \in Seq(PacketSet)
  BY DEF Shape
<1>2. ASSUME NEW p \in PacketSet, p.transfer_id # q.transfer_id, chan'[a][b] = Append(s, p)
      PROVE  Numbered(chan'[a][b], q.transfer_id, x, e)
  BY <1>1, <1>2, NumberedAppend
<1>3. ASSUME s # << >>, Head(s).transfer_id # q.transfer_id, chan'[a][b] = Tail(s)
      PROVE  Numbered(chan'[a][b], q.transfer_id, x, e)
  BY <1>1, <1>3, NumberedTail
<1> QED
  BY <1>2, <1>3 DEF Untouched

\* ... and so does that it has no gap.
LEMMA UntouchedGapless ==
  ASSUME Shape, Commanded, NEW q \in DOMAIN issued, Untouched(q), Carried(q), Filed(q),
         Gapless(q)
  PROVE  Gapless(q)'
<1> DEFINE h == issued[q]
           t == q.transfer_id
           next == Len(Content(q)) + 1
<1>1. q \in Transfers /\ h \in Routers
  BY DEF Commanded
<1>2. q.from \in Routers /\ q.dest \in Routers
  BY <1>1, TransferProperty
<1>3. issued'[q] = h /\ dead' = dead /\ Content(q)' = Content(q)
  BY <1>1, UntouchedCarried DEF Untouched
<1>4. ASSUME NEW e, Ahead(q, e) PROVE Ahead(q, e)'
  BY <1>2, <1>4 DEF Untouched, Ahead, Sends
<1>5. ASSUME NEW x, Behind(q, x) PROVE Behind(q, x)'
  <2> DEFINE s == chan[q.from][h]
  <2>1. PICK e \in Nat :
          /\ Ahead(q, e)
          /\ Holds(h, q) => task[h].p.block = x /\ Numbered(s, t, x + 1, e)
          /\ ~ Holds(h, q) => Numbered(s, t, x, e)
    BY <1>5 DEF Behind
  <2>2. Holds(h, q)' <=> Holds(h, q)
    BY <1>1 DEF Untouched, Holds
  <2>3. Holds(h, q) => task'[h].p = task[h].p
    BY <1>1 DEF Untouched
  <2>4. s' = chan'[q.from][h]
    BY <1>3
  <2>5. Ahead(q, e)'
    BY <2>1, <1>4
  <2>6. Holds(h, q) => Numbered(chan'[q.from][h], t, x + 1, e)
    BY <2>1, <1>1, <1>2, UntouchedNumbered
  <2>7. ~ Holds(h, q) => Numbered(chan'[q.from][h], t, x, e)
    BY <2>1, <1>1, <1>2, UntouchedNumbered
  <2> QED
    BY <2>1, <2>2, <2>3, <2>5, <2>6, <2>7, <1>3 DEF Behind, Holds
<1>6. CASE q.dest \in dead
  BY <1>3, <1>6 DEF Gapless
<1>7. CASE q.dest \notin dead /\ h = q.dest
  <2>1. PICK e \in Nat : Numbered(chan[q.from][q.dest], t, next, e) /\ Ahead(q, e)
    BY <1>7 DEF Gapless
  <2>2. Numbered(chan'[q.from][q.dest], t, next, e) /\ Ahead(q, e)'
    BY <2>1, <1>2, <1>4, UntouchedNumbered
  <2> QED
    BY <2>2, <1>3, <1>7 DEF Gapless
<1>8. CASE q.dest \notin dead /\ h # q.dest
  <2>1. PICK x \in Nat : /\ Numbered(chan[h][q.dest], t, next, x)
                         /\ h \notin dead /\ q.ttl > 1 => Behind(q, x)
    BY <1>8 DEF Gapless
  <2>2. /\ Numbered(chan'[h][q.dest], t, next, x)
        /\ h \notin dead /\ q.ttl > 1 => Behind(q, x)'
    BY <2>1, <1>1, <1>2, <1>5, UntouchedNumbered
  <2> QED
    BY <2>2, <1>3, <1>8 DEF Gapless
<1> QED
  BY <1>6, <1>7, <1>8

\* The transfers that a step is not about.
LEMMA OthersKept ==
  ASSUME DataInv, NEW q \in Transfers, Untouched(q)
  PROVE  Carried(q)' /\ Filed(q)' /\ (q \in DOMAIN issued' => Gapless(q)')
<1>1. Shape /\ Commanded /\ Carried(q) /\ Filed(q) /\ (q \in DOMAIN issued => Gapless(q))
  BY DEF DataInv
<1>2. q \in DOMAIN issued' => q \in DOMAIN issued
  BY DEF Untouched
<1> QED
  BY <1>1, <1>2, UntouchedCarried, UntouchedGapless

-----------------------------------------------------------------------------
(* INIT, and the end of a process *)

LEMMA InitStep ==
  ASSUME DataInv, NEW r \in Routers, InitResponse(r)
  PROVE  DataInv'
<1>1. Shape /\ Links /\ Commanded
  BY DEF DataInv
<1>2. /\ r \notin up /\ r \notin dead /\ up' = up \cup {r}
      /\ sock' = [sock EXCEPT ![r] =
                    [b \in Routers |-> IF b \in Nbrs[r] THEN Connect(b) ELSE "none"]]
      /\ UNCHANGED <<dead, chan, task, stats, files, issued>>
  BY DEF InitResponse
<1>3. /\ sock' \in [Routers -> [Routers -> Ends]]
      /\ \A b \in Routers : /\ sock'[r][b] \in {"none", "failed", "open"}
                            /\ sock'[r][b] = "open" => b \in up
      /\ \A a, b \in Routers : a # r => sock'[a][b] = sock[a][b]
  <2> DEFINE c == [b \in Routers |-> IF b \in Nbrs[r] THEN Connect(b) ELSE "none"]
  <2>1. /\ c \in [Routers -> Ends]
        /\ \A b \in Routers : /\ c[b] \in {"none", "failed", "open"}
                              /\ c[b] = "open" => b \in up
    BY DEF Connect, Ends
  <2>2. sock \in [Routers -> [Routers -> Ends]] /\ sock' = [sock EXCEPT ![r] = c]
    BY <1>1, <1>2 DEF Shape
  <2> HIDE DEF c
  <2> QED
    BY <2>1, <2>2
<1>4. Shape'
  BY <1>1, <1>2, <1>3 DEF Shape
<1>5. Links'
  <2>1. ASSUME NEW a \in Routers, NEW b \in Routers
        PROVE  /\ Len(chan[a][b]) <= Room
               /\ chan[a][b] # << >> => b \in up' /\ (sock'[a][b] = "open" \/ a \in dead)
               /\ sock'[a][b] = "open" => a \in up' /\ b \in up'
               /\ sock'[a][b] \in {"closed", "reset"} => b \in dead
    <3>1. CASE a = r
      BY <3>1, <1>1, <1>2, <1>3 DEF Links
    <3>2. CASE a # r
      BY <3>2, <1>1, <1>2, <1>3 DEF Links
    <3> QED
      BY <3>1, <3>2
  <2>2. \A x \in Routers : task[x] # Idle => x \in up'
    BY <1>1, <1>2 DEF Links
  <2> QED
    BY <2>1, <2>2, <1>2 DEF Links
<1>6. Commanded'
  BY <1>1, <1>2 DEF Commanded
<1>7. \A q : Untouched(q)
  BY <1>2 DEF Untouched, Sends, Holds
<1>8. \A q \in Transfers : Carried(q)' /\ Filed(q)' /\ (q \in DOMAIN issued' => Gapless(q)')
  BY <1>7, OthersKept
<1> QED
  BY <1>4, <1>5, <1>6, <1>8 DEF DataInv, Commanded

\* What the end of the process of r does.
LEMMA ExitEffect ==
  ASSUME Shape, NEW r \in Routers, Exit(r)
  PROVE  /\ up' = up \ {r} /\ dead' = dead \cup {r} /\ UNCHANGED <<stats, files, issued>>
         /\ TaskSet(r, Idle)
         /\ chan' \in [Routers -> [Routers -> Seq(PacketSet)]]
         /\ \A a, b \in Routers : chan'[a][b] = IF b = r THEN << >> ELSE chan[a][b]
         /\ sock' \in [Routers -> [Routers -> Ends]]
         /\ \A a, b \in Routers :
              \/ a = r /\ sock'[a][b] = "none"
              \/ a # r /\ b = r /\ sock'[a][b] = sock[a][b] /\ sock[a][b] # "open"
              \/ a # r /\ b = r /\ sock'[a][b] \in {"closed", "reset"}
              \/ a # r /\ b # r /\ sock'[a][b] = sock[a][b]
<1>1. /\ sock \in [Routers -> [Routers -> Ends]] /\ {"none", "closed", "reset"} \subseteq Ends
      /\ chan \in [Routers -> [Routers -> Seq(PacketSet)]]
      /\ task \in [Routers -> {Idle} \cup SendTask \cup ForwardTask]
  BY DEF Shape, Ends
<1>2. /\ up' = up \ {r} /\ dead' = dead \cup {r} /\ UNCHANGED <<stats, files, issued>>
  BY DEF Exit
<1>3. TaskSet(r, Idle)
  BY <1>1 DEF Exit, TaskSet
<1>4. /\ chan' \in [Routers -> [Routers -> Seq(PacketSet)]]
      /\ \A a, b \in Routers : chan'[a][b] = IF b = r THEN << >> ELSE chan[a][b]
  <2> DEFINE n == << >>
  <2>1. n \in Seq(PacketSet)
    BY EmptySeq
  <2> HIDE DEF n
  <2>2. chan' = [a \in Routers |-> [chan[a] EXCEPT ![r] = n]]
    BY DEF Exit, n
  <2>3. /\ chan' \in [Routers -> [Routers -> Seq(PacketSet)]]
        /\ \A a, b \in Routers : chan'[a][b] = IF b = r THEN n ELSE chan[a][b]
    BY <2>1, <2>2, <1>1
  <2> QED
    BY <2>3 DEF n
<1>5. PICK R : sock' = [a \in Routers |->
                 IF a = r THEN [b \in Routers |-> "none"]
                 ELSE [sock[a] EXCEPT ![r] =
                         IF sock[a][r] # "open" THEN sock[a][r]
                         ELSE IF a \in R THEN "reset" ELSE "closed"]]
  BY DEF Exit
<1>6. ASSUME NEW a \in Routers
      PROVE  /\ sock'[a] \in [Routers -> Ends]
             /\ \A b \in Routers :
                  \/ a = r /\ sock'[a][b] = "none"
                  \/ a # r /\ b = r /\ sock'[a][b] = sock[a][b] /\ sock[a][b] # "open"
                  \/ a # r /\ b = r /\ sock'[a][b] \in {"closed", "reset"}
                  \/ a # r /\ b # r /\ sock'[a][b] = sock[a][b]
  <2>1. CASE a = r
    BY <2>1, <1>1, <1>5
  <2>2. CASE a # r
    <3> DEFINE e == IF sock[a][r] # "open" THEN sock[a][r]
                    ELSE IF a \in R THEN "reset" ELSE "closed"
    <3>1. /\ e \in Ends
          /\ (e = sock[a][r] /\ sock[a][r] # "open") \/ e \in {"closed", "reset"}
      BY <1>1
    <3>2. sock'[a] = [sock[a] EXCEPT ![r] = e]
      BY <2>2, <1>5
    <3> HIDE DEF e
    <3> QED
      BY <3>1, <3>2, <2>2, <1>1
  <2> QED
    BY <2>1, <2>2
<1>7. sock' \in [Routers -> [Routers -> Ends]]
  <2>1. sock' = [a \in Routers |-> sock'[a]]
    BY <1>5
  <2> QED
    BY <2>1, <1>6
<1> QED
  BY <1>2, <1>3, <1>4, <1>6, <1>7

\* What a router that is gone had, sent or was to get leaves no gap in front of what is
\* still under way.
LEMMA ExitStep ==
  ASSUME DataInv, NEW r \in up, Exit(r)
  PROVE  DataInv'
<1>1. Shape /\ Links /\ Commanded /\ r \in Routers
  BY DEF DataInv, Shape
<1>2. /\ up' = up \ {r} /\ dead' = dead \cup {r} /\ UNCHANGED <<stats, files, issued>>
      /\ TaskSet(r, Idle)
      /\ chan' \in [Routers -> [Routers -> Seq(PacketSet)]]
      /\ \A a, b \in Routers : chan'[a][b] = IF b = r THEN << >> ELSE chan[a][b]
      /\ sock' \in [Routers -> [Routers -> Ends]]
      /\ \A a, b \in Routers :
              \/ a = r /\ sock'[a][b] = "none"
              \/ a # r /\ b = r /\ sock'[a][b] = sock[a][b] /\ sock[a][b] # "open"
              \/ a # r /\ b = r /\ sock'[a][b] \in {"closed", "reset"}
              \/ a # r /\ b # r /\ sock'[a][b] = sock[a][b]
  BY <1>1, ExitEffect
<1>3. Shape'
  BY <1>1, <1>2 DEF Shape, TaskSet
<1>4. Links'
  <2>1. ASSUME NEW a \in Routers, NEW b \in Routers
        PROVE  /\ Len(chan'[a][b]) <= Room
               /\ chan'[a][b] # << >> => b \in up' /\ (sock'[a][b] = "open" \/ a \in dead')
               /\ sock'[a][b] = "open" => a \in up' /\ b \in up'
               /\ sock'[a][b] \in {"closed", "reset"} => b \in dead'
    <3>1. /\ Len(chan[a][b]) <= Room
          /\ chan[a][b] # << >> => b \in up /\ (sock[a][b] = "open" \/ a \in dead)
          /\ sock[a][b] = "open" => a \in up /\ b \in up
          /\ sock[a][b] \in {"closed", "reset"} => b \in dead
      BY <1>1 DEF Links
    <3>2. CASE b = r
      <4>1. chan'[a][b] = << >> /\ Len(<< >>) = 0 /\ 0 <= Room
        BY <3>2, <1>2, EmptySeq, NumberAssumption
      <4>2. b \in dead' /\ sock'[a][b] # "open"
        BY <3>2, <1>2
      <4> QED
        BY <4>1, <4>2
    <3>3. CASE b # r /\ a = r
      BY <3>1, <3>3, <1>2
    <3>4. CASE b # r /\ a # r
      BY <3>1, <3>4, <1>2
    <3> QED
      BY <3>2, <3>3, <3>4
  <2>2. \A x \in Routers : task'[x] # Idle => x \in up'
    BY <1>1, <1>2 DEF Links, TaskSet
  <2> QED
    BY <2>1, <2>2 DEF Links
<1>5. Commanded'
  BY <1>1, <1>2 DEF Commanded
<1>6. \A x \in Routers : \A q :
        Sends(x, q)' \/ Holds(x, q)' => x # r /\ task'[x] = task[x]
  BY <1>2 DEF TaskSet, Sends, Holds, Idle
<1>7. ASSUME NEW q \in Transfers
      PROVE  Carried(q)' /\ Filed(q)'
  <2>1. Carried(q) /\ Filed(q)
    BY DEF DataInv
  <2>2. ASSUME NEW a \in Routers, NEW b \in Routers
        PROVE  Travels(q, a, b, chan[a][b])'
    <3>1. chan'[a][b] = << >> \/ chan'[a][b] = chan[a][b]
      BY <1>2
    <3>2. Travels(q, a, b, chan[a][b])
      BY <2>1 DEF Carried
    <3>3. Travels(q, a, b, << >>)
      BY EmptySeq DEF Travels
    <3>4. Travels(q, a, b, chan'[a][b])
      BY <3>1, <3>2, <3>3
    <3> QED
      BY <3>4, <1>2 DEF Travels
  <2>3. Carried(q)'
    <3>1. \A x \in Routers : Holds(x, q)' => Holds(x, q) /\ task'[x] = task[x]
      BY <1>6 DEF Holds
    <3>2. \A x \in Routers : Sends(x, q)' => Sends(x, q) /\ task'[x] = task[x]
      BY <1>6 DEF Sends
    <3>3. ASSUME NEW x \in Routers, Holds(x, q)'
          PROVE  /\ q \in DOMAIN issued' /\ issued'[q] = x /\ x # q.dest
                 /\ PacketFor(q, task'[x].p) /\ q.ttl > 1
      <4>1. Holds(x, q) /\ task'[x] = task[x] /\ issued' = issued
        BY <3>1, <3>3, <1>2
      <4> QED
        BY <4>1, <2>1 DEF Carried
    <3>4. ASSUME NEW x \in Routers, Sends(x, q)'
          PROVE  /\ q \in DOMAIN issued' /\ q.from = x
                 /\ task'[x].to = issued'[q] /\ task'[x].k \in 1 .. PacketCount(q)
      <4>1. Sends(x, q) /\ task'[x] = task[x] /\ issued' = issued
        BY <3>2, <3>4, <1>2
      <4> QED
        BY <4>1, <2>1 DEF Carried
    <3> QED
      BY <3>3, <3>4, <2>2 DEF Carried
  <2>4. Filed(q)'
    BY <2>1, <1>2 DEF Filed, Content
  <2> QED
    BY <2>3, <2>4
<1>8. ASSUME NEW q \in DOMAIN issued
      PROVE  Gapless(q)'
  <2> DEFINE h == issued[q]
             t == q.transfer_id
             next == Len(Content(q)) + 1
  <2>1. q \in Transfers /\ h \in Routers /\ q.from \in Routers /\ q.dest \in Routers
    BY <1>1, TransferProperty DEF Commanded
  <2>2. Content(q)' = Content(q) /\ issued'[q] = h /\ Gapless(q)
    BY <1>2 DEF Content, DataInv
  <2>3. ASSUME NEW e, Ahead(q, e) PROVE Ahead(q, e)'
    BY <2>1, <2>3, <1>6 DEF Ahead, Sends
  <2>4. CASE q.dest \in dead'
    BY <2>4 DEF Gapless
  <2>5. CASE q.dest \notin dead' /\ h = q.dest
    <3>1. q.dest \notin dead /\ q.dest # r
      BY <2>5, <1>2
    <3>2. PICK e \in Nat : Numbered(chan[q.from][q.dest], t, next, e) /\ Ahead(q, e)
      BY <3>1, <2>2, <2>5 DEF Gapless
    <3>3. chan'[q.from][q.dest] = chan[q.from][q.dest] /\ Ahead(q, e)'
      BY <3>1, <3>2, <2>1, <2>3, <1>2
    <3> QED
      BY <3>2, <3>3, <2>2, <2>5 DEF Gapless
  <2>6. CASE q.dest \notin dead' /\ h # q.dest
    <3>1. q.dest \notin dead /\ q.dest # r
      BY <2>6, <1>2
    <3>2. PICK x \in Nat : /\ Numbered(chan[h][q.dest], t, next, x)
                           /\ h \notin dead /\ q.ttl > 1 => Behind(q, x)
      BY <3>1, <2>2, <2>6 DEF Gapless
    <3>3. chan'[h][q.dest] = chan[h][q.dest]
      BY <3>1, <2>1, <1>2
    <3>4. ASSUME h \notin dead', q.ttl > 1 PROVE Behind(q, x)'
      <4>1. h # r /\ Behind(q, x)
        BY <3>2, <3>4, <1>2
      <4>2. chan'[q.from][h] = chan[q.from][h] /\ task'[h] = task[h]
        BY <4>1, <2>1, <1>2 DEF TaskSet
      <4>3. PICK e \in Nat :
              /\ Ahead(q, e)
              /\ Holds(h, q) => task[h].p.block = x /\ Numbered(chan[q.from][h], t, x + 1, e)
              /\ ~ Holds(h, q) => Numbered(chan[q.from][h], t, x, e)
        BY <4>1 DEF Behind
      <4>4. Ahead(q, e)'
        BY <4>3, <2>3
      <4> QED
        BY <4>2, <4>3, <4>4, <2>2 DEF Behind, Holds
    <3> QED
      BY <3>2, <3>3, <3>4, <2>2, <2>6 DEF Gapless
  <2> QED
    BY <2>4, <2>5, <2>6
<1> QED
  BY <1>2, <1>3, <1>4, <1>5, <1>7, <1>8 DEF DataInv

-----------------------------------------------------------------------------
(* SENDFILE *)

LEMMA SendFileStep ==
  ASSUME DataInv, NEW c \in Transfers, NEW to \in NextHop[c.from][c.dest], SendFile(c, to)
  PROVE  DataInv'
<1> DEFINE r == c.from
<1>1. /\ Shape /\ Links /\ Commanded /\ r \in Routers /\ c.dest \in Routers /\ to \in Routers
      /\ Carried(c) /\ Filed(c)
  BY TransferProperty DEF DataInv
<1>2. /\ r \in up /\ task[r] = Idle /\ c \notin DOMAIN issued
      /\ issued' = [p \in DOMAIN issued \cup {c} |-> IF p = c THEN to ELSE issued[p]]
      /\ UNCHANGED <<up, dead, chan, stats, files>>
  BY DEF SendFile
<1>3. /\ sock' \in [Routers -> [Routers -> Ends]]
      /\ \A a, b \in Routers : \/ sock'[a][b] = sock[a][b]
                               \/ /\ sock[a][b] \in {"none", "failed"} /\ a \in up
                                  /\ sock'[a][b] \in {"open", "failed"}
                                  /\ sock'[a][b] = "open" => b \in up
  <2> DEFINE e == IF sock[r][to] \in {"none", "failed"} THEN Connect(to) ELSE sock[r][to]
  <2>1. sock \in [Routers -> [Routers -> Ends]] /\ sock' = [sock EXCEPT ![r][to] = e]
    BY <1>1 DEF Shape, SendFile
  <2>2. /\ e \in Ends
        /\ \/ e = sock[r][to]
           \/ /\ sock[r][to] \in {"none", "failed"} /\ e \in {"open", "failed"}
              /\ e = "open" => to \in up
    BY <2>1, <1>1 DEF Connect, Ends
  <2> HIDE DEF e
  <2>3. SockSet(r, to, e)
    BY <2>1, <2>2, <1>1 DEF SockSet
  <2> QED
    BY <2>2, <2>3, <1>1, <1>2 DEF SockSet
<1>4. TaskSet(r, Idle) \/ TaskSet(r, [at |-> "sendfile", q |-> c, to |-> to, k |-> 1])
  <2> DEFINE t == [at |-> "sendfile", q |-> c, to |-> to, k |-> 1]
  <2>1. t \in SendTask
    BY <1>1 DEF SendTask
  <2>2. task \in [Routers -> {Idle} \cup SendTask \cup ForwardTask]
    BY <1>1 DEF Shape
  <2>3. task' = task \/ task' = [task EXCEPT ![r] = t]
    BY DEF SendFile
  <2> HIDE DEF t
  <2>4. TaskSet(r, Idle) \/ TaskSet(r, t)
    BY <2>1, <2>2, <2>3, <1>1, <1>2 DEF TaskSet
  <2> QED
    BY <2>4 DEF t
<1>5. /\ task' \in [Routers -> {Idle} \cup SendTask \cup ForwardTask]
      /\ \A x \in Routers : x # r => task'[x] = task[x]
      /\ task'[r].at # "forward"
      /\ task'[r].at = "sendfile" => task'[r].q = c /\ task'[r].to = to /\ task'[r].k = 1
      /\ task[r].at # "forward" /\ task[r].at # "sendfile"
  BY <1>1, <1>2, <1>4 DEF TaskSet, Idle
<1> HIDE DEF r
<1>6. Shape'
  BY <1>1, <1>2, <1>3, <1>5 DEF Shape
<1>7. Links'
  <2>1. ASSUME NEW a \in Routers, NEW b \in Routers
        PROVE  /\ Len(chan[a][b]) <= Room
               /\ chan[a][b] # << >> => b \in up /\ (sock'[a][b] = "open" \/ a \in dead)
               /\ sock'[a][b] = "open" => a \in up /\ b \in up
               /\ sock'[a][b] \in {"closed", "reset"} => b \in dead
    BY <1>1, <1>3 DEF Links
  <2>2. \A x \in Routers : task'[x] # Idle => x \in up
    BY <1>1, <1>2, <1>5 DEF Links
  <2> QED
    BY <2>1, <2>2, <1>2 DEF Links
<1>8. /\ DOMAIN issued' = DOMAIN issued \cup {c}
      /\ issued'[c] = to /\ \A q \in DOMAIN issued : issued'[q] = issued[q]
  BY <1>2
<1>9. Commanded'
  BY <1>1, <1>8 DEF Commanded
<1>10. ASSUME NEW q \in Transfers, q # c
       PROVE  Carried(q)' /\ Filed(q)' /\ (q \in DOMAIN issued' => Gapless(q)')
  <2>1. Untouched(q)
    <3>1. \A x \in Routers :
            \/ task'[x] = task[x]
            \/ ~ Sends(x, q) /\ ~ Holds(x, q) /\ ~ Sends(x, q)' /\ ~ Holds(x, q)'
      BY <1>5, <1>10 DEF Sends, Holds
    <3> QED
      BY <3>1, <1>2, <1>8, <1>10 DEF Untouched
  <2> QED
    BY <2>1, OthersKept
<1>11. /\ \A a, b \in Routers : \A i \in 1 .. Len(chan[a][b]) :
             chan[a][b][i].transfer_id # c.transfer_id
       /\ \A x \in Routers : ~ Holds(x, c) /\ ~ Sends(x, c)
  BY <1>1, <1>2 DEF Carried, Travels
<1>12. /\ \A x \in Routers : ~ Holds(x, c)' /\ (Sends(x, c)' => x = r)
       /\ Sends(r, c)' => task'[r].to = to /\ task'[r].k = 1
  BY <1>5, <1>11 DEF Holds, Sends
<1>13. Carried(c)'
  <2>1. \A a, b \in Routers : Travels(c, a, b, chan[a][b])'
    BY <1>2, <1>11 DEF Travels
  <2>2. 1 \in 1 .. PacketCount(c)
    BY TransferProperty
  <2> QED
    BY <2>1, <2>2, <1>8, <1>12 DEF Carried, r
<1>14. /\ Content(c)' = << >> /\ Len(<< >>) = 0 /\ Filed(c)'
  <2>1. Content(c)' = Content(c) /\ Content(c) = << >>
    BY <1>1, <1>2 DEF Filed, Content
  <2>2. Filed(c)'
    BY <2>1, <1>1, <1>2 DEF Filed
  <2> QED
    BY <2>1, <2>2, EmptySeq
<1>15. Gapless(c)'
  <2>1. \A a, b \in Routers : Numbered(chan[a][b], c.transfer_id, 1, 1)
    BY <1>11, NumberedNone
  <2>2. \A a, b \in Routers : Numbered(chan'[a][b], c.transfer_id, Len(Content(c)') + 1, 1)
    BY <2>1, <1>2, <1>14
  <2>3. Ahead(c, 1)'
    BY <1>12 DEF Ahead, r
  <2>4. Behind(c, 1)'
    BY <2>1, <2>3, <1>1, <1>2, <1>8, <1>12 DEF Behind, r
  <2> QED
    BY <2>2, <2>3, <2>4, <1>1, <1>8 DEF Gapless, r
<1> QED
  BY <1>1, <1>6, <1>7, <1>9, <1>10, <1>13, <1>14, <1>15 DEF DataInv, Commanded

-----------------------------------------------------------------------------
(* A packet is sent *)

\* Whatever the router a does next, the connections are as they should be.
LEMMA SendLinks ==
  ASSUME Shape, Links, NEW a \in up, NEW b \in Routers, NEW p \in PacketSet,
         SendAll(a, b, p), NEW t, TaskSet(a, t), UNCHANGED <<up, dead, files>>
  PROVE  Shape' /\ Links'
<1>1. /\ a \in Routers
      /\ chan \in [Routers -> [Routers -> Seq(PacketSet)]]
      /\ sock \in [Routers -> [Routers -> Ends]]
  BY DEF Shape
<1>2. \/ /\ sock[a][b] = "open" /\ Len(chan[a][b]) < Room /\ sock' = sock
         /\ ChanSet(a, b, Append(chan[a][b], p))
      \/ /\ sock[a][b] = "closed" /\ chan' = chan
         /\ \E e \in {"closed", "reset"} : SockSet(a, b, e)
  BY <1>1, SendEffect
<1>3. /\ chan' \in [Routers -> [Routers -> Seq(PacketSet)]]
      /\ sock' \in [Routers -> [Routers -> Ends]]
  BY <1>1, <1>2 DEF ChanSet, SockSet
<1>4. Shape'
  BY <1>3 DEF Shape, TaskSet
<1>5. ASSUME NEW x \in Routers, NEW y \in Routers
      PROVE  /\ Len(chan'[x][y]) <= Room
             /\ chan'[x][y] # << >> => y \in up /\ (sock'[x][y] = "open" \/ x \in dead)
             /\ sock'[x][y] = "open" => x \in up /\ y \in up
             /\ sock'[x][y] \in {"closed", "reset"} => y \in dead
  <2>1. /\ Len(chan[x][y]) <= Room
        /\ chan[x][y] # << >> => y \in up /\ (sock[x][y] = "open" \/ x \in dead)
        /\ sock[x][y] = "open" => x \in up /\ y \in up
        /\ sock[x][y] \in {"closed", "reset"} => y \in dead
    BY DEF Links
  <2>2. CASE x # a \/ y # b
    <3>1. chan'[x][y] = chan[x][y] /\ sock'[x][y] = sock[x][y]
      BY <2>2, <1>2 DEF ChanSet, SockSet
    <3> QED
      BY <2>1, <3>1
  <2>3. CASE x = a /\ y = b
    <3>1. CASE /\ sock[a][b] = "open" /\ Len(chan[a][b]) < Room /\ sock' = sock
               /\ ChanSet(a, b, Append(chan[a][b], p))
      <4>1. Len(chan'[a][b]) = Len(chan[a][b]) + 1 /\ Len(chan[a][b]) \in Nat
        <5>1. chan[a][b] \in Seq(PacketSet) /\ chan'[a][b] = Append(chan[a][b], p)
          BY <3>1, <1>1 DEF ChanSet
        <5> QED
          BY <5>1, AppendProperties
      <4>2. Len(chan'[a][b]) <= Room
        BY <4>1, <3>1, NumberAssumption
      <4> QED
        BY <4>2, <3>1, <2>1, <2>3
    <3>2. CASE /\ sock[a][b] = "closed" /\ chan' = chan
               /\ \E e \in {"closed", "reset"} : SockSet(a, b, e)
      BY <3>2, <2>1, <2>3 DEF SockSet
    <3> QED
      BY <3>1, <3>2, <1>2
  <2> QED
    BY <2>2, <2>3
<1>6. \A x \in Routers : task'[x] # Idle => x \in up
  BY DEF TaskSet, Links
<1>7. Links'
  BY <1>5, <1>6 DEF Links
<1> QED
  BY <1>4, <1>7

\* A packet of c is added, or lost: nothing changes for another transfer.
LEMMA SendUntouched ==
  ASSUME Shape, Commanded, NEW a \in Routers, NEW b \in Routers, NEW p \in PacketSet,
         SendAll(a, b, p), NEW t, TaskSet(a, t), UNCHANGED <<dead, files, issued>>,
         NEW q \in Transfers, p.transfer_id # q.transfer_id,
         ~ Sends(a, q) /\ ~ Holds(a, q) /\ ~ Sends(a, q)' /\ ~ Holds(a, q)'
  PROVE  Untouched(q)
<1>1. chan' = chan \/ ChanSet(a, b, Append(chan[a][b], p))
  BY SendEffect
<1>2. \A x, y \in Routers : \/ chan'[x][y] = chan[x][y]
                            \/ chan'[x][y] = Append(chan[x][y], p)
  BY <1>1 DEF ChanSet
<1>3. \A x \in Routers :
        \/ task'[x] = task[x]
        \/ ~ Sends(x, q) /\ ~ Holds(x, q) /\ ~ Sends(x, q)' /\ ~ Holds(x, q)'
  BY DEF TaskSet
<1> QED
  BY <1>2, <1>3 DEF Untouched

\* A packet that belongs there is added, or lost: those of its transfer are where they
\* should be.
LEMMA SendTravels ==
  ASSUME Shape, NEW a \in Routers, NEW b \in Routers, NEW p \in PacketSet,
         SendAll(a, b, p), issued' = issued, NEW q \in Transfers,
         \A x, y \in Routers : Travels(q, x, y, chan[x][y]), Travels(q, a, b, <<p>>)
  PROVE  \A x, y \in Routers : Travels(q, x, y, chan[x][y])'
<1>1. chan' = chan \/ ChanSet(a, b, Append(chan[a][b], p))
  BY SendEffect
<1>2. ASSUME NEW x \in Routers, NEW y \in Routers
      PROVE  Travels(q, x, y, chan'[x][y])
  <2>1. Travels(q, x, y, chan[x][y]) /\ chan[x][y] \in Seq(PacketSet)
    BY DEF Shape
  <2>2. CASE chan'[x][y] = chan[x][y]
    BY <2>1, <2>2
  <2>3. CASE x = a /\ y = b /\ chan'[x][y] = Append(chan[x][y], p)
    BY <2>1, <2>3, TravelsAppend
  <2> QED
    BY <2>2, <2>3, <1>1 DEF ChanSet
<1> QED
  BY <1>2 DEF Travels

\* The source sends the next block.
LEMMA SendPacketStep ==
  ASSUME DataInv, NEW r \in Routers, SendPacket(r)
  PROVE  DataInv'
<1>0. PICK c \in Transfers, k \in Nat, to \in Routers :
        /\ Shape /\ Links /\ Commanded
        /\ task[r].at = "sendfile" /\ task[r] \in SendTask /\ r \in up /\ Sends(r, c)
        /\ task[r].q = c /\ task[r].k = k /\ task[r].to = to
  <2>1. Shape /\ Links /\ Commanded /\ task[r].at = "sendfile"
    BY DEF DataInv, SendPacket
  <2>2. task[r] \in SendTask /\ task[r] # Idle
    BY <2>1, TaskProperty
  <2>3. task[r].q \in Transfers /\ task[r].k \in Nat /\ task[r].to \in Routers
    BY <2>2 DEF SendTask
  <2> QED
    BY <2>1, <2>2, <2>3 DEF Links, Sends
<1> DEFINE p == PacketOf(c, k)
           n == IF LastPacket(c, k) THEN Idle ELSE [task[r] EXCEPT !.k = k + 1]
<1>1. /\ Shape /\ Links /\ Commanded
      /\ task[r].at = "sendfile" /\ task[r] \in SendTask /\ r \in up /\ Sends(r, c)
  BY <1>0
<1>2. Carried(c) /\ Filed(c)
  BY <1>1 DEF DataInv
<1>3. /\ c \in DOMAIN issued /\ c.from = r /\ to = issued[c] /\ k \in 1 .. PacketCount(c)
      /\ to \in Routers /\ c.dest \in Routers /\ PacketCount(c) \in Nat
      /\ Gapless(c)
  <2>1. /\ c \in DOMAIN issued /\ c.from = r /\ to = issued[c] /\ k \in 1 .. PacketCount(c)
    BY <1>0, <1>2 DEF Carried
  <2>2. to \in Routers /\ Gapless(c)
    BY <2>1, <1>1 DEF Commanded, DataInv
  <2> QED
    BY <2>1, <2>2, <1>1, TransferProperty
<1>4. /\ p \in PacketSet /\ PacketFor(c, p) /\ p.transfer_id = c.transfer_id
      /\ p.ttl = c.ttl /\ p.block = k /\ (LastPacket(c, k) <=> k = PacketCount(c))
  BY <1>1, <1>3, PacketProperty DEF PacketFor
<1>5. SendAll(r, to, p) /\ UNCHANGED <<up, dead, files, issued>>
  BY <1>0 DEF SendPacket
<1>6. /\ TaskSet(r, n) /\ n.at # "forward"
      /\ n.at = "sendfile" => n.q = c /\ n.to = to /\ n.k = k + 1 /\ k + 1 \in 1 .. PacketCount(c)
  <2>1. /\ task \in [Routers -> {Idle} \cup SendTask \cup ForwardTask]
        /\ task' = [task EXCEPT ![r] = n]
    BY <1>0 DEF Shape, SendPacket
  <2>2. CASE LastPacket(c, k)
    <3>1. n = Idle /\ n.at # "forward" /\ n.at # "sendfile"
      BY <2>2 DEF Idle
    <3> HIDE DEF n
    <3> QED
      BY <2>1, <3>1 DEF TaskSet
  <2>3. CASE ~ LastPacket(c, k)
    <3> DEFINE k1 == k + 1
    <3>1. k1 \in 1 .. PacketCount(c)
      BY <2>3, <1>3, <1>4
    <3>2. k1 \in Nat /\ n = [task[r] EXCEPT !.k = k1]
      BY <3>1, <2>3
    <3> HIDE DEF k1, n
    <3>3. n \in SendTask /\ n.at = "sendfile" /\ n.q = c /\ n.to = to /\ n.k = k1
      BY <3>2, <1>0 DEF SendTask
    <3>4. TaskSet(r, n)
      BY <2>1, <3>3 DEF TaskSet
    <3> QED
      BY <3>1, <3>3, <3>4 DEF k1
  <2> QED
    BY <2>2, <2>3
<1> HIDE DEF p, n
<1>7. Shape' /\ Links'
  BY <1>1, <1>3, <1>4, <1>5, <1>6, SendLinks
<1>8. Commanded'
  BY <1>1, <1>5 DEF Commanded
<1>9. /\ \A q : ~ Holds(r, q) /\ ~ Holds(r, q)'
      /\ \A q : q # c => ~ Sends(r, q) /\ ~ Sends(r, q)'
      /\ Sends(r, c)' => task'[r].to = to /\ task'[r].k = k + 1
                         /\ k + 1 \in 1 .. PacketCount(c)
      /\ \A x \in Routers : x # r => task'[x] = task[x]
  BY <1>0, <1>6 DEF TaskSet, Holds, Sends
<1>10. ASSUME NEW q \in Transfers, q # c
       PROVE  Carried(q)' /\ Filed(q)' /\ (q \in DOMAIN issued' => Gapless(q)')
  <2>1. p.transfer_id # q.transfer_id
    BY <1>1, <1>4, <1>10, TransferProperty
  <2>2. Untouched(q)
    BY <2>1, <1>1, <1>3, <1>4, <1>5, <1>6, <1>9, <1>10, SendUntouched
  <2> QED
    BY <2>2, OthersKept
<1>11. Carried(c)'
  <2>1. Travels(c, r, to, <<p>>)
    BY <1>3, <1>4 DEF Travels
  <2>2. \A a, b \in Routers : Travels(c, a, b, chan[a][b])'
    BY <2>1, <1>1, <1>2, <1>3, <1>4, <1>5, SendTravels DEF Carried
  <2>3. ASSUME NEW x \in Routers, Holds(x, c)'
        PROVE  /\ c \in DOMAIN issued' /\ issued'[c] = x /\ x # c.dest
               /\ PacketFor(c, task'[x].p) /\ c.ttl > 1
    <3>1. x # r /\ task'[x] = task[x] /\ Holds(x, c)
      BY <2>3, <1>9 DEF Holds
    <3> QED
      BY <3>1, <1>2, <1>5 DEF Carried
  <2>4. ASSUME NEW x \in Routers, Sends(x, c)'
        PROVE  /\ c \in DOMAIN issued' /\ c.from = x
               /\ task'[x].to = issued'[c] /\ task'[x].k \in 1 .. PacketCount(c)
    <3>1. CASE x = r
      BY <3>1, <2>4, <1>3, <1>5, <1>9
    <3>2. CASE x # r
      <4>1. task'[x] = task[x] /\ Sends(x, c)
        BY <3>2, <2>4, <1>9 DEF Sends
      <4> QED
        BY <4>1, <1>2, <1>5 DEF Carried
    <3> QED
      BY <3>1, <3>2
  <2> QED
    BY <2>2, <2>3, <2>4 DEF Carried
<1>12. Filed(c)' /\ Content(c)' = Content(c)
  <2>1. Content(c)' = Content(c)
    BY <1>5 DEF Content
  <2> QED
    BY <2>1, <1>2, <1>5 DEF Filed
<1>13. Gapless(c)'
  <2> DEFINE t == c.transfer_id
             next == Len(Content(c)) + 1
  <2>1. /\ issued'[c] = to /\ dead' = dead /\ Content(c)' = Content(c)
        /\ issued[c] = to /\ c.from = r
    BY <1>3, <1>5, <1>12
  <2>2. ASSUME NEW e, Ahead(c, e) PROVE e = k
    BY <2>2, <1>0, <1>3 DEF Ahead
  <2>3. Ahead(c, k + 1)'
    BY <1>3, <1>9 DEF Ahead
  <2>4. CASE c.dest \in dead
    BY <2>4, <2>1 DEF Gapless
  <2>5. CASE c.dest \notin dead /\ sock[r][to] = "closed" /\ chan' = chan
    <3>1. to \in dead
      BY <2>5, <1>1, <1>3 DEF Links
    <3>2. to # c.dest
      BY <2>5, <3>1
    <3>3. PICK x \in Nat : Numbered(chan[to][c.dest], t, next, x)
      BY <2>1, <2>5, <3>2, <1>3 DEF Gapless
    <3> QED
      BY <2>1, <2>5, <3>1, <3>2, <3>3 DEF Gapless
  <2>6. CASE c.dest \notin dead /\ ChanSet(r, to, Append(chan[r][to], p))
    <3> DEFINE s == chan[r][to]
               s1 == chan'[r][to]
    <3>1. s \in Seq(PacketSet) /\ s1 = Append(s, p)
      BY <2>6, <1>1, <1>3 DEF Shape, ChanSet
    <3>2. ASSUME NEW b, Numbered(s, t, b, k) PROVE Numbered(s1, t, b, k + 1)
      BY <3>1, <3>2, <1>4, NumberedAppend
    <3>3. CASE to = c.dest
      <4>1. PICK e \in Nat : Numbered(s, t, next, e) /\ Ahead(c, e)
        BY <2>1, <2>6, <3>3, <1>3 DEF Gapless
      <4>2. Numbered(s1, t, next, k + 1)
        BY <4>1, <2>2, <3>2
      <4> QED
        BY <4>2, <2>1, <2>3, <3>3, <1>3 DEF Gapless
    <3>4. CASE to # c.dest
      <4>1. PICK x \in Nat : /\ Numbered(chan[to][c.dest], t, next, x)
                             /\ to \notin dead /\ c.ttl > 1 => Behind(c, x)
        BY <2>1, <2>6, <3>4, <1>3 DEF Gapless
      <4>2. chan'[to][c.dest] = chan[to][c.dest]
        BY <2>6, <3>4, <1>3 DEF ChanSet
      <4>3. ASSUME Behind(c, x) PROVE Behind(c, x)'
        <5>1. PICK e \in Nat :
                /\ Ahead(c, e)
                /\ Holds(to, c) => task[to].p.block = x /\ Numbered(s, t, x + 1, e)
                /\ ~ Holds(to, c) => Numbered(s, t, x, e)
          BY <4>3, <2>1 DEF Behind
        <5>2. e = k
          BY <5>1, <2>2
        <5>3. /\ Holds(to, c)' <=> Holds(to, c)
              /\ Holds(to, c) => task'[to] = task[to]
          BY <1>3, <1>9 DEF Holds
        <5>4. /\ Holds(to, c) => Numbered(s1, t, x + 1, k + 1)
              /\ ~ Holds(to, c) => Numbered(s1, t, x, k + 1)
          BY <5>1, <5>2, <3>2
        <5>5. k + 1 \in Nat
          BY <1>3
        <5> QED
          BY <5>1, <5>3, <5>4, <5>5, <2>1, <2>3 DEF Behind
      <4> QED
        BY <4>1, <4>2, <4>3, <2>1, <3>4 DEF Gapless
    <3> QED
      BY <3>3, <3>4
  <2> QED
    BY <2>4, <2>5, <2>6, <1>1, <1>3, <1>4, <1>5, SendEffect
<1> QED
  BY <1>1, <1>7, <1>8, <1>10, <1>11, <1>12, <1>13, <1>5 DEF DataInv, Commanded

\* The next hop sends on what it holds.
LEMMA ForwardStep ==
  ASSUME DataInv, NEW r \in Routers, Forward(r)
  PROVE  DataInv'
<1>0. PICK p \in PacketSet, c \in Transfers :
        /\ Shape /\ Links /\ Commanded
        /\ task[r].at = "forward" /\ r \in up /\ task[r].p = p /\ Holds(r, c)
        /\ p.transfer_id = c.transfer_id
  <2>1. Shape /\ Links /\ Commanded /\ task[r].at = "forward"
    BY DEF DataInv, Forward
  <2>2. task[r] \in ForwardTask /\ task[r] # Idle
    BY <2>1, TaskProperty
  <2>3. task[r].p \in PacketSet
    BY <2>2 DEF ForwardTask
  <2>4. PICK c \in Transfers : task[r].p.transfer_id = c.transfer_id
    BY <2>3, OfTransfer
  <2> QED
    BY <2>1, <2>2, <2>3, <2>4 DEF Links, Holds
<1>1. Shape /\ Links /\ Commanded /\ r \in up /\ r \notin dead
  BY <1>0 DEF Shape
<1>2. Carried(c) /\ Filed(c)
  BY DEF DataInv
<1>3. /\ c \in DOMAIN issued /\ issued[c] = r /\ r # c.dest /\ PacketFor(c, p) /\ c.ttl > 1
      /\ c.from \in Routers /\ c.dest \in Routers /\ Gapless(c) /\ p.dest = c.dest
  <2>1. c \in DOMAIN issued /\ issued[c] = r /\ r # c.dest /\ PacketFor(c, p) /\ c.ttl > 1
    BY <1>0, <1>2 DEF Carried
  <2> QED
    BY <2>1, TransferProperty DEF DataInv, PacketFor
<1>4. SendAll(r, c.dest, p) /\ UNCHANGED <<up, dead, files, issued>>
  BY <1>0, <1>3 DEF Forward, ForwardTo
<1>5. TaskSet(r, Idle)
  <2>1. /\ task \in [Routers -> {Idle} \cup SendTask \cup ForwardTask]
        /\ task' = [task EXCEPT ![r] = Idle]
    BY <1>1 DEF Shape, Forward
  <2> QED
    BY <2>1 DEF TaskSet
<1>6. /\ \A q : ~ Holds(r, q)' /\ ~ Sends(r, q) /\ ~ Sends(r, q)'
      /\ \A q \in Transfers : q # c => ~ Holds(r, q)
      /\ \A x \in Routers : x # r => task'[x] = task[x]
  <2>1. \A q : ~ Holds(r, q)' /\ ~ Sends(r, q) /\ ~ Sends(r, q)'
    BY <1>0, <1>5 DEF TaskSet, Holds, Sends, Idle
  <2>2. \A q \in Transfers : q # c => ~ Holds(r, q)
    BY <1>0, TransferProperty DEF Holds
  <2> QED
    BY <2>1, <2>2, <1>5 DEF TaskSet
<1>7. Shape' /\ Links'
  BY <1>1, <1>3, <1>4, <1>5, SendLinks
<1>8. Commanded'
  BY <1>1, <1>4 DEF Commanded
<1>9. ASSUME NEW q \in Transfers, q # c
      PROVE  Carried(q)' /\ Filed(q)' /\ (q \in DOMAIN issued' => Gapless(q)')
  <2>1. p.transfer_id # q.transfer_id
    BY <1>0, <1>9, TransferProperty
  <2>2. Untouched(q)
    BY <2>1, <1>1, <1>3, <1>4, <1>5, <1>6, <1>9, SendUntouched
  <2> QED
    BY <2>2, OthersKept
<1>10. Carried(c)'
  <2>1. Travels(c, r, c.dest, <<p>>)
    BY <1>3 DEF Travels
  <2>2. \A a, b \in Routers : Travels(c, a, b, chan[a][b])'
    BY <2>1, <1>1, <1>2, <1>3, <1>4, SendTravels DEF Carried
  <2>3. ASSUME NEW x \in Routers, Holds(x, c)'
        PROVE  /\ c \in DOMAIN issued' /\ issued'[c] = x /\ x # c.dest
               /\ PacketFor(c, task'[x].p) /\ c.ttl > 1
    <3>1. x # r /\ task'[x] = task[x] /\ Holds(x, c)
      BY <2>3, <1>6 DEF Holds
    <3> QED
      BY <3>1, <1>2, <1>4 DEF Carried
  <2>4. ASSUME NEW x \in Routers, Sends(x, c)'
        PROVE  /\ c \in DOMAIN issued' /\ c.from = x
               /\ task'[x].to = issued'[c] /\ task'[x].k \in 1 .. PacketCount(c)
    <3>1. x # r /\ task'[x] = task[x] /\ Sends(x, c)
      BY <2>4, <1>6 DEF Sends
    <3> QED
      BY <3>1, <1>2, <1>4 DEF Carried
  <2> QED
    BY <2>2, <2>3, <2>4 DEF Carried
<1>11. Filed(c)' /\ Content(c)' = Content(c)
  <2>1. Content(c)' = Content(c)
    BY <1>4 DEF Content
  <2> QED
    BY <2>1, <1>2, <1>4 DEF Filed
<1>12. Gapless(c)'
  <2> DEFINE t == c.transfer_id
             next == Len(Content(c)) + 1
  <2>1. issued'[c] = r /\ dead' = dead /\ Content(c)' = Content(c)
    BY <1>3, <1>4, <1>11
  <2>2. CASE c.dest \in dead
    BY <2>1, <2>2 DEF Gapless
  <2>3. CASE c.dest \notin dead
    <3>1. ChanSet(r, c.dest, Append(chan[r][c.dest], p))
      <4>1. sock[r][c.dest] # "closed"
        BY <2>3, <1>1, <1>3 DEF Links
      <4> QED
        BY <4>1, <1>1, <1>3, <1>4, SendEffect
    <3> DEFINE s == chan[r][c.dest]
    <3>2. s \in Seq(PacketSet) /\ chan'[r][c.dest] = Append(s, p)
      BY <3>1, <1>1, <1>3 DEF Shape, ChanSet
    <3>3. PICK x \in Nat : Numbered(s, t, next, x) /\ Behind(c, x)
      BY <2>3, <1>1, <1>3 DEF Gapless
    <3>4. PICK e \in Nat : /\ Ahead(c, e) /\ p.block = x
                           /\ Numbered(chan[c.from][r], t, x + 1, e)
      BY <3>3, <1>0, <1>3 DEF Behind
    <3>5. Numbered(chan'[r][c.dest], t, next, x + 1)
      BY <3>2, <3>3, <3>4, <1>0, NumberedAppend
    <3>6. chan'[c.from][r] = chan[c.from][r]
      BY <3>1, <1>3, <1>1 DEF ChanSet, Shape
    <3>7. Ahead(c, e)'
      BY <3>4, <1>3, <1>6 DEF Ahead, Sends
    <3>8. Behind(c, x + 1)'
      BY <3>4, <3>6, <3>7, <2>1, <1>6 DEF Behind
    <3>9. x + 1 \in Nat
      OBVIOUS
    <3> QED
      BY <3>5, <3>8, <3>9, <2>1, <1>3 DEF Gapless
  <2> QED
    BY <2>2, <2>3
<1> QED
  BY <1>1, <1>3, <1>7, <1>8, <1>9, <1>10, <1>11, <1>12, <1>4 DEF DataInv, Commanded

-----------------------------------------------------------------------------
(* A packet is received *)

\* The files g of a router are its files f, and block b added to that of t, which is
\* closed if fin.
FileGrows(f, g, t, b, fin) ==
  /\ DOMAIN g = DOMAIN f \cup {t}
  /\ \A u \in DOMAIN f : u # t => g[u] = f[u]
  /\ g[t].contents = Append(IF t \in DOMAIN f THEN f[t].contents ELSE << >>, b)
  /\ g[t].isopen = ((t \in DOMAIN f => f[t].isopen) /\ ~ fin)

LEMMA FileDataProperty ==
  ASSUME NEW f, NEW p, NEW t, NEW b, NEW fin,
         p.transfer_id = t, p.block = b, p.fin = fin
  PROVE  FileGrows(f, FileData(f, p), t, b, fin)
<1>1. Append(<< >>, b) = <<b>>
  OBVIOUS
<1> DEFINE g == FileData(f, p)
<1>2. g = [u \in DOMAIN f \cup {t} |->
             IF u # t THEN f[u]
             ELSE [contents |-> IF u \in DOMAIN f THEN Append(f[u].contents, b) ELSE <<b>>,
                   isopen |-> (u \in DOMAIN f => f[u].isopen) /\ ~ fin]]
  BY DEF FileData
<1> HIDE DEF g
<1>3. /\ DOMAIN g = DOMAIN f \cup {t}
      /\ \A u \in DOMAIN f : u # t => g[u] = f[u]
  BY <1>2
<1>4. g[t] = [contents |-> IF t \in DOMAIN f THEN Append(f[t].contents, b) ELSE <<b>>,
              isopen |-> (t \in DOMAIN f => f[t].isopen) /\ ~ fin]
  BY <1>2
<1>5. g[t].isopen = ((t \in DOMAIN f => f[t].isopen) /\ ~ fin)
  BY <1>4
<1>6. g[t].contents = IF t \in DOMAIN f THEN Append(f[t].contents, b) ELSE <<b>>
  BY <1>4
<1>7. g[t].contents = Append(IF t \in DOMAIN f THEN f[t].contents ELSE << >>, b)
  BY <1>1, <1>6
<1>8. FileGrows(f, g, t, b, fin)
  BY <1>3, <1>5, <1>7 DEF FileGrows
<1> QED
  BY <1>8 DEF g

\* The connection loses its first packet: of another transfer, everything stays.
LEMMA ReceiveUntouched ==
  ASSUME Shape, NEW s \in Routers, NEW r \in Routers, chan[s][r] # << >>,
         ChanSet(s, r, Tail(chan[s][r])), UNCHANGED <<dead, issued>>,
         NEW q \in Transfers, Head(chan[s][r]).transfer_id # q.transfer_id,
         NEW t, TaskSet(r, t),
         t = task[r] \/ (~ Sends(r, q) /\ ~ Holds(r, q) /\ ~ Sends(r, q)' /\ ~ Holds(r, q)'),
         q.transfer_id \in DOMAIN files'[q.dest] <=> q.transfer_id \in DOMAIN files[q.dest],
         q.transfer_id \in DOMAIN files[q.dest] =>
           files'[q.dest][q.transfer_id] = files[q.dest][q.transfer_id]
  PROVE  Untouched(q)
<1>1. \A x, y \in Routers :
        \/ chan'[x][y] = chan[x][y]
        \/ /\ chan[x][y] # << >> /\ Head(chan[x][y]).transfer_id # q.transfer_id
           /\ chan'[x][y] = Tail(chan[x][y])
  BY DEF ChanSet
<1>2. \A x \in Routers :
        \/ task'[x] = task[x]
        \/ ~ Sends(x, q) /\ ~ Holds(x, q) /\ ~ Sends(x, q)' /\ ~ Holds(x, q)'
  BY DEF TaskSet
<1> QED
  BY <1>1, <1>2 DEF Untouched

LEMMA ReceiveTravels ==
  ASSUME Shape, NEW s \in Routers, NEW r \in Routers, chan[s][r] # << >>,
         ChanSet(s, r, Tail(chan[s][r])), issued' = issued, NEW q \in Transfers,
         \A x, y \in Routers : Travels(q, x, y, chan[x][y])
  PROVE  \A x, y \in Routers : Travels(q, x, y, chan[x][y])'
<1>1. ASSUME NEW x \in Routers, NEW y \in Routers
      PROVE  Travels(q, x, y, chan'[x][y])
  <2>1. Travels(q, x, y, chan[x][y]) /\ chan[x][y] \in Seq(PacketSet)
    BY DEF Shape
  <2>2. CASE chan'[x][y] = chan[x][y]
    BY <2>1, <2>2
  <2>3. CASE x = s /\ y = r /\ chan'[x][y] = Tail(chan[x][y])
    BY <2>1, <2>3, TravelsTail
  <2> QED
    BY <2>2, <2>3 DEF ChanSet
<1> QED
  BY <1>1 DEF Travels

\* A connection that loses its first packet is as it should be.
LEMMA ReceiveLinks ==
  ASSUME Shape, Links, NEW s \in Routers, NEW r \in Routers, chan[s][r] # << >>,
         ChanSet(s, r, Tail(chan[s][r])), NEW t, TaskSet(r, t),
         UNCHANGED <<up, dead, sock>>, files' = [x \in Routers |-> files'[x]]
  PROVE  Shape' /\ Links'
<1>1. Shape'
  BY DEF Shape, ChanSet, TaskSet
<1>2. r \in up
  BY DEF Links
<1>3. Len(Tail(chan[s][r])) <= Room
  <2>1. chan[s][r] \in Seq(PacketSet) /\ Len(chan[s][r]) <= Room
    BY DEF Shape, Links
  <2>2. Len(Tail(chan[s][r])) = Len(chan[s][r]) - 1 /\ Len(chan[s][r]) \in Nat
    BY <2>1, HeadTailProperties
  <2> QED
    BY <2>1, <2>2, NumberAssumption
<1>4. ASSUME NEW x \in Routers, NEW y \in Routers
      PROVE  /\ Len(chan'[x][y]) <= Room
             /\ chan'[x][y] # << >> => y \in up /\ (sock[x][y] = "open" \/ x \in dead)
             /\ sock[x][y] = "open" => x \in up /\ y \in up
             /\ sock[x][y] \in {"closed", "reset"} => y \in dead
  <2>1. CASE x = s /\ y = r
    BY <2>1, <1>3 DEF Links, ChanSet
  <2>2. CASE x # s \/ y # r
    BY <2>2 DEF Links, ChanSet
  <2> QED
    BY <2>1, <2>2
<1>5. \A x \in Routers : task'[x] # Idle => x \in up
  BY <1>2 DEF TaskSet, Links
<1>6. Links'
  BY <1>4, <1>5 DEF Links
<1> QED
  BY <1>1, <1>6

\* The router r takes the packet p of c from the connection with s.
Arrives(s, r, p, c) ==
  /\ Shape /\ Links /\ Commanded
  /\ chan[s][r] # << >> /\ Head(chan[s][r]) = p /\ ChanSet(s, r, Tail(chan[s][r]))
  /\ p \in PacketSet /\ c \in Transfers /\ p.transfer_id = c.transfer_id
  /\ task[r] = Idle /\ r \in up /\ r \notin dead
  /\ UNCHANGED <<up, dead, sock, issued>>
  /\ c \in DOMAIN issued /\ PacketFor(c, p)
  /\ issued[c] \in Routers /\ c.from \in Routers /\ c.dest \in Routers
  /\ \/ s = c.from /\ r = issued[c] /\ p.ttl = c.ttl
     \/ issued[c] # c.dest /\ s = issued[c] /\ r = c.dest
  /\ Carried(c) /\ Filed(c) /\ Gapless(c)

LEMMA Arrival ==
  ASSUME DataInv, NEW s \in Routers, NEW r \in Routers, Receive(s, r)
  PROVE  \E p, c : Arrives(s, r, p, c)
<1> DEFINE u == chan[s][r]
<1>1. /\ Shape /\ Links /\ Commanded /\ u # << >> /\ task[r] = Idle
      /\ UNCHANGED <<up, dead, sock, issued>> /\ chan' = [chan EXCEPT ![s][r] = Tail(u)]
  BY DEF DataInv, Receive
<1>2. u \in Seq(PacketSet) /\ r \in up /\ r \notin dead
  BY <1>1 DEF Shape, Links
<1>3. Tail(u) \in Seq(PacketSet) /\ Head(u) \in PacketSet /\ 1 \in 1 .. Len(u) /\ u[1] = Head(u)
  BY <1>1, <1>2
<1>4. ChanSet(s, r, Tail(u))
  <2> DEFINE v == Tail(u)
  <2>1. /\ chan \in [Routers -> [Routers -> Seq(PacketSet)]]
        /\ v \in Seq(PacketSet) /\ chan' = [chan EXCEPT ![s][r] = v]
    BY <1>1, <1>3 DEF Shape
  <2> HIDE DEF v
  <2>2. ChanSet(s, r, v)
    BY <2>1 DEF ChanSet
  <2> QED
    BY <2>2 DEF v
<1>5. PICK c \in Transfers : Head(u).transfer_id = c.transfer_id
  BY <1>3, OfTransfer
<1>6. Carried(c) /\ Filed(c)
  BY DEF DataInv
<1>7. Travels(c, s, r, u)
  BY <1>6 DEF Carried
<1>8. /\ c \in DOMAIN issued /\ PacketFor(c, Head(u))
      /\ \/ s = c.from /\ r = issued[c] /\ Head(u).ttl = c.ttl
         \/ issued[c] # c.dest /\ s = issued[c] /\ r = c.dest
  BY <1>3, <1>5, <1>7 DEF Travels
<1>9. /\ issued[c] \in Routers /\ c.from \in Routers /\ c.dest \in Routers /\ Gapless(c)
  BY <1>1, <1>8, TransferProperty DEF Commanded, DataInv
<1>10. Arrives(s, r, Head(u), c)
  BY <1>1, <1>2, <1>3, <1>4, <1>5, <1>6, <1>8, <1>9 DEF Arrives
<1> QED
  BY <1>10

\* The file of c grows by its next block, the others stay.
Delivered(c) ==
  /\ Content(c)' = Append(Content(c), Len(Content(c)) + 1)
  /\ \A q \in Transfers : q # c => Content(q)' = Content(q) /\ (Closed(q)' <=> Closed(q))

\* The destination adds the block to the file.
LEMMA DeliverStep ==
  ASSUME DataInv, NEW s \in Routers, NEW r \in Routers, NEW p, NEW c, Arrives(s, r, p, c),
         p.dest = r, files' = [files EXCEPT ![r] = FileData(@, Aged(p))], task' = task
  PROVE  DataInv' /\ Delivered(c)
<1> DEFINE t == c.transfer_id
           next == Len(Content(c)) + 1
<1>1. /\ Shape /\ Links /\ Commanded /\ Carried(c) /\ Filed(c) /\ Gapless(c)
      /\ chan[s][r] # << >> /\ Head(chan[s][r]) = p /\ ChanSet(s, r, Tail(chan[s][r]))
      /\ p \in PacketSet /\ c \in Transfers /\ p.transfer_id = t
      /\ c.dest = r /\ r \notin dead /\ c \in DOMAIN issued
      /\ issued[c] \in Routers /\ c.from \in Routers
      /\ p.block \in 1 .. PacketCount(c) /\ (p.fin <=> p.block = PacketCount(c))
      /\ p.fin \in BOOLEAN
      /\ (issued[c] = c.dest /\ s = c.from) \/ (issued[c] # c.dest /\ s = issued[c])
  BY DEF Arrives, PacketFor, PacketSet
<1>2. UNCHANGED <<up, dead, sock, issued>>
  BY DEF Arrives
<1>3. TaskSet(r, task[r])
  BY <1>1 DEF Shape, TaskSet
<1>4. /\ files' = [x \in Routers |-> files'[x]]
      /\ files'[r] = FileData(files[r], Aged(p))
      /\ \A x \in Routers : x # r => files'[x] = files[x]
  BY <1>1 DEF Shape
<1>5. FileGrows(files[r], files'[r], t, p.block, p.fin)
  <2> DEFINE a == Aged(p)
  <2>1. a.transfer_id = t /\ a.block = p.block /\ a.fin = p.fin
    BY <1>1, AgedProperty
  <2> HIDE DEF a
  <2>2. files'[r] = FileData(files[r], a)
    BY <1>4 DEF a
  <2>3. FileGrows(files[r], FileData(files[r], a), t, p.block, p.fin)
    BY <2>1, FileDataProperty
  <2> QED
    BY <2>2, <2>3
<1>6. Shape' /\ Links'
  BY <1>1, <1>2, <1>3, <1>4, ReceiveLinks
<1>7. Commanded'
  BY <1>1, <1>2 DEF Commanded
<1>8. ASSUME NEW q \in Transfers, q # c
      PROVE  /\ Carried(q)' /\ Filed(q)' /\ (q \in DOMAIN issued' => Gapless(q)')
             /\ Content(q)' = Content(q) /\ (Closed(q)' <=> Closed(q))
  <2>1. q.transfer_id # t /\ q.dest \in Routers
    BY <1>1, <1>8, TransferProperty
  <2>2. /\ q.transfer_id \in DOMAIN files'[q.dest] <=> q.transfer_id \in DOMAIN files[q.dest]
        /\ q.transfer_id \in DOMAIN files[q.dest] =>
             files'[q.dest][q.transfer_id] = files[q.dest][q.transfer_id]
    <3>1. CASE q.dest = r
      BY <3>1, <2>1, <1>5 DEF FileGrows
    <3>2. CASE q.dest # r
      BY <3>2, <2>1, <1>4
    <3> QED
      BY <3>1, <3>2
  <2>3. Untouched(q)
    BY <2>1, <2>2, <1>1, <1>2, <1>3, ReceiveUntouched
  <2>4. Content(q)' = Content(q) /\ (Closed(q)' <=> Closed(q))
    BY <2>3 DEF Untouched, Content, Closed
  <2> QED
    BY <2>3, <2>4, OthersKept
<1>9. Content(c)' = Append(Content(c), p.block)
  BY <1>1, <1>5 DEF Content, FileGrows
<1>10. /\ p.block = next
       /\ Gapless(c)'
  <2>1. chan[s][r] \in Seq(PacketSet) /\ chan'[s][r] = Tail(chan[s][r])
    BY <1>1 DEF Shape, ChanSet
  <2>2. ASSUME NEW e, Numbered(chan[s][r], t, next, e)
        PROVE  p.block = next /\ Numbered(chan'[s][r], t, next + 1, e)
    <3> DEFINE u == chan[s][r]
               b == next
    <3>1. /\ u \in Seq(PacketSet) /\ u # << >> /\ Numbered(u, t, b, e)
          /\ Head(u) = p /\ p.transfer_id = t /\ chan'[s][r] = Tail(u)
      BY <2>1, <2>2, <1>1
    <3> HIDE DEF u, b, t
    <3>2. Head(u).transfer_id = t => Head(u).block = b /\ Numbered(Tail(u), t, b + 1, e)
      BY <3>1, NumberedTail
    <3>3. p.block = b /\ Numbered(chan'[s][r], t, b + 1, e)
      BY <3>1, <3>2
    <3> QED
      BY <3>3 DEF b
  <2>3. Len(Content(c)') + 1 = next + 1
    <3>1. Content(c) \in Seq(Nat) /\ p.block \in Nat
      BY <1>1, TransferProperty DEF Filed
    <3> QED
      BY <3>1, <1>9, AppendProperties
  <2>4. \A e : Ahead(c, e) => Ahead(c, e)'
    BY <1>1, <1>3 DEF TaskSet, Ahead, Sends
  <2>5. CASE issued[c] = c.dest /\ s = c.from
    <3>1. PICK e \in Nat : Numbered(chan[s][r], t, next, e) /\ Ahead(c, e)
      BY <2>5, <1>1 DEF Gapless
    <3>2. p.block = next /\ Numbered(chan'[s][r], t, next + 1, e) /\ Ahead(c, e)'
      BY <3>1, <2>2, <2>4
    <3>3. Gapless(c)'
      BY <3>2, <2>3, <2>5, <1>1, <1>2 DEF Gapless
    <3> QED
      BY <3>2, <3>3
  <2>6. CASE issued[c] # c.dest /\ s = issued[c]
    <3>1. PICK x \in Nat : /\ Numbered(chan[s][r], t, next, x)
                           /\ s \notin dead /\ c.ttl > 1 => Behind(c, x)
      BY <2>6, <1>1 DEF Gapless
    <3>2. p.block = next /\ Numbered(chan'[s][r], t, next + 1, x)
      BY <3>1, <2>2
    <3>3. chan'[c.from][s] = chan[c.from][s] /\ task'[s] = task[s] /\ issued'[c] = s
      BY <2>6, <1>1, <1>2 DEF ChanSet
    <3>4. Behind(c, x) => Behind(c, x)'
      BY <3>3, <2>4, <2>6 DEF Behind, Holds
    <3>5. Gapless(c)'
      BY <3>1, <3>2, <3>4, <2>3, <2>6, <1>1, <1>2 DEF Gapless
    <3> QED
      BY <3>2, <3>5
  <2> QED
    BY <2>5, <2>6, <1>1
<1>11. Carried(c)'
  <2>1. \A a, b \in Routers : Travels(c, a, b, chan[a][b])'
    BY <1>1, <1>2, ReceiveTravels DEF Carried
  <2> QED
    BY <2>1, <1>1, <1>2 DEF Carried, Holds, Sends
<1>12. Filed(c)'
  <2>1. /\ Content(c) \in Seq(Nat) /\ PacketCount(c) \in Nat /\ p.block \in Nat
        /\ t \in DOMAIN files[r] =>
             /\ files[r][t].isopen \in BOOLEAN
             /\ files[r][t].isopen <=> Len(Content(c)) < PacketCount(c)
    BY <1>1, TransferProperty DEF Filed
  <2>2. Content(c)' \in Seq(Nat) /\ Len(Content(c)') = Len(Content(c)) + 1
    BY <2>1, <1>9, AppendProperties
  <2>3. Len(Content(c)') = p.block /\ Len(Content(c)') <= PacketCount(c)
        /\ Len(Content(c)) < PacketCount(c)
    BY <2>1, <2>2, <1>1, <1>10
  <2>4. files'[r][t].isopen \in BOOLEAN /\ (files'[r][t].isopen <=> ~ p.fin)
    BY <2>1, <2>3, <1>1, <1>5 DEF FileGrows
  <2>5. ~ p.fin <=> Len(Content(c)') < PacketCount(c)
    BY <2>1, <2>3, <1>1
  <2> QED
    BY <2>2, <2>3, <2>4, <2>5, <1>1, <1>2 DEF Filed
<1>13. Delivered(c)
  BY <1>8, <1>9, <1>10 DEF Delivered
<1> QED
  BY <1>1, <1>2, <1>6, <1>7, <1>8, <1>10, <1>11, <1>12, <1>13 DEF DataInv, Commanded

\* The next hop drops the packet, or keeps it to send it on.
LEMMA HopStep ==
  ASSUME DataInv, NEW s \in Routers, NEW r \in Routers, NEW p, NEW c, Arrives(s, r, p, c),
         p.dest # r, files' = files,
         \/ Aged(p).ttl = 0 /\ task' = task
         \/ /\ Aged(p).ttl # 0
            /\ task' = [task EXCEPT ![r] = [at |-> "forward", p |-> Aged(p)]]
  PROVE  DataInv'
<1> DEFINE t == c.transfer_id
           a == Aged(p)
           n == IF a.ttl = 0 THEN Idle ELSE [at |-> "forward", p |-> a]
<1>1. /\ Shape /\ Links /\ Commanded /\ Carried(c) /\ Filed(c) /\ Gapless(c)
      /\ chan[s][r] # << >> /\ Head(chan[s][r]) = p /\ ChanSet(s, r, Tail(chan[s][r]))
      /\ p \in PacketSet /\ c \in Transfers /\ p.transfer_id = t /\ PacketFor(c, p)
      /\ c.dest # r /\ r \notin dead /\ c \in DOMAIN issued /\ task[r] = Idle
      /\ c.from \in Routers /\ c.dest \in Routers
      /\ s = c.from /\ issued[c] = r /\ p.ttl = c.ttl
      /\ UNCHANGED <<up, dead, sock, issued>>
  BY DEF Arrives, PacketFor
<1>2. /\ a \in PacketSet /\ a.transfer_id = t /\ a.block = p.block /\ PacketFor(c, a)
      /\ (a.ttl = 0 <=> c.ttl <= 1)
  BY <1>1, AgedProperty DEF PacketFor
<1> HIDE DEF a
<1>3. TaskSet(r, n)
  <2>1. task \in [Routers -> {Idle} \cup SendTask \cup ForwardTask]
    BY <1>1 DEF Shape
  <2>2. n \in {Idle} \cup ForwardTask
    BY <1>2 DEF ForwardTask
  <2>3. (task' = task /\ n = task[r]) \/ task' = [task EXCEPT ![r] = n]
    BY <1>1 DEF a
  <2> HIDE DEF n
  <2> QED
    BY <2>1, <2>2, <2>3 DEF TaskSet
<1>4. /\ \A q : ~ Holds(r, q) /\ ~ Sends(r, q) /\ ~ Sends(r, q)'
      /\ \A q : Holds(r, q)' => q.transfer_id = t /\ a.ttl # 0 /\ task'[r].p = a
      /\ a.ttl # 0 => Holds(r, c)' /\ task'[r].p = a
      /\ \A x \in Routers : x # r => task'[x] = task[x]
  <2>1. \A q : ~ Holds(r, q) /\ ~ Sends(r, q)
    BY <1>1 DEF Holds, Sends, Idle
  <2>2. task'[r] = n /\ \A x \in Routers : x # r => task'[x] = task[x]
    BY <1>3 DEF TaskSet
  <2>3. CASE a.ttl = 0
    BY <2>1, <2>2, <2>3 DEF Holds, Sends, Idle
  <2>4. CASE a.ttl # 0
    BY <2>1, <2>2, <2>4, <1>2 DEF Holds, Sends
  <2> QED
    BY <2>3, <2>4
<1>5. Shape' /\ Links'
  <2>1. files' = [x \in Routers |-> files'[x]]
    BY <1>1 DEF Shape
  <2> HIDE DEF n
  <2> QED
    BY <2>1, <1>1, <1>3, ReceiveLinks
<1>6. Commanded'
  BY <1>1 DEF Commanded
<1>7. ASSUME NEW q \in Transfers, q # c
      PROVE  Carried(q)' /\ Filed(q)' /\ (q \in DOMAIN issued' => Gapless(q)')
  <2>1. q.transfer_id # t
    BY <1>1, <1>7, TransferProperty
  <2>2. ~ Sends(r, q) /\ ~ Holds(r, q) /\ ~ Sends(r, q)' /\ ~ Holds(r, q)'
    BY <2>1, <1>4
  <2> HIDE DEF n
  <2>3. Untouched(q)
    BY <2>1, <2>2, <1>1, <1>3, ReceiveUntouched
  <2> QED
    BY <2>3, OthersKept
<1>8. Carried(c)'
  <2>1. \A x, y \in Routers : Travels(c, x, y, chan[x][y])'
    BY <1>1, ReceiveTravels DEF Carried
  <2>2. ASSUME NEW x \in Routers, Holds(x, c)'
        PROVE  /\ c \in DOMAIN issued' /\ issued'[c] = x /\ x # c.dest
               /\ PacketFor(c, task'[x].p) /\ c.ttl > 1
    <3>1. CASE x = r
      <4>1. a.ttl # 0 /\ task'[r].p = a
        BY <3>1, <2>2, <1>4
      <4>2. c.ttl > 1
        BY <4>1, <1>1, <1>2, TransferProperty
      <4> QED
        BY <4>1, <4>2, <3>1, <1>1, <1>2
    <3>2. CASE x # r
      <4>1. task'[x] = task[x] /\ Holds(x, c)
        BY <3>2, <2>2, <1>4 DEF Holds
      <4> QED
        BY <4>1, <1>1 DEF Carried
    <3> QED
      BY <3>1, <3>2
  <2>3. ASSUME NEW x \in Routers, Sends(x, c)'
        PROVE  /\ c \in DOMAIN issued' /\ c.from = x
               /\ task'[x].to = issued'[c] /\ task'[x].k \in 1 .. PacketCount(c)
    <3>1. x # r /\ task'[x] = task[x] /\ Sends(x, c)
      BY <2>3, <1>4 DEF Sends
    <3> QED
      BY <3>1, <1>1 DEF Carried
  <2> QED
    BY <2>1, <2>2, <2>3 DEF Carried
<1>9. Filed(c)' /\ Content(c)' = Content(c)
  <2>1. Content(c)' = Content(c)
    BY DEF Content
  <2> QED
    BY <2>1, <1>1 DEF Filed
<1>10. Gapless(c)'
  <2> DEFINE next == Len(Content(c)) + 1
             u == chan[s][r]
  <2>1. issued'[c] = r /\ dead' = dead /\ Content(c)' = Content(c)
    BY <1>1, <1>9
  <2>2. CASE c.dest \in dead
    BY <2>1, <2>2 DEF Gapless
  <2>3. CASE c.dest \notin dead
    <3>1. PICK x \in Nat : /\ Numbered(chan[r][c.dest], t, next, x)
                           /\ c.ttl > 1 => Behind(c, x)
      BY <2>3, <1>1 DEF Gapless
    <3>2. chan'[r][c.dest] = chan[r][c.dest]
      BY <1>1 DEF ChanSet, Shape
    <3>3. ASSUME c.ttl > 1, Behind(c, x) PROVE Behind(c, x)'
      <4>1. PICK e \in Nat : Ahead(c, e) /\ Numbered(u, t, x, e)
        BY <3>3, <1>1, <1>4 DEF Behind
      <4>2. Ahead(c, e)'
        BY <4>1, <1>1, <1>4 DEF Ahead, Sends
      <4>3. u \in Seq(PacketSet) /\ chan'[s][r] = Tail(u) /\ u # << >>
            /\ Head(u) = p /\ p.transfer_id = t
        BY <1>1 DEF Shape, ChanSet
      <4> HIDE DEF u, t
      <4>4. Head(u).block = x /\ Numbered(Tail(u), t, x + 1, e)
        BY <4>1, <4>3, NumberedTail
      <4>5. p.block = x /\ Numbered(chan'[s][r], t, x + 1, e)
        BY <4>3, <4>4
      <4>6. a.ttl # 0
        BY <3>3, <1>1, <1>2, TransferProperty
      <4>7. Holds(r, c)' /\ task'[r].p.block = x
        BY <4>5, <4>6, <1>2, <1>4
      <4> QED
        BY <4>2, <4>5, <4>7, <2>1, <1>1 DEF Behind, t
    <3> QED
      BY <3>1, <3>2, <3>3, <2>1, <1>1 DEF Gapless
  <2> QED
    BY <2>2, <2>3
<1> QED
  BY <1>1, <1>5, <1>6, <1>7, <1>8, <1>9, <1>10 DEF DataInv, Commanded

\* What the handler of the data port does with the packet it reads.
LEMMA ReceiveStep ==
  ASSUME DataInv, NEW s \in Routers, NEW r \in Routers, Receive(s, r)
  PROVE  \E p, c :
           /\ Arrives(s, r, p, c) /\ DataInv'
           /\ \/ files' = files
              \/ Delivered(c)
<1>1. PICK p, c : Arrives(s, r, p, c)
  BY Arrival
<1>2. p = Head(chan[s][r]) /\ Aged(p).dest = p.dest
  BY <1>1, AgedProperty DEF Arrives
<1>3. \/ /\ p.dest = r
         /\ files' = [files EXCEPT ![r] = FileData(@, Aged(p))]
         /\ task' = task
      \/ /\ p.dest # r /\ files' = files
         /\ \/ Aged(p).ttl = 0 /\ task' = task
            \/ /\ Aged(p).ttl # 0
               /\ task' = [task EXCEPT ![r] = [at |-> "forward", p |-> Aged(p)]]
  BY <1>2 DEF Receive
<1>4. CASE /\ p.dest = r
           /\ files' = [files EXCEPT ![r] = FileData(@, Aged(p))]
           /\ task' = task
  <2>1. DataInv' /\ Delivered(c)
    BY <1>1, <1>4, DeliverStep
  <2> QED
    BY <2>1, <1>1, <1>4
<1>5. CASE /\ p.dest # r /\ files' = files
           /\ \/ Aged(p).ttl = 0 /\ task' = task
              \/ /\ Aged(p).ttl # 0
                 /\ task' = [task EXCEPT ![r] = [at |-> "forward", p |-> Aged(p)]]
  <2>1. DataInv'
    BY <1>1, <1>5, HopStep
  <2> QED
    BY <2>1, <1>1, <1>5
<1> QED
  BY <1>3, <1>4, <1>5

-----------------------------------------------------------------------------
(* All steps *)

LEMMA InitData ==
  ASSUME Init
  PROVE  DataInv
<1>1. \A r \in Routers : task[r] = Idle /\ DOMAIN files[r] = {}
  BY DEF Init
<1>2. DOMAIN issued = {}
  BY DEF Init
<1>3. Shape
  <2> DEFINE n == << >>
  <2>1. n \in Seq(PacketSet)
    BY EmptySeq
  <2> HIDE DEF n
  <2>2. chan = [a \in Routers |-> [b \in Routers |-> n]]
    BY DEF Init, n
  <2>3. chan \in [Routers -> [Routers -> Seq(PacketSet)]]
    BY <2>1, <2>2
  <2> QED
    BY <2>3 DEF Init, Shape, Ends
<1>4. Links
  <2>1. \A a, b \in Routers : chan[a][b] = << >> /\ sock[a][b] = "none"
    BY DEF Init
  <2>2. Len(<< >>) = 0 /\ 0 <= Room
    BY EmptySeq, NumberAssumption
  <2> QED
    BY <1>1, <2>1, <2>2 DEF Links
<1>5. Commanded
  BY <1>2 DEF Commanded
<1>6. \A r \in Routers : \A q : ~ Sends(r, q) /\ ~ Holds(r, q)
  BY <1>1 DEF Sends, Holds, Idle
<1>7. ASSUME NEW q \in Transfers
      PROVE  Carried(q) /\ Filed(q)
  <2>1. \A a, b \in Routers : Travels(q, a, b, chan[a][b])
    <3>1. \A a, b \in Routers : chan[a][b] = << >>
      BY DEF Init
    <3>2. \A a, b \in Routers : Travels(q, a, b, << >>)
      BY EmptySeq DEF Travels
    <3> QED
      BY <3>1, <3>2
  <2>2. q.transfer_id \notin DOMAIN files[q.dest] /\ PacketCount(q) \in Nat
    BY <1>1, TransferProperty
  <2>3. Content(q) \in Seq(Nat) /\ Len(Content(q)) = 0
    BY <2>2, EmptySeq DEF Content
  <2>4. Filed(q)
    BY <2>2, <2>3 DEF Filed
  <2> QED
    BY <1>6, <2>1, <2>4 DEF Carried
<1> QED
  BY <1>2, <1>3, <1>4, <1>5, <1>7 DEF DataInv

LEMMA StutterData ==
  ASSUME DataInv, UNCHANGED vars
  PROVE  DataInv'
<1>1. Shape' /\ Links' /\ Commanded'
  BY DEF DataInv, vars, Shape, Links, Commanded
<1>2. \A q \in Transfers : Untouched(q)
  BY DEF vars, Untouched
<1> QED
  BY <1>1, <1>2, OthersKept DEF DataInv, Commanded

\* Every step keeps the invariant and either leaves all files alone, or delivers one
\* packet.
LEMMA NextData ==
  ASSUME DataInv, [Next]_vars
  PROVE  /\ DataInv'
         /\ \/ files' = files
            \/ \E s, r \in Routers : \E p, c : Arrives(s, r, p, c) /\ Delivered(c)
<1>1. ASSUME NEW r \in Routers, InitResponse(r)
      PROVE  DataInv' /\ files' = files
  BY <1>1, InitStep DEF InitResponse
<1>2. ASSUME NEW r \in Routers, CrashResponse(r)
      PROVE  DataInv' /\ files' = files
  BY <1>2, ExitStep DEF CrashResponse, Exit
<1>3. ASSUME NEW r \in Routers, SendPacket(r)
      PROVE  DataInv' /\ files' = files
  BY <1>3, SendPacketStep DEF SendPacket
<1>4. ASSUME NEW r \in Routers, Forward(r)
      PROVE  DataInv' /\ files' = files
  BY <1>4, ForwardStep DEF Forward
<1>5. ASSUME NEW r \in Routers, BrokenPipe(r)
      PROVE  DataInv' /\ files' = files
  <2>1. task[r] # Idle
    BY <1>5, TaskProperty DEF BrokenPipe, DataInv
  <2>2. r \in up
    BY <2>1 DEF DataInv, Links
  <2> QED
    BY <2>2, <1>5, ExitStep DEF BrokenPipe, Exit
<1>6. ASSUME NEW q \in Transfers, NEW to \in NextHop[q.from][q.dest], SendFile(q, to)
      PROVE  DataInv' /\ files' = files
  BY <1>6, SendFileStep DEF SendFile
<1>7. ASSUME NEW s \in Routers, NEW r \in Routers, Receive(s, r)
      PROVE  /\ DataInv'
             /\ \/ files' = files
                \/ \E p, c : Arrives(s, r, p, c) /\ Delivered(c)
  BY <1>7, ReceiveStep
<1>8. ASSUME UNCHANGED vars
      PROVE  DataInv' /\ files' = files
  BY <1>8, StutterData DEF vars
<1> QED
  BY <1>1, <1>2, <1>3, <1>4, <1>5, <1>6, <1>7, <1>8 DEF Next

\* What is under way of every transfer has no gap, whatever the routers do, and whoever
\* crashes.
THEOREM NeverAGap == Spec => []DataInv
<1>1. Init => DataInv
  BY InitData
<1>2. DataInv /\ [Next]_vars => DataInv'
  BY NextData
<1> QED
  BY <1>1, <1>2, PTL DEF Spec

\* Every variable has its type; packets are only on connections to a router that runs,
\* and only a router that runs is held in a handler.
THEOREM TypeCorrect == Spec => []TypeOK
<1>1. DataInv => TypeOK
  <2> SUFFICES ASSUME DataInv PROVE TypeOK
    OBVIOUS
  <2>1. Shape /\ Links /\ Commanded
    BY DEF DataInv
  <2>2. up \subseteq Routers /\ dead \subseteq Routers \ up
    BY <2>1 DEF Shape
  <2>3. sock \in [Routers -> [Routers -> {"none", "failed", "open", "closed", "reset"}]]
    BY <2>1 DEF Shape, Ends
  <2>4. \A a, b \in Routers : chan[a][b] \in Seq(PacketSet)
    BY <2>1 DEF Shape
  <2> QED
    BY <2>1, <2>2, <2>3, <2>4 DEF Links, Commanded, TypeOK
<1> QED
  BY <1>1, NeverAGap, PTL

\* The packet that is delivered is the one FileDelivery expects next, and the last one
\* closes the file.
LEMMA DeliveryStep ==
  ASSUME DataInv, DataInv', NEW s, NEW r, NEW p, NEW c, Arrives(s, r, p, c), Delivered(c)
  PROVE  Delivery!Next
<1> DEFINE content == [q \in Transfers |-> Content(q)]
           closed == {q \in Transfers : Closed(q)}
           k == Len(Content(c)) + 1
<1>1. c \in Transfers /\ c \in DOMAIN issued /\ Filed(c) /\ Filed(c)'
  BY DEF Arrives, DataInv
<1>2. /\ Content(c)' = Append(Content(c), k)
      /\ \A q \in Transfers : q # c => Content(q)' = Content(q) /\ (Closed(q)' <=> Closed(q))
  BY DEF Delivered
<1>3. Content(c) \in Seq(Nat) /\ Len(Content(c)') = k /\ k \in Nat \ {0}
  <2>1. Content(c) \in Seq(Nat)
    BY <1>1 DEF Filed
  <2>2. k \in Nat \ {0}
    BY <2>1
  <2> HIDE DEF k
  <2>3. Len(Append(Content(c), k)) = Len(Content(c)) + 1
    BY <2>1, <2>2, AppendProperties
  <2> QED
    BY <2>1, <2>2, <2>3, <1>2 DEF k
<1>4. PacketCount(c) \in Nat /\ k <= PacketCount(c)
  BY <1>1, <1>3, TransferProperty DEF Filed
<1>5. ~ Closed(c)
  BY <1>1, <1>3, <1>4 DEF Filed, Closed
<1>6. Closed(c)' <=> k = PacketCount(c)
  <2>1. c.transfer_id \in DOMAIN files'[c.dest]
    <3>1. Content(c)' # << >>
      BY <1>3, EmptySeq
    <3> QED
      BY <3>1 DEF Content
  <2> QED
    BY <2>1, <1>1, <1>3, <1>4 DEF Filed, Closed
<1>7. content' = [content EXCEPT ![c] = Append(@, k)]
  BY <1>1, <1>2
<1>8. closed' = IF k = PacketCount(c) THEN closed \cup {c} ELSE closed
  BY <1>1, <1>2, <1>5, <1>6
<1>9. c \notin closed /\ k = Len(content[c]) + 1
  BY <1>1, <1>5
<1> QED
  BY <1>1, <1>7, <1>8, <1>9 DEF Delivery!Next, Delivery!Deliver

\* Transfers that share connections, forwarders and receivers keep the promise of
\* FileDelivery, whatever the order, the routes and the crashes: each file grows in
\* order, without a gap, and is closed once, by its last packet.
THEOREM FilesDelivered == Spec => ImplementsDelivery
<1> DEFINE abstract == <<[q \in Transfers |-> Content(q)], {q \in Transfers : Closed(q)}>>
<1>1. Init => Delivery!Init
  <2> SUFFICES ASSUME Init PROVE Delivery!Init
    OBVIOUS
  <2>1. \A q \in Transfers : q.transfer_id \notin DOMAIN files[q.dest]
    BY TransferProperty DEF Init
  <2> QED
    BY <2>1 DEF Delivery!Init, Content, Closed
<1>2. DataInv /\ DataInv' /\ [Next]_vars => [Delivery!Next]_abstract
  <2> SUFFICES ASSUME DataInv, DataInv', [Next]_vars PROVE [Delivery!Next]_abstract
    OBVIOUS
  <2>1. CASE files' = files
    BY <2>1 DEF Content, Closed
  <2>2. ASSUME NEW s, NEW r, NEW p, NEW c, Arrives(s, r, p, c), Delivered(c)
        PROVE  [Delivery!Next]_abstract
    BY <2>2, DeliveryStep
  <2> QED
    BY <2>1, <2>2, NextData
<1> QED
  BY <1>1, <1>2, NeverAGap, PTL DEF ImplementsDelivery, Delivery!Spec, Spec

-----------------------------------------------------------------------------
(* Picking the elements of one transfer *)

\* Induction over the natural numbers, for sets.
LEMMA SetInduction ==
  ASSUME NEW S \in SUBSET Nat, 0 \in S, \A k \in S : k + 1 \in S
  PROVE  S = Nat
<1> DEFINE B == Nat \ S
           R == {ss \in Nat \X Nat : ss[1] < ss[2]}
<1> SUFFICES ASSUME B # {} PROVE FALSE
  OBVIOUS
<1>1. IsWellFoundedOn(R, Nat)
  BY NatLessThanWellFounded, Zenon DEF OpToRel
<1>2. ASSUME NEW a \in Nat, NEW b \in Nat, a < b
      PROVE  <<a, b>> \in R
  BY <1>2
<1>3. B \in SUBSET Nat
  OBVIOUS
<1> HIDE DEF R
<1>4. PICK x \in B : \A y \in B : ~ (<<y, x>> \in R)
  BY <1>1, <1>3, WFMin, Zenon
<1>5. x \in Nat /\ x # 0 /\ x \notin S
  OBVIOUS
<1>6. x - 1 \in Nat /\ x - 1 < x /\ (x - 1) + 1 = x
  BY <1>5
<1>7. x - 1 \notin B
  BY <1>2, <1>4, <1>5, <1>6
<1>8. x - 1 \in S
  BY <1>6, <1>7
<1> QED
  BY <1>5, <1>6, <1>8

\* f picks the elements of s of transfer t.
Picks(f, s, t) ==
  f = [i \in 0 .. Len(s) |-> IF i = 0 THEN << >>
                             ELSE IF s[i].transfer_id = t THEN Append(f[i-1], s[i])
                             ELSE f[i-1]]

\* Such a function exists, and its values are sequences of what is picked.
LEMMA PicksExist ==
  ASSUME NEW E, NEW s \in Seq(E), NEW t, NEW P,
         \A i \in 1 .. Len(s) : s[i].transfer_id = t => s[i] \in P
  PROVE  \E f \in [0 .. Len(s) -> Seq(P)] : Picks(f, s, t)
<1> DEFINE n == Len(s)
           Step(f, i) == f[i] = IF s[i].transfer_id = t THEN Append(f[i-1], s[i]) ELSE f[i-1]
           Begins(f, k) == /\ f \in [0 .. n -> Seq(P)]
                           /\ f[0] = << >>
                           /\ \A i \in 1 .. n : i <= k => Step(f, i)
           K == {k \in Nat : k <= n => \E f : Begins(f, k)}
<1>1. n \in Nat
  OBVIOUS
<1> HIDE DEF n
<1>2. K = Nat
  <2>1. 0 \in K
    <3> DEFINE e == << >>
    <3>1. e \in Seq(P)
      BY EmptySeq
    <3> HIDE DEF e
    <3>2. Begins([i \in 0 .. n |-> e], 0)
      BY <1>1, <3>1 DEF e
    <3> QED
      BY <3>2
  <2>2. ASSUME NEW k \in K PROVE k + 1 \in K
    <3>1. k \in Nat
      OBVIOUS
    <3> SUFFICES ASSUME k + 1 <= n PROVE \E f : Begins(f, k + 1)
      BY <3>1
    <3>2. k <= n
      BY <3>1, <1>1
    <3>3. PICK f : Begins(f, k)
      BY <3>2
    <3> DEFINE v == IF s[k + 1].transfer_id = t THEN Append(f[k], s[k + 1]) ELSE f[k]
               h == [f EXCEPT ![k + 1] = v]
    <3>4. k \in 0 .. n /\ k + 1 \in 1 .. n /\ k + 1 \in 0 .. n /\ (k + 1) - 1 = k
      BY <3>1, <3>2, <1>1
    <3>5. f[k] \in Seq(P)
      BY <3>3, <3>4
    <3>6. v \in Seq(P)
      <4>1. CASE s[k + 1].transfer_id = t
        <5>1. s[k + 1] \in P
          BY <3>4, <4>1 DEF n
        <5> QED
          BY <3>5, <4>1, <5>1, AppendProperties
      <4>2. CASE s[k + 1].transfer_id # t
        BY <3>5, <4>2
      <4> QED
        BY <4>1, <4>2
    <3> HIDE DEF v
    <3>7. h \in [0 .. n -> Seq(P)] /\ h[k + 1] = v
          /\ \A i \in 0 .. n : i # k + 1 => h[i] = f[i]
      BY <3>3, <3>4, <3>6
    <3>8. h[0] = << >>
      BY <3>1, <3>3, <3>7, <1>1
    <3> HIDE DEF h
    <3>9. ASSUME NEW i \in 1 .. n, i <= k + 1 PROVE Step(h, i)
      <4>1. CASE i = k + 1
        <5>1. h[i] = v /\ h[i - 1] = f[k]
          BY <3>1, <3>4, <3>7, <4>1
        <5> QED
          BY <4>1, <5>1 DEF v
      <4>2. CASE i # k + 1
        <5>1. i <= k /\ i \in 0 .. n /\ i - 1 \in 0 .. n /\ i - 1 # k + 1
          BY <3>1, <3>9, <4>2, <1>1
        <5>2. h[i] = f[i] /\ h[i - 1] = f[i - 1]
          BY <3>7, <4>2, <5>1
        <5>3. Step(f, i)
          BY <3>3, <5>1
        <5> QED
          BY <5>2, <5>3
      <4> QED
        BY <4>1, <4>2
    <3>10. Begins(h, k + 1)
      BY <3>7, <3>8, <3>9
    <3> QED
      BY <3>10
  <2>3. K \in SUBSET Nat
    OBVIOUS
  <2> HIDE DEF K
  <2> QED
    BY <2>1, <2>2, <2>3, SetInduction
<1>3. PICK f : Begins(f, n)
  <2>1. n \in K
    BY <1>1, <1>2
  <2> QED
    BY <2>1, <1>1
<1>4. \A i \in 0 .. n : i # 0 => i \in 1 .. n /\ i <= n
  BY <1>1
<1>5. \A i \in 0 .. n : f[i] = IF i = 0 THEN << >>
                               ELSE IF s[i].transfer_id = t THEN Append(f[i-1], s[i])
                               ELSE f[i-1]
  BY <1>3, <1>4
<1>6. f = [i \in 0 .. n |-> f[i]]
  BY <1>3
<1>7. f = [i \in 0 .. n |-> IF i = 0 THEN << >>
                            ELSE IF s[i].transfer_id = t THEN Append(f[i-1], s[i])
                            ELSE f[i-1]]
  BY <1>5, <1>6
<1> QED
  BY <1>3, <1>7 DEF Picks, n

\* There is only one such function.
LEMMA PicksUnique ==
  ASSUME NEW E, NEW s \in Seq(E), NEW t, NEW f, NEW g, Picks(f, s, t), Picks(g, s, t)
  PROVE  f = g
<1> DEFINE n == Len(s)
           A == {k \in Nat : k <= n => f[k] = g[k]}
<1>1. n \in Nat
  OBVIOUS
<1>2. /\ \A i \in 0 .. n : f[i] = IF i = 0 THEN << >>
                                  ELSE IF s[i].transfer_id = t THEN Append(f[i-1], s[i])
                                  ELSE f[i-1]
      /\ \A i \in 0 .. n : g[i] = IF i = 0 THEN << >>
                                  ELSE IF s[i].transfer_id = t THEN Append(g[i-1], s[i])
                                  ELSE g[i-1]
      /\ f = [i \in 0 .. n |-> f[i]] /\ g = [i \in 0 .. n |-> g[i]]
  BY DEF Picks
<1> HIDE DEF n
<1>3. 0 \in A
  <2>1. 0 \in 0 .. n
    BY <1>1
  <2>2. f[0] = << >> /\ g[0] = << >>
    BY <1>2, <2>1
  <2> QED
    BY <2>2
<1>4. ASSUME NEW k \in A PROVE k + 1 \in A
  <2> SUFFICES ASSUME k + 1 <= n PROVE f[k + 1] = g[k + 1]
    OBVIOUS
  <2>1. k \in Nat
    OBVIOUS
  <2> DEFINE j == k + 1
  <2>2. j \in 0 .. n /\ j # 0 /\ j - 1 = k /\ f[k] = g[k]
    BY <1>1, <2>1
  <2> HIDE DEF j
  <2>3. f[j] = IF s[j].transfer_id = t THEN Append(f[k], s[j]) ELSE f[k]
    BY <1>2, <2>2
  <2>4. g[j] = IF s[j].transfer_id = t THEN Append(g[k], s[j]) ELSE g[k]
    BY <1>2, <2>2
  <2> QED
    BY <2>2, <2>3, <2>4 DEF j
<1>5. A \in SUBSET Nat
  OBVIOUS
<1>6. A = Nat
  <2> HIDE DEF A
  <2> QED
    BY <1>3, <1>4, <1>5, SetInduction
<1>7. \A i \in 0 .. n : f[i] = g[i]
  BY <1>1, <1>6
<1> QED
  BY <1>2, <1>7

\* What Only computes.
LEMMA OnlyPicks ==
  ASSUME NEW E, NEW s \in Seq(E), NEW t, NEW f, Picks(f, s, t)
  PROVE  Only(s, t) = f[Len(s)]
<1> DEFINE c == CHOOSE g : Picks(g, s, t)
<1>1. Picks(c, s, t)
  OBVIOUS
<1>2. Only(s, t) = c[Len(s)]
  BY DEF Only, Picks
<1> HIDE DEF c
<1>3. c = f
  BY <1>1, PicksUnique
<1> QED
  BY <1>2, <1>3

\* What is picked is of the kind of the elements it picks from.
LEMMA OnlyType ==
  ASSUME NEW E, NEW s \in Seq(E), NEW t, NEW P,
         \A i \in 1 .. Len(s) : s[i].transfer_id = t => s[i] \in P
  PROVE  Only(s, t) \in Seq(P)
<1>1. PICK f \in [0 .. Len(s) -> Seq(P)] : Picks(f, s, t)
  BY PicksExist
<1>2. Only(s, t) = f[Len(s)]
  BY <1>1, OnlyPicks
<1>3. Len(s) \in 0 .. Len(s)
  OBVIOUS
<1> QED
  BY <1>1, <1>2, <1>3

\* What is picked of a concatenation.
LEMMA OnlyConcat ==
  ASSUME NEW E, NEW s \in Seq(E), NEW u \in Seq(E), NEW t
  PROVE  Only(s \o u, t) = Only(s, t) \o Only(u, t)
<1> DEFINE With(a, b) == a \o b
           Then(a, e) == Append(a, e)
<1>0. ASSUME NEW a \in Seq(E), NEW b \in Seq(E), NEW e \in E
      PROVE  Then(With(a, b), e) = With(a, Then(b, e))
  <2> DEFINE z == <<e>>
  <2>1. z \in Seq(E) /\ a \o b \in Seq(E)
    BY <1>0, ConcatProperties
  <2>2. Append(a \o b, e) = (a \o b) \o z
    BY <1>0, <2>1, AppendIsConcat
  <2>3. Append(b, e) = b \o z
    BY <1>0, AppendIsConcat
  <2> HIDE DEF z
  <2>4. (a \o b) \o z = a \o (b \o z)
    BY <1>0, <2>1, ConcatAssociative
  <2> QED
    BY <2>2, <2>3, <2>4, Zenon
<1> HIDE DEF With, Then
<1> DEFINE m == Len(s)
           n == Len(u)
           w == s \o u
<1>1. m \in Nat /\ n \in Nat
  OBVIOUS
<1>2. /\ w \in Seq(E) /\ Len(w) = m + n
      /\ \A i \in 1 .. m + n : w[i] = IF i <= m THEN s[i] ELSE u[i - m]
  BY ConcatProperties
<1>3. PICK f \in [0 .. m -> Seq(E)] : Picks(f, s, t)
  <2>1. \A i \in 1 .. Len(s) : s[i] \in E
    OBVIOUS
  <2> QED
    BY <2>1, PicksExist
<1>4. PICK g \in [0 .. n -> Seq(E)] : Picks(g, u, t)
  <2>1. \A i \in 1 .. Len(u) : u[i] \in E
    OBVIOUS
  <2> QED
    BY <2>1, PicksExist
<1>5. Only(s, t) = f[m] /\ Only(u, t) = g[n]
  BY <1>3, <1>4, OnlyPicks
<1>6. \A i \in 0 .. m : f[i] = IF i = 0 THEN << >>
                               ELSE IF s[i].transfer_id = t THEN Append(f[i-1], s[i])
                               ELSE f[i-1]
  BY <1>3 DEF Picks
<1>7. \A i \in 0 .. n : g[i] = IF i = 0 THEN << >>
                               ELSE IF u[i].transfer_id = t THEN Append(g[i-1], u[i])
                               ELSE g[i-1]
  BY <1>4 DEF Picks
<1> DEFINE h == [i \in 0 .. m + n |-> IF i <= m THEN f[i] ELSE f[m] \o g[i - m]]
<1> HIDE DEF m, n, w
<1>8. /\ \A i \in 0 .. m : h[i] = f[i]
      /\ \A i \in 0 .. n : h[m + i] = f[m] \o g[i]
  <2>1. ASSUME NEW i \in 0 .. m PROVE h[i] = f[i]
    <3>1. i \in 0 .. m + n /\ i <= m
      BY <1>1
    <3> QED
      BY <3>1
  <2>2. ASSUME NEW i \in 0 .. n PROVE h[m + i] = f[m] \o g[i]
    <3>1. m + i \in 0 .. m + n /\ (m + i) - m = i /\ (m + i <= m <=> i = 0)
      BY <1>1
    <3>2. CASE i = 0
      <4>1. g[0] = << >> /\ f[m] \in Seq(E) /\ h[m + i] = f[m]
        BY <3>1, <3>2, <1>1, <1>7
      <4> QED
        BY <3>2, <4>1, ConcatEmptySeq
    <3>3. CASE i # 0
      BY <3>1, <3>3
    <3> QED
      BY <3>2, <3>3
  <2> QED
    BY <2>1, <2>2
<1>9. ASSUME NEW i \in 0 .. m + n
      PROVE  h[i] = IF i = 0 THEN << >>
                    ELSE IF w[i].transfer_id = t THEN Append(h[i-1], w[i])
                    ELSE h[i-1]
  <2>1. CASE i = 0
    <3>1. 0 \in 0 .. m
      BY <1>1
    <3> QED
      BY <2>1, <3>1, <1>6, <1>8
  <2>2. CASE i # 0 /\ i <= m
    <3>1. i \in 0 .. m /\ i - 1 \in 0 .. m /\ i \in 1 .. m + n
      BY <2>2, <1>1
    <3>2. h[i] = f[i] /\ h[i-1] = f[i-1] /\ w[i] = s[i]
      BY <2>2, <3>1, <1>2, <1>8
    <3> QED
      BY <2>2, <3>1, <3>2, <1>6
  <2>3. CASE i # 0 /\ ~ (i <= m)
    <3> DEFINE j == i - m
    <3>1. /\ j \in 0 .. n /\ j \in 1 .. n /\ j - 1 \in 0 .. n /\ j # 0
          /\ m + j = i /\ m + (j - 1) = i - 1 /\ i \in 1 .. m + n
      BY <2>3, <1>1
    <3>2. h[i] = f[m] \o g[j] /\ h[i-1] = f[m] \o g[j-1] /\ w[i] = u[j]
      BY <2>3, <3>1, <1>2, <1>8
    <3>3. f[m] \in Seq(E) /\ g[j-1] \in Seq(E) /\ u[j] \in E
      <4>1. m \in 0 .. m
        BY <1>1
      <4>2. f[m] \in Seq(E) /\ g[j-1] \in Seq(E)
        BY <3>1, <4>1, <1>3, <1>4
      <4>3. u[j] \in E
        BY <3>1 DEF n
      <4> QED
        BY <4>2, <4>3
    <3> HIDE DEF h, j
    <3>4. Append(f[m] \o g[j-1], u[j]) = f[m] \o Append(g[j-1], u[j])
      <4>1. Then(With(f[m], g[j-1]), u[j]) = With(f[m], Then(g[j-1], u[j]))
        BY <3>3, <1>0
      <4> QED
        BY <4>1 DEF Then, With
    <3>5. g[j] = IF u[j].transfer_id = t THEN Append(g[j-1], u[j]) ELSE g[j-1]
      BY <3>1, <1>7
    <3> QED
      BY <2>3, <3>2, <3>4, <3>5
  <2> QED
    BY <2>1, <2>2, <2>3
<1>10. Picks(h, w, t)
  BY <1>2, <1>9 DEF Picks
<1>11. Only(w, t) = h[m + n]
  BY <1>2, <1>10, OnlyPicks
<1>12. h[m + n] = f[m] \o g[n]
  <2>1. n \in 0 .. n
    BY <1>1
  <2> HIDE DEF h
  <2> QED
    BY <2>1, <1>8
<1> QED
  BY <1>5, <1>11, <1>12 DEF w

\* What is picked of one element.
LEMMA OnlyOne ==
  ASSUME NEW E, NEW e \in E, NEW t
  PROVE  /\ Only(<<e>>, t) = IF e.transfer_id = t THEN <<e>> ELSE << >>
         /\ Only(<< >>, t) = << >>
<1> DEFINE v == IF e.transfer_id = t THEN Append(<< >>, e) ELSE << >>
           h == [i \in 0 .. 1 |-> IF i = 0 THEN << >> ELSE v]
           s == <<e>>
<1>1. s \in Seq(E) /\ Len(s) = 1 /\ s[1] = e
  OBVIOUS
<1>2. h[0] = << >> /\ h[1] = v
  OBVIOUS
<1> HIDE DEF s
<1>3. Picks(h, s, t)
  <2>1. \A i \in 0 .. 1 : i = 0 \/ i = 1
    OBVIOUS
  <2>2. \A i \in 0 .. 1 :
          h[i] = IF i = 0 THEN << >>
                 ELSE IF s[i].transfer_id = t THEN Append(h[i-1], s[i]) ELSE h[i-1]
    <3> HIDE DEF h
    <3>1. h[0] = << >>
      BY <1>2
    <3>2. h[1] = IF s[1].transfer_id = t THEN Append(h[0], s[1]) ELSE h[0]
      BY <1>1, <1>2
    <3> HIDE DEF v
    <3>3. ASSUME NEW i \in 0 .. 1
          PROVE  h[i] = IF i = 0 THEN << >>
                        ELSE IF s[i].transfer_id = t THEN Append(h[i-1], s[i]) ELSE h[i-1]
      <4>1. CASE i = 0
        BY <4>1, <3>1
      <4>2. CASE i = 1
        BY <4>2, <3>2
      <4> QED
        BY <4>1, <4>2, <2>1
    <3> QED
      BY <3>3
  <2> HIDE DEF v
  <2> QED
    BY <1>1, <2>2 DEF Picks
<1>4. Only(s, t) = v
  BY <1>1, <1>2, <1>3, OnlyPicks
<1>5. Append(<< >>, e) = <<e>>
  OBVIOUS
<1>6. Only(<< >>, t) = << >>
  <2> DEFINE z == << >>
             k == [i \in 0 .. 0 |-> z]
  <2>1. z \in Seq(E) /\ Len(z) = 0
    BY EmptySeq
  <2>2. k[0] = z /\ \A i \in 0 .. 0 : i = 0
    OBVIOUS
  <2>3. Picks(k, z, t)
    BY <2>1, <2>2 DEF Picks
  <2> QED
    BY <2>1, <2>2, <2>3, OnlyPicks
<1> QED
  BY <1>4, <1>5, <1>6 DEF s

\* What is picked when an element is put in front, ...
LEMMA OnlyFront ==
  ASSUME NEW E, NEW s \in Seq(E), NEW e \in E, NEW t
  PROVE  Only(<<e>> \o s, t) = IF e.transfer_id = t THEN <<e>> \o Only(s, t) ELSE Only(s, t)
<1>1. Only(<<e>> \o s, t) = Only(<<e>>, t) \o Only(s, t)
  <2> DEFINE u == <<e>>
  <2>1. u \in Seq(E)
    OBVIOUS
  <2> HIDE DEF u
  <2>2. Only(u \o s, t) = Only(u, t) \o Only(s, t)
    BY <2>1, OnlyConcat
  <2> QED
    BY <2>2 DEF u
<1>2. Only(s, t) \in Seq(E)
  <2>1. \A i \in 1 .. Len(s) : s[i] \in E
    OBVIOUS
  <2> QED
    BY <2>1, OnlyType
<1>3. << >> \o Only(s, t) = Only(s, t)
  BY <1>2, ConcatEmptySeq
<1> QED
  BY <1>1, <1>3, OnlyOne

\* ... at the end, ...
LEMMA OnlyAppend ==
  ASSUME NEW E, NEW s \in Seq(E), NEW e \in E, NEW t
  PROVE  Only(Append(s, e), t) =
           IF e.transfer_id = t THEN Append(Only(s, t), e) ELSE Only(s, t)
<1> DEFINE u == <<e>>
<1>1. u \in Seq(E) /\ Append(s, e) = s \o u
  OBVIOUS
<1>2. Only(s, t) \in Seq(E)
  <2>1. \A i \in 1 .. Len(s) : s[i] \in E
    OBVIOUS
  <2> QED
    BY <2>1, OnlyType
<1>3. Append(Only(s, t), e) = Only(s, t) \o u
  BY <1>2
<1> HIDE DEF u
<1>4. Only(s \o u, t) = Only(s, t) \o Only(u, t)
  BY <1>1, OnlyConcat
<1>5. Only(u, t) = IF e.transfer_id = t THEN u ELSE << >>
  BY OnlyOne DEF u
<1>6. Only(s, t) \o << >> = Only(s, t)
  BY <1>2, ConcatEmptySeq
<1> QED
  BY <1>1, <1>3, <1>4, <1>5, <1>6

\* ... or the first one is taken.
LEMMA OnlyTail ==
  ASSUME NEW E, NEW s \in Seq(E), s # << >>, NEW t
  PROVE  Only(s, t) = IF Head(s).transfer_id = t THEN <<Head(s)>> \o Only(Tail(s), t)
                      ELSE Only(Tail(s), t)
<1> DEFINE e == Head(s)
           r == Tail(s)
<1>1. e \in E /\ r \in Seq(E) /\ s = <<e>> \o r
  BY HeadTailProperties
<1> HIDE DEF e, r
<1>2. Only(<<e>> \o r, t) = IF e.transfer_id = t THEN <<e>> \o Only(r, t) ELSE Only(r, t)
  BY <1>1, OnlyFront
<1> QED
  BY <1>1, <1>2 DEF e, r

-----------------------------------------------------------------------------
(* What routers have recorded and what is on the way, as sequences of numbers *)

SeqNos == 0 .. SeqSpace-1
Ids == {q.transfer_id : q \in Transfers}
StatRecord == [transfer_id : Ids, ttl : Nat, seq : SeqNos]

\* What the router r has recorded of q, newest first; what is on the connection from a to
\* b of it, oldest first; and what r holds of it.
Recs(r, q) == Only(stats[r], q.transfer_id)
OnLink(a, b, q) == Only(chan[a][b], q.transfer_id)
HeldSeqs(r, q) == IF Holds(r, q) THEN <<task[r].p.seq>> ELSE << >>

\* First s, then u.  (A name of its own keeps the provers from taking a long sequence
\* apart.)
Then(s, u) == s \o u

\* Sequence numbers, as they are and newest first if s is oldest first.
Seqs(s) == [i \in 1 .. Len(s) |-> s[i].seq]
Newest(s) == Seqs(Reverse(s))

\* Concatenation, and the empty sequence.
LEMMA ThenProperty ==
  ASSUME NEW E, NEW s \in Seq(E), NEW u \in Seq(E)
  PROVE  /\ Then(s, u) \in Seq(E) /\ Len(Then(s, u)) = Len(s) + Len(u)
         /\ Len(s) \in Nat /\ Len(u) \in Nat
         /\ Then(<< >>, u) = u /\ Then(s, << >>) = s
<1>1. Len(s) \in Nat /\ Len(u) \in Nat
  OBVIOUS
<1>2. s \o u \in Seq(E) /\ Len(s \o u) = Len(s) + Len(u)
  BY ConcatProperties
<1>3. << >> \o u = u /\ s \o << >> = s
  BY ConcatEmptySeq
<1> QED
  BY <1>1, <1>2, <1>3 DEF Then

\* Three sequences one after the other, whichever two are joined first.
LEMMA ThenAssociative ==
  ASSUME NEW E, NEW s \in Seq(E), NEW u \in Seq(E), NEW v \in Seq(E)
  PROVE  Then(Then(s, u), v) = Then(s, Then(u, v))
BY ConcatAssociative DEF Then

\* The elements of Cons(e, s).
LEMMA ConsProperty ==
  ASSUME NEW E, NEW s \in Seq(E), NEW e \in E
  PROVE  /\ Cons(e, s) \in Seq(E) /\ Len(Cons(e, s)) = Len(s) + 1 /\ Len(s) \in Nat
         /\ \A i \in 1 .. Len(s) + 1 : Cons(e, s)[i] = IF i = 1 THEN e ELSE s[i-1]
<1>1. <<e>> \in Seq(E) /\ Len(<<e>>) = 1 /\ <<e>>[1] = e
  OBVIOUS
<1> DEFINE x == <<e>>
<1> HIDE DEF x
<1>2. /\ x \in Seq(E) /\ Len(x) = 1 /\ x[1] = e /\ Len(s) \in Nat
  BY <1>1 DEF x
<1>3. /\ x \o s \in Seq(E) /\ Len(x \o s) = Len(x) + Len(s)
      /\ \A i \in 1 .. Len(x) + Len(s) : (x \o s)[i] = IF i <= Len(x) THEN x[i] ELSE s[i - Len(x)]
  BY <1>2, ConcatProperties
<1>4. \A i \in 1 .. Len(s) + 1 : (x \o s)[i] = IF i = 1 THEN e ELSE s[i-1]
  <2> TAKE i \in 1 .. Len(s) + 1
  <2>1. i \in 1 .. Len(x) + Len(s) /\ (i <= Len(x) <=> i = 1) /\ i - Len(x) = i - 1
    BY <1>2
  <2> QED
    BY <1>2, <1>3, <2>1
<1> QED
  BY <1>2, <1>3, <1>4 DEF Cons, x

\* Each of them.
LEMMA ConsElement ==
  ASSUME NEW E, NEW s \in Seq(E), NEW e \in E, NEW i \in 1 .. Len(s) + 1
  PROVE  Cons(e, s)[i] = IF i = 1 THEN e ELSE s[i-1]
BY ConsProperty

\* Cons of sequence numbers.
LEMMA ConsNumbers ==
  ASSUME NEW y \in Seq(SeqNos), NEW z \in SeqNos, NEW n \in Nat, Len(y) = n
  PROVE  /\ Cons(z, y) \in Seq(SeqNos) /\ Len(Cons(z, y)) = n + 1
         /\ \A i \in 1 .. n + 1 : Cons(z, y)[i] = IF i = 1 THEN z ELSE y[i-1]
<1>1. /\ Cons(z, y) \in Seq(SeqNos) /\ Len(Cons(z, y)) = Len(y) + 1
      /\ \A i \in 1 .. Len(y) + 1 : Cons(z, y)[i] = IF i = 1 THEN z ELSE y[i-1]
  <2> DEFINE E == SeqNos
  <2>1. y \in Seq(E) /\ z \in E
    OBVIOUS
  <2> HIDE DEF E
  <2>2. Cons(z, y) \in Seq(E) /\ Len(Cons(z, y)) = Len(y) + 1
    BY <2>1, ConsProperty
  <2>3. \A i \in 1 .. Len(y) + 1 : Cons(z, y)[i] = IF i = 1 THEN z ELSE y[i-1]
    <3> TAKE i \in 1 .. Len(y) + 1
    <3> QED
      BY <2>1, ConsElement
  <2> QED
    BY <2>2, <2>3 DEF E
<1> QED
  BY <1>1

\* Cons is Then with a sequence of one element in front.
LEMMA ThenCons ==
  ASSUME NEW e, NEW s
  PROVE  Then(<<e>>, s) = Cons(e, s)
BY DEF Then, Cons

\* The elements of E have a sequence number.
HaveNumbers(E) == \A e \in E : e.seq \in SeqNos

\* Sequence numbers are as many as the elements, in the order of these or the other way
\* round.
LEMMA SeqsType ==
  ASSUME NEW E, HaveNumbers(E), NEW s \in Seq(E)
  PROVE  /\ Seqs(s) \in Seq(SeqNos) /\ Len(Seqs(s)) = Len(s) /\ Len(s) \in Nat
         /\ Newest(s) \in Seq(SeqNos) /\ Len(Newest(s)) = Len(s)
         /\ \A i \in 1 .. Len(s) : Newest(s)[i] = s[Len(s) - i + 1].seq
         /\ \A i \in 1 .. Len(s) : Seqs(s)[i] = s[i].seq
<1>1. Len(s) \in Nat /\ \A i \in 1 .. Len(s) : s[i].seq \in SeqNos
  BY DEF HaveNumbers
<1> DEFINE n == Len(s)
<1>2. /\ Reverse(s) = [i \in 1 .. n |-> s[(n - i) + 1]]
      /\ Len(Reverse(s)) = n
  BY <1>1 DEF Reverse
<1>3. \A i \in 1 .. n : n - i + 1 \in 1 .. n
  BY <1>1
<1>4. Seqs(s) = [i \in 1 .. n |-> s[i].seq]
  BY DEF Seqs
<1>5. Newest(s) = [i \in 1 .. n |-> s[(n - i) + 1].seq]
  BY <1>1, <1>2, <1>3 DEF Seqs, Newest
<1> HIDE DEF n
<1>6. n \in Nat /\ n = Len(s)
  BY <1>1 DEF n
<1>7. Seqs(s) \in Seq(SeqNos) /\ Len(Seqs(s)) = n
  BY <1>1, <1>4, <1>6
<1>8. Newest(s) \in Seq(SeqNos) /\ Len(Newest(s)) = n
  BY <1>1, <1>5, <1>6, <1>3
<1> QED
  BY <1>4, <1>5, <1>6, <1>7, <1>8

\* Of no elements there are no sequence numbers, ...
LEMMA SeqsNone ==
  Seqs(<< >>) = << >> /\ Newest(<< >>) = << >>
BY DEF Seqs, Newest, Reverse

\* ... an element in front adds its own in front, ...
LEMMA SeqsFront ==
  ASSUME NEW E, HaveNumbers(E), NEW s \in Seq(E), NEW x \in E
  PROVE  Seqs(Cons(x, s)) = Cons(x.seq, Seqs(s))
<1> DEFINE u == Cons(x, s)
           v == Cons(x.seq, Seqs(s))
           n == Len(s)
<1>1. u \in Seq(E) /\ Len(u) = n + 1 /\ n \in Nat
      /\ \A i \in 1 .. n + 1 : u[i] = IF i = 1 THEN x ELSE s[i-1]
  BY ConsProperty
<1>2. Seqs(s) \in Seq(SeqNos) /\ Len(Seqs(s)) = n /\ x.seq \in SeqNos
      /\ \A i \in 1 .. n : Seqs(s)[i] = s[i].seq
  BY SeqsType DEF HaveNumbers
<1>3. v \in Seq(SeqNos) /\ Len(v) = n + 1
      /\ \A i \in 1 .. n + 1 : v[i] = IF i = 1 THEN x.seq ELSE Seqs(s)[i-1]
  <2> DEFINE y == Seqs(s)
             z == x.seq
  <2>1. y \in Seq(SeqNos) /\ z \in SeqNos /\ Len(y) = n
    BY <1>2
  <2>0. n \in Nat
    BY <1>1
  <2> HIDE DEF y, z, n
  <2>2. /\ Cons(z, y) \in Seq(SeqNos) /\ Len(Cons(z, y)) = n + 1
        /\ \A i \in 1 .. n + 1 : Cons(z, y)[i] = IF i = 1 THEN z ELSE y[i-1]
    BY <2>0, <2>1, ConsNumbers
  <2> QED
    BY <2>1, <2>2 DEF y, z
<1> HIDE DEF u, v, n
<1>4. Seqs(u) \in Seq(SeqNos) /\ Len(Seqs(u)) = n + 1
      /\ \A i \in 1 .. n + 1 : Seqs(u)[i] = u[i].seq
  BY <1>1, SeqsType
<1>5. \A i \in 1 .. n + 1 : Seqs(u)[i] = v[i]
  <2> TAKE i \in 1 .. n + 1
  <2>1. CASE i = 1
    BY <2>1, <1>1, <1>3, <1>4
  <2>2. CASE i # 1
    <3>1. i - 1 \in 1 .. n
      BY <2>2, <1>1
    <3>2. Seqs(u)[i] = u[i].seq /\ u[i] = s[i-1]
      BY <2>2, <1>1, <1>4
    <3>3. v[i] = Seqs(s)[i-1] /\ Seqs(s)[i-1] = s[i-1].seq
      BY <2>2, <3>1, <1>2, <1>3
    <3> QED
      BY <3>2, <3>3
  <2> QED
    BY <2>1, <2>2
<1>6. Seqs(u) = v
  BY <1>3, <1>4, <1>5, SeqEqual
<1> QED
  BY <1>6 DEF u, v

\* ... or at the end if the newest comes first, ...
LEMMA NewestFront ==
  ASSUME NEW E, HaveNumbers(E), NEW s \in Seq(E), NEW x \in E
  PROVE  Newest(Cons(x, s)) = Then(Newest(s), <<x.seq>>)
<1> DEFINE u == Cons(x, s)
           v == Then(Newest(s), <<x.seq>>)
           n == Len(s)
<1>1. u \in Seq(E) /\ Len(u) = n + 1 /\ n \in Nat
      /\ \A i \in 1 .. n + 1 : u[i] = IF i = 1 THEN x ELSE s[i-1]
  BY ConsProperty
<1>2. Newest(s) \in Seq(SeqNos) /\ Len(Newest(s)) = n /\ x.seq \in SeqNos
      /\ \A i \in 1 .. n : Newest(s)[i] = s[n - i + 1].seq
  BY SeqsType DEF HaveNumbers
<1>3. v \in Seq(SeqNos) /\ Len(v) = n + 1
      /\ \A i \in 1 .. n + 1 : v[i] = IF i = n + 1 THEN x.seq ELSE Newest(s)[i]
  <2> DEFINE y == Newest(s)
             z == x.seq
  <2> HIDE DEF y, z, n
  <2>1. y \in Seq(SeqNos) /\ z \in SeqNos /\ Len(y) = n /\ n \in Nat
    BY <1>1, <1>2 DEF y, z
  <2>2. /\ y \o <<z>> \in Seq(SeqNos) /\ Len(y \o <<z>>) = n + 1
        /\ \A i \in 1 .. n + 1 : (y \o <<z>>)[i] = IF i = n + 1 THEN z ELSE y[i]
    BY <2>1
  <2> QED
    BY <2>2 DEF y, z, Then
<1> HIDE DEF u, v, n
<1>4. Newest(u) \in Seq(SeqNos) /\ Len(Newest(u)) = n + 1
      /\ \A i \in 1 .. n + 1 : Newest(u)[i] = u[(n + 1) - i + 1].seq
  <2>1. /\ Newest(u) \in Seq(SeqNos) /\ Len(Newest(u)) = Len(u)
        /\ \A i \in 1 .. Len(u) : Newest(u)[i] = u[Len(u) - i + 1].seq
    BY <1>1, SeqsType
  <2> QED
    BY <2>1, <1>1
<1>5. \A i \in 1 .. n + 1 : Newest(u)[i] = v[i]
  <2> TAKE i \in 1 .. n + 1
  <2>1. CASE i = n + 1
    <3>1. 1 \in 1 .. n + 1 /\ (n + 1) - i + 1 = 1
      BY <2>1, <1>1
    <3> QED
      BY <2>1, <3>1, <1>1, <1>3, <1>4
  <2>2. CASE i # n + 1
    <3>1. /\ i \in 1 .. n /\ (n + 1) - i + 1 \in 1 .. n + 1 /\ (n + 1) - i + 1 # 1
          /\ (n + 1) - i + 1 - 1 = n - i + 1
      BY <2>2, <1>1
    <3>2. Newest(u)[i] = u[(n + 1) - i + 1].seq /\ u[(n + 1) - i + 1] = s[n - i + 1]
      BY <3>1, <1>1, <1>4
    <3>3. v[i] = Newest(s)[i] /\ Newest(s)[i] = s[n - i + 1].seq
      BY <2>2, <3>1, <1>2, <1>3
    <3> QED
      BY <3>2, <3>3
  <2> QED
    BY <2>1, <2>2
<1>6. Newest(u) = v
  BY <1>3, <1>4, <1>5, SeqEqual
<1> QED
  BY <1>6 DEF u, v

\* ... where an element at the end is in front.
LEMMA NewestAppend ==
  ASSUME NEW E, HaveNumbers(E), NEW s \in Seq(E), NEW x \in E
  PROVE  Newest(Append(s, x)) = Cons(x.seq, Newest(s))
<1> DEFINE u == Append(s, x)
           v == Cons(x.seq, Newest(s))
           n == Len(s)
<1>1. u \in Seq(E) /\ Len(u) = n + 1 /\ n \in Nat
      /\ \A i \in 1 .. n + 1 : u[i] = IF i = n + 1 THEN x ELSE s[i]
  BY AppendProperties
<1>2. Newest(s) \in Seq(SeqNos) /\ Len(Newest(s)) = n /\ x.seq \in SeqNos
      /\ \A i \in 1 .. n : Newest(s)[i] = s[n - i + 1].seq
  BY SeqsType DEF HaveNumbers
<1>3. v \in Seq(SeqNos) /\ Len(v) = n + 1
      /\ \A i \in 1 .. n + 1 : v[i] = IF i = 1 THEN x.seq ELSE Newest(s)[i-1]
  <2> DEFINE y == Newest(s)
             z == x.seq
  <2>1. y \in Seq(SeqNos) /\ z \in SeqNos /\ Len(y) = n
    BY <1>2
  <2>0. n \in Nat
    BY <1>1
  <2> HIDE DEF y, z, n
  <2>2. /\ Cons(z, y) \in Seq(SeqNos) /\ Len(Cons(z, y)) = n + 1
        /\ \A i \in 1 .. n + 1 : Cons(z, y)[i] = IF i = 1 THEN z ELSE y[i-1]
    BY <2>0, <2>1, ConsNumbers
  <2> QED
    BY <2>1, <2>2 DEF y, z
<1> HIDE DEF u, v, n
<1>4. Newest(u) \in Seq(SeqNos) /\ Len(Newest(u)) = n + 1
      /\ \A i \in 1 .. n + 1 : Newest(u)[i] = u[(n + 1) - i + 1].seq
  <2>1. /\ Newest(u) \in Seq(SeqNos) /\ Len(Newest(u)) = Len(u)
        /\ \A i \in 1 .. Len(u) : Newest(u)[i] = u[Len(u) - i + 1].seq
    BY <1>1, SeqsType
  <2> QED
    BY <2>1, <1>1
<1>5. \A i \in 1 .. n + 1 : Newest(u)[i] = v[i]
  <2> TAKE i \in 1 .. n + 1
  <2>1. CASE i = 1
    <3>1. n + 1 \in 1 .. n + 1 /\ (n + 1) - i + 1 = n + 1
      BY <2>1, <1>1
    <3> QED
      BY <2>1, <3>1, <1>1, <1>3, <1>4
  <2>2. CASE i # 1
    <3>1. /\ i - 1 \in 1 .. n /\ (n + 1) - i + 1 \in 1 .. n + 1 /\ (n + 1) - i + 1 # n + 1
          /\ n - (i - 1) + 1 = (n + 1) - i + 1
      BY <2>2, <1>1
    <3>2. Newest(u)[i] = u[(n + 1) - i + 1].seq /\ u[(n + 1) - i + 1] = s[(n + 1) - i + 1]
      BY <3>1, <1>1, <1>4
    <3>3. v[i] = Newest(s)[i-1] /\ Newest(s)[i-1] = s[(n + 1) - i + 1].seq
      BY <2>2, <3>1, <1>2, <1>3
    <3> QED
      BY <3>2, <3>3
  <2> QED
    BY <2>1, <2>2
<1>6. Newest(u) = v
  BY <1>3, <1>4, <1>5, SeqEqual
<1> QED
  BY <1>6 DEF u, v

-----------------------------------------------------------------------------
(* That the answers of two routers agree, as an invariant *)

\* The ttl with which r records q, and with which q goes from a to b.
TtlAt(q, r) ==
  {l \in Nat : /\ q \in DOMAIN issued
               /\ \/ r = q.from /\ l = q.ttl
                  \/ r = issued[q] /\ l = q.ttl - 1
                  \/ issued[q] # q.dest /\ r = q.dest /\ l = q.ttl - 2}
TtlOn(q, a, b) ==
  {l \in Nat : /\ q \in DOMAIN issued
               /\ \/ a = q.from /\ b = issued[q] /\ l = q.ttl
                  \/ issued[q] # q.dest /\ a = issued[q] /\ b = q.dest /\ l = q.ttl - 1}

RecordsAt(q, r) == [transfer_id : {q.transfer_id}, ttl : TtlAt(q, r), seq : SeqNos]
PacketsOn(q, a, b) ==
  {p \in PacketSet : p.transfer_id = q.transfer_id /\ p.ttl \in TtlOn(q, a, b)}

\* Every record and every packet of q has the ttl its place says.
Marked(q) ==
  /\ \A r \in Routers : Recs(r, q) \in Seq(RecordsAt(q, r))
  /\ \A a, b \in Routers : OnLink(a, b, q) \in Seq(PacketsOn(q, a, b))
  /\ \A r \in Routers : Holds(r, q) => task[r].p.ttl = q.ttl - 1

\* The next hop has not recorded more than the source has, and the source no more than
\* it has packets to send.
Bounded(q) ==
  /\ Len(Recs(issued[q], q)) + Len(OnLink(q.from, issued[q], q)) <= Len(Recs(q.from, q))
  /\ Len(Recs(q.from, q)) <= PacketCount(q)
  /\ Sends(q.from, q) => Len(Recs(q.from, q)) = task[q.from].k - 1

\* What the source has recorded is on the way to the next hop, or recorded there ...
FirstHop(q) ==
  q.ttl > 0 /\ q.from \notin dead /\ issued[q] \notin dead =>
    Seqs(Recs(q.from, q)) =
      Then(Newest(OnLink(q.from, issued[q], q)), Seqs(Recs(issued[q], q)))

\* ... and what the next hop has recorded is in its hands, on the way to the destination,
\* or recorded there.
SecondHop(q) ==
  q.ttl > 1 /\ issued[q] # q.dest /\ issued[q] \notin dead /\ q.dest \notin dead =>
    Seqs(Recs(issued[q], q)) =
      Then(Then(HeldSeqs(issued[q], q), Newest(OnLink(issued[q], q.dest, q))),
           Seqs(Recs(q.dest, q)))

Told(q) == q \in DOMAIN issued /\ q.from # q.dest =>
             Bounded(q) /\ FirstHop(q) /\ SecondHop(q)

HopInv ==
  /\ stats \in [Routers -> Seq(StatRecord)]
  /\ \A q \in Transfers : Marked(q) /\ Told(q)

-----------------------------------------------------------------------------
(* Records and packets come and go *)

\* The record of the packet p.
RecordOf(p) == [transfer_id |-> p.transfer_id, ttl |-> p.ttl, seq |-> p.seq]

\* The router r records p, the others nothing.
Recorded(r, p) ==
  /\ stats' \in [Routers -> Seq(StatRecord)]
  /\ \A q \in Transfers : \A b \in Routers :
       Recs(b, q)' = IF b = r /\ p.transfer_id = q.transfer_id
                     THEN Cons(RecordOf(p), Recs(b, q)) ELSE Recs(b, q)

\* The packet p is sent, and taken, from a to b.
Put(a, b, p) ==
  \A q \in Transfers : \A x, y \in Routers :
    OnLink(x, y, q)' = IF x = a /\ y = b /\ p.transfer_id = q.transfer_id
                       THEN Append(OnLink(x, y, q), p) ELSE OnLink(x, y, q)
Taken(a, b, p) ==
  \A q \in Transfers : \A x, y \in Routers :
    OnLink(x, y, q) = IF x = a /\ y = b /\ p.transfer_id = q.transfer_id
                      THEN Cons(p, OnLink(x, y, q)') ELSE OnLink(x, y, q)'

\* What is picked of s is picked of the same set.
LEMMA SeqOfAll ==
  ASSUME NEW E, NEW s \in Seq(E), NEW t
  PROVE  Only(s, t) \in Seq(E)
<1>1. \A i \in 1 .. Len(s) : s[i].transfer_id = t => s[i] \in E
  OBVIOUS
<1> QED
  BY <1>1, OnlyType

\* What is picked are records, ...
LEMMA RecsType ==
  ASSUME stats \in [Routers -> Seq(StatRecord)], NEW r \in Routers, NEW q
  PROVE  Recs(r, q) \in Seq(StatRecord)
<1>1. stats[r] \in Seq(StatRecord)
  OBVIOUS
<1> QED
  BY <1>1, SeqOfAll DEF Recs

\* ... and packets, ...
LEMMA OnLinkType ==
  ASSUME Shape, NEW a \in Routers, NEW b \in Routers, NEW q
  PROVE  OnLink(a, b, q) \in Seq(PacketSet)
<1>1. chan[a][b] \in Seq(PacketSet)
  BY DEF Shape
<1> QED
  BY <1>1, SeqOfAll DEF OnLink

\* ... which both have a sequence number.
LEMMA HaveSeq ==
  /\ \A e \in PacketSet : e.seq \in SeqNos
  /\ HaveNumbers(PacketSet) /\ HaveNumbers(StatRecord)
BY DEF PacketSet, StatRecord, SeqNos, HaveNumbers

\* What adding a record at the head of the list does to what is picked of it, ...
LEMMA RecordEffect ==
  ASSUME stats \in [Routers -> Seq(StatRecord)], NEW r \in Routers, NEW p \in PacketSet,
         stats' = [stats EXCEPT ![r] = Record(@, p)]
  PROVE  Recorded(r, p)
<1> DEFINE x == RecordOf(p)
           u == Cons(x, stats[r])
<1>1. x \in StatRecord
  BY DEF RecordOf, StatRecord, PacketSet, Ids, SeqNos
<1>2. stats' = [stats EXCEPT ![r] = u]
  BY DEF Record, Cons, RecordOf
<1>3. stats[r] \in Seq(StatRecord)
  OBVIOUS
<1> HIDE DEF x
<1>4. u \in Seq(StatRecord)
  BY <1>1, <1>3, ConsProperty
<1> HIDE DEF u
<1>5. stats' \in [Routers -> Seq(StatRecord)]
  BY <1>2, <1>4
<1>6. ASSUME NEW q \in Transfers, NEW b \in Routers
      PROVE  Recs(b, q)' = IF b = r /\ p.transfer_id = q.transfer_id
                           THEN Cons(x, Recs(b, q)) ELSE Recs(b, q)
  <2>1. CASE b # r
    BY <2>1, <1>2 DEF Recs
  <2>2. CASE b = r
    <3>1. stats'[r] = u
      BY <1>2
    <3>2. Only(u, q.transfer_id) = IF x.transfer_id = q.transfer_id
                                   THEN Cons(x, Only(stats[r], q.transfer_id))
                                   ELSE Only(stats[r], q.transfer_id)
      BY <1>1, <1>3, OnlyFront DEF u, Cons
    <3>3. x.transfer_id = p.transfer_id
      BY DEF x, RecordOf
    <3> QED
      BY <2>2, <3>1, <3>2, <3>3 DEF Recs
  <2> QED
    BY <2>1, <2>2
<1> QED
  BY <1>5, <1>6 DEF Recorded, x

\* ... what sending a packet does to what is picked of the connection, ...
LEMMA PutEffect ==
  ASSUME Shape, NEW a \in Routers, NEW b \in Routers, NEW p \in PacketSet,
         ChanSet(a, b, Append(chan[a][b], p))
  PROVE  Put(a, b, p)
<1>1. chan[a][b] \in Seq(PacketSet) /\ chan'[a][b] = Append(chan[a][b], p)
  BY DEF Shape, ChanSet
<1>2. ASSUME NEW q \in Transfers, NEW x \in Routers, NEW y \in Routers
      PROVE  OnLink(x, y, q)' = IF x = a /\ y = b /\ p.transfer_id = q.transfer_id
                                THEN Append(OnLink(x, y, q), p) ELSE OnLink(x, y, q)
  <2>1. CASE x # a \/ y # b
    BY <2>1 DEF OnLink, ChanSet
  <2>2. CASE x = a /\ y = b
    <3>1. Only(Append(chan[a][b], p), q.transfer_id) =
            IF p.transfer_id = q.transfer_id
            THEN Append(Only(chan[a][b], q.transfer_id), p)
            ELSE Only(chan[a][b], q.transfer_id)
      BY <1>1, OnlyAppend
    <3> QED
      BY <2>2, <3>1, <1>1 DEF OnLink
  <2> QED
    BY <2>1, <2>2
<1> QED
  BY <1>2 DEF Put

\* ... and what taking its first packet does.
LEMMA TakenEffect ==
  ASSUME Shape, NEW a \in Routers, NEW b \in Routers, chan[a][b] # << >>,
         ChanSet(a, b, Tail(chan[a][b]))
  PROVE  Taken(a, b, Head(chan[a][b]))
<1> DEFINE p == Head(chan[a][b])
<1>1. chan[a][b] \in Seq(PacketSet) /\ chan'[a][b] = Tail(chan[a][b])
  BY DEF Shape, ChanSet
<1>2. ASSUME NEW q \in Transfers, NEW x \in Routers, NEW y \in Routers
      PROVE  OnLink(x, y, q) = IF x = a /\ y = b /\ p.transfer_id = q.transfer_id
                               THEN Cons(p, OnLink(x, y, q)') ELSE OnLink(x, y, q)'
  <2>1. CASE x # a \/ y # b
    BY <2>1 DEF OnLink, ChanSet
  <2>2. CASE x = a /\ y = b
    <3>1. Only(chan[a][b], q.transfer_id) =
            IF p.transfer_id = q.transfer_id
            THEN Cons(p, Only(Tail(chan[a][b]), q.transfer_id))
            ELSE Only(Tail(chan[a][b]), q.transfer_id)
      BY <1>1, OnlyTail DEF Cons
    <3> HIDE DEF p
    <3> QED
      BY <2>2, <3>1, <1>1 DEF OnLink
  <2> QED
    BY <2>1, <2>2
<1> QED
  BY <1>2 DEF Taken

\* Sequences over P, when an element of P is added, ...
LEMMA SeqsOf ==
  ASSUME NEW P, NEW x \in P
  PROVE  /\ << >> \in Seq(P)
         /\ \A s \in Seq(P) : Cons(x, s) \in Seq(P) /\ Append(s, x) \in Seq(P)
<1>1. \A s \in Seq(P) : Cons(x, s) \in Seq(P)
  BY ConsProperty
<1>2. \A s \in Seq(P) : Append(s, x) \in Seq(P)
  BY AppendProperties
<1> QED
  BY <1>1, <1>2, EmptySeq

\* ... or taken.
LEMMA BackOf ==
  ASSUME NEW P, NEW E, NEW x \in E, NEW s \in Seq(E), Cons(x, s) \in Seq(P)
  PROVE  x \in P /\ s \in Seq(P)
<1> DEFINE u == Cons(x, s)
           n == Len(s)
<1>1. Len(u) = n + 1 /\ n \in Nat /\ \A i \in 1 .. n + 1 : u[i] = IF i = 1 THEN x ELSE s[i-1]
  BY ConsProperty
<1>2. u \in Seq(P)
  OBVIOUS
<1> HIDE DEF u
<1>3. \A i \in 1 .. n + 1 : u[i] \in P
  BY <1>1, <1>2, ElementOfSeq
<1>4. x \in P
  BY <1>1, <1>3
<1>5. \A i \in 1 .. n : s[i] \in P
  <2> TAKE i \in 1 .. n
  <2> DEFINE j == i + 1
  <2>1. j \in 1 .. n + 1 /\ j # 1 /\ j - 1 = i
    BY <1>1
  <2> HIDE DEF j
  <2>2. u[j] = s[j-1] /\ u[j] \in P
    BY <2>1, <1>1, <1>3
  <2> QED
    BY <2>1, <2>2
<1>6. s \in Seq(P)
  BY <1>5
<1> QED
  BY <1>4, <1>6

-----------------------------------------------------------------------------
(* A transfer of which everything stays *)

\* The transfer q goes where it went.
SamePath(q) ==
  /\ q \in DOMAIN issued' <=> q \in DOMAIN issued
  /\ q \in DOMAIN issued => issued'[q] = issued[q]

\* Then its packets and records have the same ttl everywhere.
LEMMA SameMarks ==
  ASSUME NEW q \in Transfers, SamePath(q)
  PROVE  /\ \A r : RecordsAt(q, r)' = RecordsAt(q, r)
         /\ \A a, b : PacketsOn(q, a, b)' = PacketsOn(q, a, b)
<1>1. \A r : TtlAt(q, r)' = TtlAt(q, r)
  <2>1. CASE q \in DOMAIN issued
    BY <2>1 DEF SamePath, TtlAt
  <2>2. CASE q \notin DOMAIN issued
    BY <2>2 DEF SamePath, TtlAt
  <2> QED
    BY <2>1, <2>2
<1>2. \A a, b : TtlOn(q, a, b)' = TtlOn(q, a, b)
  <2>1. CASE q \in DOMAIN issued
    BY <2>1 DEF SamePath, TtlOn
  <2>2. CASE q \notin DOMAIN issued
    BY <2>2 DEF SamePath, TtlOn
  <2> QED
    BY <2>1, <2>2
<1> QED
  BY <1>1, <1>2 DEF RecordsAt, PacketsOn

\* Packets and records of q have the ttl their places say, if those that are new do.
LEMMA MarkedStep ==
  ASSUME Shape', NEW q \in Transfers, Marked(q), SamePath(q),
         \A r \in Routers :
           \/ Recs(r, q)' = Recs(r, q)
           \/ \E x \in RecordsAt(q, r) : Recs(r, q)' = Cons(x, Recs(r, q)),
         \A a, b \in Routers :
           \/ OnLink(a, b, q)' = OnLink(a, b, q)
           \/ OnLink(a, b, q)' = << >>
           \/ \E x \in PacketsOn(q, a, b) : OnLink(a, b, q)' = Append(OnLink(a, b, q), x)
           \/ \E x \in PacketSet : OnLink(a, b, q) = Cons(x, OnLink(a, b, q)'),
         \A r \in Routers : Holds(r, q)' => task'[r].p.ttl = q.ttl - 1
  PROVE  Marked(q)'
<1>1. ASSUME NEW r \in Routers
      PROVE  Recs(r, q)' \in Seq(RecordsAt(q, r))
  <2>1. Recs(r, q) \in Seq(RecordsAt(q, r))
    BY DEF Marked
  <2>2. CASE Recs(r, q)' = Recs(r, q)
    BY <2>1, <2>2
  <2>3. ASSUME NEW x \in RecordsAt(q, r), Recs(r, q)' = Cons(x, Recs(r, q))
        PROVE  Recs(r, q)' \in Seq(RecordsAt(q, r))
    BY <2>1, <2>3, SeqsOf
  <2> QED
    BY <2>2, <2>3
<1>2. ASSUME NEW a \in Routers, NEW b \in Routers
      PROVE  OnLink(a, b, q)' \in Seq(PacketsOn(q, a, b))
  <2>1. OnLink(a, b, q) \in Seq(PacketsOn(q, a, b))
    BY DEF Marked
  <2>2. CASE OnLink(a, b, q)' = OnLink(a, b, q)
    BY <2>1, <2>2
  <2>3. CASE OnLink(a, b, q)' = << >>
    BY <2>3, EmptySeq
  <2>4. ASSUME NEW x \in PacketsOn(q, a, b), OnLink(a, b, q)' = Append(OnLink(a, b, q), x)
        PROVE  OnLink(a, b, q)' \in Seq(PacketsOn(q, a, b))
    BY <2>1, <2>4, SeqsOf
  <2>5. ASSUME NEW x \in PacketSet, OnLink(a, b, q) = Cons(x, OnLink(a, b, q)')
        PROVE  OnLink(a, b, q)' \in Seq(PacketsOn(q, a, b))
    <3>1. chan'[a][b] \in Seq(PacketSet)
      BY DEF Shape
    <3>2. OnLink(a, b, q)' \in Seq(PacketSet)
      BY <3>1, SeqOfAll DEF OnLink
    <3> QED
      BY <3>2, <2>1, <2>5, BackOf
  <2> QED
    BY <2>2, <2>3, <2>4, <2>5
<1> QED
  BY <1>1, <1>2, SameMarks DEF Marked

\* What a router and the connections have of the transfer stays, but for what a router
\* that is gone was to get.
Resting(q) ==
  /\ dead \subseteq dead' /\ SamePath(q)
  /\ \A r \in Routers : Recs(r, q)' = Recs(r, q)
  /\ \A a, b \in Routers : \/ OnLink(a, b, q)' = OnLink(a, b, q)
                           \/ b \in dead' /\ OnLink(a, b, q)' = << >>
  /\ \A r \in Routers : \/ task'[r] = task[r]
                        \/ /\ ~ Sends(r, q)' /\ ~ Holds(r, q)'
                           /\ ~ Holds(r, q) \/ r \in dead'

\* A transfer of which everything stays keeps the invariant.
LEMMA RestingKept ==
  ASSUME DataInv, Shape', NEW q \in Transfers, Marked(q), Told(q), Resting(q)
  PROVE  Marked(q)' /\ Told(q)'
<1>1. Marked(q)'
  <2>1. \A r \in Routers : Holds(r, q)' => task'[r].p.ttl = q.ttl - 1
    BY DEF Resting, Marked, Holds
  <2> QED
    BY <2>1, MarkedStep DEF Resting
<1>2. ASSUME q \in DOMAIN issued', q.from # q.dest
      PROVE  Bounded(q)' /\ FirstHop(q)' /\ SecondHop(q)'
  <2>1. PICK h \in Routers : q \in DOMAIN issued /\ issued[q] = h /\ issued'[q] = h
    BY <1>2 DEF Resting, SamePath, DataInv, Commanded
  <2>2. PICK a \in Routers, d \in Routers : a = q.from /\ d = q.dest /\ Shape
    BY TransferProperty DEF DataInv
  <2>3. Bounded(q) /\ FirstHop(q) /\ SecondHop(q)
    BY <2>1, <1>2 DEF Told
  <2>4. Bounded(q)'
    <3>1. OnLink(a, h, q) \in Seq(PacketSet)
      BY <2>2, OnLinkType
    <3>2. Len(OnLink(a, h, q)) \in Nat /\ Len(<< >>) = 0
      BY <3>1, EmptySeq, LenProperties
    <3>3. OnLink(a, h, q)' = OnLink(a, h, q) \/ OnLink(a, h, q)' = << >>
      BY <2>2 DEF Resting
    <3>4. Len(OnLink(a, h, q)') <= Len(OnLink(a, h, q)) /\ Len(OnLink(a, h, q)') \in Nat
      BY <3>2, <3>3
    <3>5. Recs(a, q)' = Recs(a, q) /\ Recs(h, q)' = Recs(h, q)
      BY <2>2 DEF Resting
    <3>6. Recs(a, q) \in Seq(RecordsAt(q, a)) /\ Recs(h, q) \in Seq(RecordsAt(q, h))
      BY <2>2 DEF Marked
    <3>7. Len(Recs(a, q)) \in Nat /\ Len(Recs(h, q)) \in Nat
      BY <3>6, LenProperties
    <3>8. Len(Recs(h, q)) + Len(OnLink(a, h, q)') <= Len(Recs(a, q))
      BY <2>1, <2>2, <2>3, <3>2, <3>4, <3>7 DEF Bounded
    <3>9. Sends(a, q)' => Sends(a, q) /\ task'[a].k = task[a].k
      BY <2>2 DEF Resting, Sends
    <3> QED
      BY <2>1, <2>2, <2>3, <3>5, <3>8, <3>9 DEF Bounded
  <2>5. FirstHop(q)'
    <3>1. h \notin dead' => h \notin dead /\ OnLink(a, h, q)' = OnLink(a, h, q)
      BY <2>2 DEF Resting
    <3>2. Recs(a, q)' = Recs(a, q) /\ Recs(h, q)' = Recs(h, q)
          /\ (a \notin dead' => a \notin dead)
      BY <2>2 DEF Resting
    <3> QED
      BY <2>1, <2>2, <2>3, <3>1, <3>2 DEF FirstHop
  <2>6. SecondHop(q)'
    <3>1. d \notin dead' => d \notin dead /\ OnLink(h, d, q)' = OnLink(h, d, q)
      BY <2>2 DEF Resting
    <3>2. Recs(d, q)' = Recs(d, q) /\ Recs(h, q)' = Recs(h, q)
      BY <2>2 DEF Resting
    <3>3. h \notin dead' => h \notin dead /\ HeldSeqs(h, q)' = HeldSeqs(h, q)
      BY <2>2 DEF Resting, HeldSeqs, Holds
    <3> QED
      BY <2>1, <2>2, <2>3, <3>1, <3>2, <3>3 DEF SecondHop
  <2> QED
    BY <2>4, <2>5, <2>6
<1> QED
  BY <1>1, <1>2 DEF Told

-----------------------------------------------------------------------------
(* The sequences of the invariant *)

\* The sequences the invariant is about.
LEMMA HopTypes ==
  ASSUME Shape, stats \in [Routers -> Seq(StatRecord)], NEW q
  PROVE  /\ \A r \in Routers : /\ Recs(r, q) \in Seq(StatRecord) /\ Len(Recs(r, q)) \in Nat
                               /\ Seqs(Recs(r, q)) \in Seq(SeqNos)
         /\ \A a, b \in Routers : /\ OnLink(a, b, q) \in Seq(PacketSet)
                                  /\ Len(OnLink(a, b, q)) \in Nat
                                  /\ Newest(OnLink(a, b, q)) \in Seq(SeqNos)
         /\ \A r \in Routers : HeldSeqs(r, q) \in Seq(SeqNos)
<1>1. ASSUME NEW r \in Routers
      PROVE  /\ Recs(r, q) \in Seq(StatRecord) /\ Len(Recs(r, q)) \in Nat
             /\ Seqs(Recs(r, q)) \in Seq(SeqNos)
  <2>1. Recs(r, q) \in Seq(StatRecord)
    BY RecsType
  <2> QED
    BY <2>1, HaveSeq, SeqsType
<1>2. ASSUME NEW a \in Routers, NEW b \in Routers
      PROVE  /\ OnLink(a, b, q) \in Seq(PacketSet) /\ Len(OnLink(a, b, q)) \in Nat
             /\ Newest(OnLink(a, b, q)) \in Seq(SeqNos)
  <2>1. OnLink(a, b, q) \in Seq(PacketSet)
    BY OnLinkType
  <2> QED
    BY <2>1, HaveSeq, SeqsType
<1>3. ASSUME NEW r \in Routers
      PROVE  HeldSeqs(r, q) \in Seq(SeqNos)
  <2>1. CASE Holds(r, q)
    <3>1. task[r].p \in PacketSet
      BY <2>1, TaskProperty DEF Holds, ForwardTask
    <3> DEFINE n == task[r].p.seq
    <3>2. n \in SeqNos
      BY <3>1, HaveSeq
    <3> HIDE DEF n
    <3>3. <<n>> \in Seq(SeqNos)
      BY <3>2
    <3> QED
      BY <2>1, <3>3 DEF HeldSeqs, n
  <2>2. CASE ~ Holds(r, q)
    BY <2>2, EmptySeq DEF HeldSeqs
  <2> QED
    BY <2>1, <2>2
<1> QED
  BY <1>1, <1>2, <1>3

\* The transfer finds a next hop other than the source.
LEMMA PathProperty ==
  ASSUME Commanded, NEW q \in Transfers, q \in DOMAIN issued
  PROVE  /\ issued[q] \in Routers /\ q.from \in Routers /\ q.dest \in Routers
         /\ q.from # q.dest => issued[q] # q.from
         /\ q.from = q.dest => issued[q] = q.from
<1>1. issued[q] \in NextHop[q.from][q.dest] /\ issued[q] \in Routers
  BY DEF Commanded
<1>2. IF q.dest = q.from THEN NextHop[q.from][q.dest] = {q.from}
      ELSE q.from \notin NextHop[q.from][q.dest]
  BY HopAssumption
<1> QED
  BY <1>1, <1>2, TransferProperty

\* A sequence over nothing is empty.
LEMMA NoneOf ==
  ASSUME NEW P, NEW s \in Seq(P), \A x \in P : FALSE
  PROVE  s = << >>
<1>1. Len(s) \in Nat /\ \A i \in 1 .. Len(s) : s[i] \in P
  BY LenProperties, ElementOfSeq
<1>2. Len(s) = 0
  <2> SUFFICES ASSUME Len(s) # 0 PROVE FALSE
    OBVIOUS
  <2>1. 1 \in 1 .. Len(s)
    BY <1>1
  <2> QED
    BY <2>1, <1>1
<1> QED
  BY <1>2, EmptySeq

\* What is in front of a concatenation is in front of its first part, ...
LEMMA ConsThen ==
  ASSUME NEW E, NEW e \in E, NEW u \in Seq(E), NEW v \in Seq(E)
  PROVE  Cons(e, Then(u, v)) = Then(Cons(e, u), v)
<1> DEFINE x == <<e>>
<1>1. x \in Seq(E) /\ \A y : Cons(e, y) = Then(x, y)
  BY ThenCons
<1> HIDE DEF x
<1>2. Then(x, Then(u, v)) = Then(Then(x, u), v)
  BY <1>1, ThenAssociative
<1> QED
  BY <1>1, <1>2

\* ... and what ends the first part begins the second, ...
LEMMA ThenMoves ==
  ASSUME NEW E, NEW e \in E, NEW u \in Seq(E), NEW v \in Seq(E)
  PROVE  Then(Then(u, <<e>>), v) = Then(u, Cons(e, v))
<1> DEFINE x == <<e>>
<1>1. x \in Seq(E) /\ \A y : Cons(e, y) = Then(x, y)
  BY ThenCons
<1> HIDE DEF x
<1>2. Then(Then(u, x), v) = Then(u, Then(x, v))
  BY <1>1, ThenAssociative
<1> QED
  BY <1>1, <1>2 DEF x

\* ... also if there are two before it.
LEMMA ThenMovesOn ==
  ASSUME NEW E, NEW e \in E, NEW s \in Seq(E), NEW u \in Seq(E), NEW v \in Seq(E)
  PROVE  Then(Then(s, Then(u, <<e>>)), v) = Then(Then(s, u), Cons(e, v))
<1> DEFINE x == <<e>>
<1>1. x \in Seq(E)
  OBVIOUS
<1> HIDE DEF x
<1>2. Then(s, Then(u, x)) = Then(Then(s, u), x)
  BY <1>1, ThenAssociative
<1>3. Then(s, u) \in Seq(E)
  BY ThenProperty
<1> HIDE DEF x
<1>4. Then(Then(Then(s, u), <<e>>), v) = Then(Then(s, u), Cons(e, v))
  BY <1>3, ThenMoves
<1> QED
  BY <1>2, <1>4 DEF x

-----------------------------------------------------------------------------
(* INIT, the end of a process, and SENDFILE keep the invariant *)

\* Nothing is recorded at the start.
LEMMA HopInit ==
  ASSUME Init
  PROVE  HopInv
<1>1. /\ \A r \in Routers : stats[r] = << >> /\ task[r] = Idle
      /\ \A a, b \in Routers : chan[a][b] = << >>
      /\ DOMAIN issued = {}
  BY DEF Init
<1>2. \A t : Only(<< >>, t) = << >>
  <2>1. 0 \in Nat
    OBVIOUS
  <2> QED
    BY <2>1, OnlyOne
<1>3. stats \in [Routers -> Seq(StatRecord)]
  <2> DEFINE n == << >>
  <2>1. n \in Seq(StatRecord)
    BY EmptySeq
  <2> HIDE DEF n
  <2>2. stats = [r \in Routers |-> n]
    BY DEF Init, n
  <2> QED
    BY <2>1, <2>2
<1>4. ASSUME NEW q \in Transfers
      PROVE  Marked(q) /\ Told(q)
  <2>1. /\ \A r \in Routers : Recs(r, q) = << >>
        /\ \A a, b \in Routers : OnLink(a, b, q) = << >>
    BY <1>1, <1>2 DEF Recs, OnLink
  <2>2. \A r \in Routers : ~ Holds(r, q)
    BY <1>1 DEF Holds, Idle
  <2>3. \A P : << >> \in Seq(P)
    BY EmptySeq
  <2> QED
    BY <2>1, <2>2, <2>3, <1>1 DEF Marked, Told
<1> QED
  BY <1>3, <1>4 DEF HopInv

\* Nothing happens to what the routers answer.
LEMMA HopStays ==
  ASSUME DataInv, Shape', HopInv, UNCHANGED <<dead, chan, task, stats, issued>>
  PROVE  HopInv'
<1>1. \A q \in Transfers : Resting(q)
  BY DEF Resting, SamePath, Recs, OnLink
<1>2. \A q \in Transfers : Marked(q)' /\ Told(q)'
  BY <1>1, RestingKept DEF HopInv
<1>3. stats' \in [Routers -> Seq(StatRecord)]
  BY DEF HopInv
<1> QED
  BY <1>2, <1>3 DEF HopInv

\* The end of a process takes nothing from what the others answer.
LEMMA HopExit ==
  ASSUME DataInv, Shape', HopInv, NEW r \in Routers, Exit(r)
  PROVE  HopInv'
<1>1. /\ dead' = dead \cup {r} /\ UNCHANGED <<stats, issued>> /\ TaskSet(r, Idle)
      /\ \A a, b \in Routers : chan'[a][b] = IF b = r THEN << >> ELSE chan[a][b]
  BY ExitEffect DEF DataInv
<1>2. \A t : Only(<< >>, t) = << >>
  <2>1. 0 \in Nat
    OBVIOUS
  <2> QED
    BY <2>1, OnlyOne
<1>3. ASSUME NEW q \in Transfers
      PROVE  Resting(q)
  <2>1. dead \subseteq dead' /\ SamePath(q) /\ r \in dead'
    BY <1>1 DEF SamePath
  <2>2. \A x \in Routers : Recs(x, q)' = Recs(x, q)
    BY <1>1 DEF Recs
  <2>3. \A a, b \in Routers : \/ OnLink(a, b, q)' = OnLink(a, b, q)
                              \/ b \in dead' /\ OnLink(a, b, q)' = << >>
    BY <1>1, <1>2, <2>1 DEF OnLink
  <2>4. \A x \in Routers : \/ task'[x] = task[x]
                           \/ ~ Sends(x, q)' /\ ~ Holds(x, q)' /\ x \in dead'
    BY <1>1, <2>1 DEF TaskSet, Sends, Holds, Idle
  <2> QED
    BY <2>1, <2>2, <2>3, <2>4 DEF Resting
<1>4. \A q \in Transfers : Marked(q)' /\ Told(q)'
  BY <1>3, RestingKept DEF HopInv
<1>5. stats' \in [Routers -> Seq(StatRecord)]
  BY <1>1 DEF HopInv
<1> QED
  BY <1>4, <1>5 DEF HopInv

\* A transfer begins, of which nobody has recorded anything.
LEMMA HopSendFile ==
  ASSUME DataInv, DataInv', HopInv,
         NEW c \in Transfers, NEW to \in NextHop[c.from][c.dest], SendFile(c, to)
  PROVE  HopInv'
<1>1. PICK r \in Routers :
        /\ r = c.from /\ Shape /\ Links /\ Commanded /\ Shape' /\ to \in Routers
        /\ task[r] = Idle /\ c \notin DOMAIN issued
        /\ issued' = [p \in DOMAIN issued \cup {c} |-> IF p = c THEN to ELSE issued[p]]
        /\ UNCHANGED <<dead, chan, stats>>
  BY TransferProperty DEF SendFile, DataInv
<1>2. /\ \A x \in Routers : x # r => task'[x] = task[x]
      /\ task[r].at # "forward" /\ task[r].at # "sendfile" /\ task'[r].at # "forward"
      /\ task'[r].at = "sendfile" => task'[r].q = c /\ task'[r].k = 1
  <2> DEFINE t == [at |-> "sendfile", q |-> c, to |-> to, k |-> 1]
  <2>1. Idle.at # "forward" /\ Idle.at # "sendfile"
    BY DEF Idle
  <2>2. t.at = "sendfile" /\ t.q = c /\ t.k = 1
    OBVIOUS
  <2>3. task' = task \/ task' = [task EXCEPT ![r] = t]
    BY <1>1 DEF SendFile
  <2>4. task \in [Routers -> {Idle} \cup SendTask \cup ForwardTask]
    BY <1>1 DEF Shape
  <2> HIDE DEF t
  <2> QED
    BY <1>1, <2>1, <2>2, <2>3, <2>4
<1>3. ASSUME NEW q \in Transfers, q # c
      PROVE  Resting(q)
  <2>1. SamePath(q)
    BY <1>1, <1>3 DEF SamePath
  <2>2. /\ \A x \in Routers : Recs(x, q)' = Recs(x, q)
        /\ \A a, b \in Routers : OnLink(a, b, q)' = OnLink(a, b, q)
    BY <1>1 DEF Recs, OnLink
  <2>3. \A x \in Routers :
          \/ task'[x] = task[x]
          \/ ~ Sends(x, q)' /\ ~ Holds(x, q)' /\ ~ Holds(x, q)
    BY <1>2, <1>3 DEF Sends, Holds
  <2> QED
    BY <2>1, <2>2, <2>3, <1>1 DEF Resting
<1>4. \A q \in Transfers : q # c => Marked(q)' /\ Told(q)'
  BY <1>1, <1>3, RestingKept DEF HopInv
<1>5. /\ \A x \in Routers : Recs(x, c)' = << >>
      /\ \A a, b \in Routers : OnLink(a, b, c)' = << >>
  <2>1. \A x, y : RecordsAt(c, x) = {} /\ PacketsOn(c, x, y) = {}
    BY <1>1 DEF RecordsAt, PacketsOn, TtlAt, TtlOn
  <2>2. /\ \A x \in Routers : Recs(x, c) = << >>
        /\ \A a, b \in Routers : OnLink(a, b, c) = << >>
    BY <2>1, NoneOf DEF HopInv, Marked
  <2> QED
    BY <1>1, <2>2 DEF Recs, OnLink
<1>6. Marked(c)'
  <2>1. \A P : << >> \in Seq(P)
    BY EmptySeq
  <2>2. \A x \in Routers : ~ Holds(x, c)'
    <3>1. \A x \in Routers : ~ Holds(x, c)
      BY <1>1 DEF DataInv, Carried
    <3> QED
      BY <1>2, <3>1 DEF Holds
  <2> QED
    BY <1>5, <2>1, <2>2 DEF Marked
<1>7. Told(c)'
  <2>1. issued'[c] = to /\ c.dest \in Routers
    BY <1>1, TransferProperty
  <2>2. Len(<< >>) = 0 /\ PacketCount(c) \in Nat
    BY EmptySeq, TransferProperty
  <2>3. Bounded(c)'
    <3>1. Sends(r, c)' => task'[r].k = 1
      BY <1>2 DEF Sends
    <3> QED
      BY <1>1, <1>5, <2>1, <2>2, <3>1 DEF Bounded
  <2>4. Then(<< >>, << >>) = << >>
    <3>1. << >> \in Seq(SeqNos)
      BY EmptySeq
    <3> QED
      BY <3>1, ThenProperty
  <2>5. FirstHop(c)'
    BY <1>1, <1>5, <2>1, <2>4, SeqsNone DEF FirstHop
  <2>6. SecondHop(c)'
    <3>1. HeldSeqs(to, c)' = << >>
      <4>1. ~ Holds(to, c)
        BY <1>1 DEF DataInv, Carried
      <4> QED
        BY <1>2, <4>1, <1>1 DEF Holds, HeldSeqs
    <3> QED
      BY <1>1, <1>5, <2>1, <2>4, <3>1, SeqsNone DEF SecondHop
  <2> QED
    BY <2>3, <2>5, <2>6 DEF Told
<1>8. stats' \in [Routers -> Seq(StatRecord)]
  BY <1>1 DEF HopInv
<1> QED
  BY <1>4, <1>6, <1>7, <1>8 DEF HopInv

-----------------------------------------------------------------------------
(* So does a packet that is sent, ... *)

\* The source records what it sends: its answer and what is on the way grow by the same.
LEMMA HopSendPacket ==
  ASSUME DataInv, DataInv', HopInv, NEW r \in Routers, SendPacket(r)
  PROVE  HopInv'
<1>1. PICK c \in Transfers, k \in Nat, to \in Routers, d \in Routers :
        /\ Shape /\ Links /\ Commanded /\ Shape'
        /\ task[r].at = "sendfile" /\ Sends(r, c)
        /\ task[r].q = c /\ task[r].k = k /\ task[r].to = to
        /\ c \in DOMAIN issued /\ c.from = r /\ issued[c] = to /\ k \in 1 .. PacketCount(c)
        /\ c.dest = d /\ (r # d => to # r)
  <2>1. Shape /\ Links /\ Commanded /\ Shape' /\ task[r].at = "sendfile"
    BY DEF DataInv, SendPacket
  <2>2. task[r] \in SendTask
    BY <2>1, TaskProperty
  <2>3. PICK c \in Transfers, k \in Nat, to \in Routers :
          task[r].q = c /\ task[r].k = k /\ task[r].to = to
    BY <2>2 DEF SendTask
  <2>4. Sends(r, c)
    BY <2>1, <2>3 DEF Sends
  <2>5. c \in DOMAIN issued /\ c.from = r /\ issued[c] = to /\ k \in 1 .. PacketCount(c)
    BY <2>3, <2>4 DEF DataInv, Carried
  <2>6. c.dest \in Routers /\ (r # c.dest => to # r)
    BY <2>1, <2>5, PathProperty
  <2> QED
    BY <2>1, <2>3, <2>4, <2>5, <2>6
<1>2. PICK p \in PacketSet :
        /\ p = PacketOf(c, k)
        /\ p.transfer_id = c.transfer_id /\ p.ttl = c.ttl
        /\ SendAll(r, to, p) /\ UNCHANGED <<dead, issued>>
        /\ stats' = [stats EXCEPT ![r] = Record(@, p)]
        /\ task' = [task EXCEPT ![r] =
                       IF LastPacket(c, k) THEN Idle ELSE [@ EXCEPT !.k = k + 1]]
  <2>1. PacketOf(c, k) \in PacketSet
    BY <1>1, PacketProperty DEF PacketFor
  <2> QED
    BY <2>1, <1>1, PacketProperty DEF SendPacket
<1>3. stats \in [Routers -> Seq(StatRecord)]
  BY DEF HopInv
<1>4. Recorded(r, p)
  BY <1>2, <1>3, RecordEffect
<1>5. Put(r, to, p) \/ (to \in dead /\ chan' = chan)
  <2>1. \/ /\ sock[r][to] = "open" /\ Len(chan[r][to]) < Room /\ sock' = sock
           /\ ChanSet(r, to, Append(chan[r][to], p))
        \/ /\ sock[r][to] = "closed" /\ chan' = chan
           /\ \E e \in {"closed", "reset"} : SockSet(r, to, e)
    BY <1>1, <1>2, SendEffect
  <2>2. sock[r][to] = "closed" => to \in dead
    BY <1>1 DEF Links
  <2> QED
    BY <2>1, <2>2, <1>1, PutEffect
<1>6. /\ \A x \in Routers : x # r => task'[x] = task[x]
      /\ task[r].at # "forward" /\ task'[r].at # "forward"
      /\ task'[r].at = "sendfile" => task'[r].q = c /\ task'[r].k = k + 1
  <2> DEFINE n == [task[r] EXCEPT !.k = k + 1]
             t == IF LastPacket(c, k) THEN Idle ELSE n
  <2>1. Idle.at # "forward" /\ Idle.at # "sendfile"
    BY DEF Idle
  <2>2. n.at = "sendfile" /\ n.q = c /\ n.k = k + 1
    <3>1. task[r] \in SendTask
      BY <1>1, TaskProperty
    <3> QED
      BY <3>1, <1>1 DEF SendTask
  <2> HIDE DEF n
  <2>3. /\ t.at # "forward"
        /\ t.at = "sendfile" => t.q = c /\ t.k = k + 1
    BY <2>1, <2>2
  <2>4. task' = [task EXCEPT ![r] = t]
    BY <1>2 DEF n
  <2>5. task \in [Routers -> {Idle} \cup SendTask \cup ForwardTask]
    BY <1>1 DEF Shape
  <2> HIDE DEF t
  <2> QED
    BY <1>1, <2>3, <2>4, <2>5
<1>7. ASSUME NEW q \in Transfers, q # c
      PROVE  Resting(q)
  <2>1. p.transfer_id # q.transfer_id
    BY <1>2, <1>7, TransferProperty
  <2>2. \A x \in Routers : Recs(x, q)' = Recs(x, q)
    BY <1>4, <2>1 DEF Recorded
  <2>3. \A a, b \in Routers : OnLink(a, b, q)' = OnLink(a, b, q)
    BY <1>5, <2>1 DEF Put, OnLink
  <2>4. \A x \in Routers :
          \/ task'[x] = task[x]
          \/ ~ Sends(x, q)' /\ ~ Holds(x, q)' /\ ~ Holds(x, q)
    BY <1>6, <1>7 DEF Sends, Holds
  <2> QED
    BY <2>2, <2>3, <2>4, <1>2 DEF Resting, SamePath
<1>8. \A q \in Transfers : q # c => Marked(q)' /\ Told(q)'
  BY <1>1, <1>7, RestingKept DEF HopInv
<1> DEFINE x == RecordOf(p)
<1>9. /\ \A b \in Routers : Recs(b, c)' = IF b = r THEN Cons(x, Recs(b, c)) ELSE Recs(b, c)
      /\ \A a, b \in Routers : a # r \/ b # to => OnLink(a, b, c)' = OnLink(a, b, c)
      /\ \/ OnLink(r, to, c)' = Append(OnLink(r, to, c), p)
         \/ to \in dead /\ OnLink(r, to, c)' = OnLink(r, to, c)
  <2>1. \A b \in Routers : Recs(b, c)' = IF b = r THEN Cons(x, Recs(b, c)) ELSE Recs(b, c)
    BY <1>2, <1>4 DEF Recorded
  <2>2. CASE Put(r, to, p)
    BY <1>2, <2>1, <2>2 DEF Put
  <2>3. CASE to \in dead /\ chan' = chan
    BY <2>1, <2>3 DEF OnLink
  <2> QED
    BY <2>2, <2>3, <1>5
<1>10. /\ x \in StatRecord /\ x.seq = p.seq
       /\ x \in RecordsAt(c, r) /\ p \in PacketsOn(c, r, to)
  <2>1. c.ttl \in TtlAt(c, r) /\ c.ttl \in TtlOn(c, r, to)
    BY <1>1, TransferProperty DEF TtlAt, TtlOn
  <2>2. /\ p.seq \in SeqNos /\ p.transfer_id \in Ids /\ p.ttl \in Nat
    BY <1>2, HaveSeq DEF PacketSet, Ids
  <2> QED
    BY <2>1, <2>2, <1>2 DEF RecordOf, StatRecord, RecordsAt, PacketsOn
<1> HIDE DEF x
<1>11. Marked(c) /\ Told(c) /\ SamePath(c)
  BY <1>2 DEF HopInv, SamePath
<1>12. Marked(c)'
  <2>1. \A b \in Routers : \/ Recs(b, c)' = Recs(b, c)
                           \/ \E y \in RecordsAt(c, b) : Recs(b, c)' = Cons(y, Recs(b, c))
    BY <1>9, <1>10
  <2>2. \A a, b \in Routers :
          \/ OnLink(a, b, c)' = OnLink(a, b, c)
          \/ \E y \in PacketsOn(c, a, b) : OnLink(a, b, c)' = Append(OnLink(a, b, c), y)
    BY <1>9, <1>10
  <2>3. \A b \in Routers : Holds(b, c)' => task'[b].p.ttl = c.ttl - 1
    BY <1>6, <1>11 DEF Holds, Marked
  <2>4. \A a, b \in Routers :
          \/ OnLink(a, b, c)' = OnLink(a, b, c)
          \/ OnLink(a, b, c)' = << >>
          \/ \E y \in PacketsOn(c, a, b) : OnLink(a, b, c)' = Append(OnLink(a, b, c), y)
          \/ \E y \in PacketSet : OnLink(a, b, c) = Cons(y, OnLink(a, b, c)')
    BY <2>2, Zenon
  <2>5. Shape' /\ c \in Transfers
    BY <1>1
  <2> QED
    BY <2>1, <2>3, <2>4, <2>5, <1>11, MarkedStep
<1>13. ASSUME r # d
       PROVE  Bounded(c)' /\ FirstHop(c)' /\ SecondHop(c)'
  <2>1. /\ Bounded(c) /\ FirstHop(c) /\ SecondHop(c) /\ to # r /\ issued'[c] = to
    BY <1>1, <1>2, <1>11, <1>13 DEF Told
  <2>2. /\ Recs(r, c) \in Seq(StatRecord) /\ Len(Recs(r, c)) \in Nat
        /\ Len(Recs(to, c)) \in Nat /\ Seqs(Recs(to, c)) \in Seq(SeqNos)
        /\ OnLink(r, to, c) \in Seq(PacketSet) /\ Len(OnLink(r, to, c)) \in Nat
        /\ Newest(OnLink(r, to, c)) \in Seq(SeqNos)
    BY <1>1, <1>3, HopTypes
  <2>3. Recs(r, c)' = Cons(x, Recs(r, c)) /\ Recs(to, c)' = Recs(to, c)
    BY <1>9, <2>1
  <2>4. Bounded(c)'
    <3>1. Len(Recs(r, c)') = Len(Recs(r, c)) + 1
      BY <2>2, <2>3, <1>10, ConsProperty
    <3>2. Len(OnLink(r, to, c)') \in Nat /\ Len(OnLink(r, to, c)') <= Len(OnLink(r, to, c)) + 1
      <4>1. Len(Append(OnLink(r, to, c), p)) = Len(OnLink(r, to, c)) + 1
        BY <2>2, AppendProperties
      <4> QED
        BY <4>1, <2>2, <1>9
    <3>3. /\ Len(Recs(to, c)) + Len(OnLink(r, to, c)) <= Len(Recs(r, c))
          /\ Len(Recs(r, c)) = k - 1
      BY <1>1, <2>1 DEF Bounded
    <3>4. Len(Recs(to, c)) + Len(OnLink(r, to, c)') <= Len(Recs(r, c)')
      BY <3>1, <3>2, <3>3, <2>2
    <3>5. Len(Recs(r, c)') <= PacketCount(c) /\ Len(Recs(r, c)') = (k + 1) - 1
      BY <3>1, <3>3, <1>1
    <3>6. Sends(r, c)' => task'[r].k = k + 1
      BY <1>6 DEF Sends
    <3> QED
      BY <3>4, <3>5, <3>6, <2>1, <2>3, <1>1 DEF Bounded
  <2>5. FirstHop(c)'
    <3>1. Seqs(Recs(r, c)') = Cons(p.seq, Seqs(Recs(r, c)))
      BY <2>2, <2>3, <1>10, HaveSeq, SeqsFront
    <3>2. to \notin dead =>
            Newest(OnLink(r, to, c)') = Cons(p.seq, Newest(OnLink(r, to, c)))
      BY <2>2, <1>9, HaveSeq, NewestAppend
    <3>3. Cons(p.seq, Then(Newest(OnLink(r, to, c)), Seqs(Recs(to, c)))) =
            Then(Cons(p.seq, Newest(OnLink(r, to, c))), Seqs(Recs(to, c)))
      BY <2>2, HaveSeq, ConsThen
    <3> QED
      BY <3>1, <3>2, <3>3, <2>1, <2>3, <1>1, <1>2 DEF FirstHop
  <2>6. SecondHop(c)'
    <3>1. Recs(d, c)' = Recs(d, c) /\ OnLink(to, d, c)' = OnLink(to, d, c)
      BY <1>9, <1>13, <2>1
    <3>2. HeldSeqs(to, c)' = HeldSeqs(to, c)
      BY <1>6, <2>1 DEF HeldSeqs, Holds
    <3> QED
      BY <3>1, <3>2, <2>1, <2>3, <1>1, <1>2 DEF SecondHop
  <2> QED
    BY <2>4, <2>5, <2>6
<1>14. Told(c)'
  BY <1>1, <1>13 DEF Told
<1> QED
  BY <1>4, <1>8, <1>12, <1>14 DEF HopInv, Recorded

\* The packet goes from the hands of the next hop onto its connection, and no answer changes.
LEMMA HopForward ==
  ASSUME DataInv, DataInv', HopInv, NEW r \in Routers, Forward(r)
  PROVE  HopInv'
<1>1. PICK c \in Transfers, p \in PacketSet, a \in Routers, d \in Routers :
        /\ Shape /\ Links /\ Commanded /\ Shape'
        /\ Holds(r, c) /\ task[r].p = p /\ p.transfer_id = c.transfer_id /\ p.dest = d
        /\ c \in DOMAIN issued /\ issued[c] = r /\ c.from = a /\ c.dest = d /\ c.ttl > 1
        /\ a # r /\ r # d /\ a # d
  <2>1. Shape /\ Links /\ Commanded /\ Shape' /\ task[r].at = "forward"
    BY DEF DataInv, Forward
  <2>2. task[r].p \in PacketSet
    BY <2>1, TaskProperty DEF ForwardTask
  <2>3. PICK c \in Transfers : task[r].p.transfer_id = c.transfer_id
    BY <2>2, OfTransfer
  <2>4. Holds(r, c)
    BY <2>1, <2>3 DEF Holds
  <2>5. /\ c \in DOMAIN issued /\ issued[c] = r /\ r # c.dest /\ c.ttl > 1
        /\ PacketFor(c, task[r].p)
    BY <2>4 DEF DataInv, Carried
  <2>6. c.from \in Routers /\ c.dest \in Routers /\ c.from # r /\ c.from # c.dest
    BY <2>1, <2>5, PathProperty
  <2> QED
    BY <2>1, <2>2, <2>3, <2>4, <2>5, <2>6 DEF PacketFor
<1>2. /\ SendAll(r, d, p) /\ UNCHANGED <<dead, stats, issued>>
      /\ task' = [task EXCEPT ![r] = Idle]
  BY <1>1 DEF Forward, ForwardTo
<1>3. stats \in [Routers -> Seq(StatRecord)]
  BY DEF HopInv
<1>4. Put(r, d, p) \/ (d \in dead /\ chan' = chan)
  <2>1. \/ /\ sock[r][d] = "open" /\ Len(chan[r][d]) < Room /\ sock' = sock
           /\ ChanSet(r, d, Append(chan[r][d], p))
        \/ /\ sock[r][d] = "closed" /\ chan' = chan
           /\ \E e \in {"closed", "reset"} : SockSet(r, d, e)
    BY <1>1, <1>2, SendEffect
  <2>2. sock[r][d] = "closed" => d \in dead
    BY <1>1 DEF Links
  <2> QED
    BY <2>1, <2>2, <1>1, PutEffect
<1>5. /\ \A x \in Routers : x # r => task'[x] = task[x]
      /\ task'[r] = Idle /\ Idle.at # "forward" /\ Idle.at # "sendfile"
      /\ task[r].at = "forward"
  BY <1>1, <1>2 DEF Shape, Idle, Holds
<1>6. ASSUME NEW q \in Transfers, q # c
      PROVE  Resting(q)
  <2>1. p.transfer_id # q.transfer_id
    BY <1>1, <1>6, TransferProperty
  <2>2. \A x \in Routers : Recs(x, q)' = Recs(x, q)
    BY <1>2 DEF Recs
  <2>3. \A x, y \in Routers : OnLink(x, y, q)' = OnLink(x, y, q)
    BY <1>4, <2>1 DEF Put, OnLink
  <2>4. \A x \in Routers :
          \/ task'[x] = task[x]
          \/ ~ Sends(x, q)' /\ ~ Holds(x, q)' /\ ~ Holds(x, q)
    BY <1>1, <1>5, <2>1 DEF Sends, Holds
  <2> QED
    BY <2>2, <2>3, <2>4, <1>2 DEF Resting, SamePath
<1>7. \A q \in Transfers : q # c => Marked(q)' /\ Told(q)'
  BY <1>1, <1>6, RestingKept DEF HopInv
<1>8. /\ \A b \in Routers : Recs(b, c)' = Recs(b, c)
      /\ \A x, y \in Routers : x # r \/ y # d => OnLink(x, y, c)' = OnLink(x, y, c)
      /\ \/ OnLink(r, d, c)' = Append(OnLink(r, d, c), p)
         \/ d \in dead /\ OnLink(r, d, c)' = OnLink(r, d, c)
  <2>1. \A b \in Routers : Recs(b, c)' = Recs(b, c)
    BY <1>2 DEF Recs
  <2>2. CASE Put(r, d, p)
    BY <1>1, <2>1, <2>2 DEF Put
  <2>3. CASE d \in dead /\ chan' = chan
    BY <2>1, <2>3 DEF OnLink
  <2> QED
    BY <2>2, <2>3, <1>4
<1>9. Marked(c) /\ Told(c) /\ SamePath(c)
  BY <1>2 DEF HopInv, SamePath
<1>10. p \in PacketsOn(c, r, d)
  <2>1. p.ttl = c.ttl - 1 /\ p.ttl \in Nat
    BY <1>1, <1>9 DEF Marked, PacketSet
  <2>2. p.ttl \in TtlOn(c, r, d)
    BY <2>1, <1>1 DEF TtlOn
  <2> QED
    BY <2>2, <1>1 DEF PacketsOn
<1>11. Marked(c)'
  <2>1. \A x, y \in Routers :
          \/ OnLink(x, y, c)' = OnLink(x, y, c)
          \/ \E z \in PacketsOn(c, x, y) : OnLink(x, y, c)' = Append(OnLink(x, y, c), z)
    BY <1>8, <1>10
  <2>2. \A b \in Routers : Holds(b, c)' => task'[b].p.ttl = c.ttl - 1
    BY <1>5, <1>9 DEF Holds, Marked
  <2> QED
    BY <2>1, <2>2, <1>1, <1>8, <1>9, MarkedStep
<1>12. /\ Bounded(c) /\ FirstHop(c) /\ SecondHop(c) /\ issued'[c] = r
       /\ OnLink(a, r, c)' = OnLink(a, r, c)
  BY <1>1, <1>2, <1>8, <1>9 DEF Told
<1>13. Bounded(c)'
  <2>1. Sends(a, c)' => Sends(a, c) /\ task'[a].k = task[a].k
    BY <1>1, <1>5 DEF Sends
  <2> QED
    BY <2>1, <1>1, <1>8, <1>12 DEF Bounded
<1>14. FirstHop(c)'
  BY <1>1, <1>2, <1>8, <1>12 DEF FirstHop
<1>15. SecondHop(c)'
  <2>1. /\ OnLink(r, d, c) \in Seq(PacketSet) /\ Newest(OnLink(r, d, c)) \in Seq(SeqNos)
        /\ Seqs(Recs(d, c)) \in Seq(SeqNos)
    BY <1>1, <1>3, HopTypes
  <2>2. HeldSeqs(r, c) = <<p.seq>> /\ HeldSeqs(r, c)' = << >>
    BY <1>1, <1>5 DEF HeldSeqs, Holds
  <2>3. d \notin dead => Newest(OnLink(r, d, c)') = Cons(p.seq, Newest(OnLink(r, d, c)))
    BY <2>1, <1>8, HaveSeq, NewestAppend
  <2>4. d \notin dead => Then(<< >>, Newest(OnLink(r, d, c)')) = Newest(OnLink(r, d, c)')
    <3>1. OnLink(r, d, c)' \in Seq(PacketSet)
      BY <1>1, <1>12, <1>11, <1>9, <1>8, <2>1, SeqsOf
    <3>2. Newest(OnLink(r, d, c)') \in Seq(SeqNos)
      BY <3>1, HaveSeq, SeqsType
    <3> QED
      BY <3>2, ThenProperty
  <2> QED
    BY <2>2, <2>3, <2>4, <1>1, <1>2, <1>8, <1>12, ThenCons DEF SecondHop
<1>16. Told(c)'
  BY <1>13, <1>14, <1>15 DEF Told
<1> QED
  BY <1>2, <1>3, <1>7, <1>11, <1>16 DEF HopInv

-----------------------------------------------------------------------------
(* ... and one that is received *)

\* What one router does with the packet p of c that it takes from another.
Taking(s, r, p, c) ==
  /\ Arrives(s, r, p, c) /\ Taken(s, r, p) /\ Shape'
  /\ p.ttl = 0 => UNCHANGED stats
  /\ p.ttl # 0 => Recorded(r, Aged(p))
  /\ \A x \in Routers : x # r => task'[x] = task[x]
  /\ \/ task'[r] = Idle /\ (p.dest = r \/ Aged(p).ttl = 0)
     \/ /\ p.dest # r /\ Aged(p).ttl # 0
        /\ task'[r].at = "forward" /\ task'[r].p = Aged(p)

\* The packet counted down has the same number.
LEMMA AgedRecord ==
  ASSUME NEW p \in PacketSet
  PROVE  /\ Aged(p) \in PacketSet /\ Aged(p).transfer_id = p.transfer_id
         /\ Aged(p).seq = p.seq
         /\ p.ttl # 0 => Aged(p).ttl = p.ttl - 1
         /\ Aged(p).ttl # 0 => p.ttl # 0
         /\ RecordOf(Aged(p)) \in StatRecord /\ RecordOf(Aged(p)).seq = p.seq
         /\ RecordOf(Aged(p)).ttl = Aged(p).ttl
         /\ RecordOf(Aged(p)).transfer_id = p.transfer_id
<1>1. Aged(p) \in PacketSet /\ Aged(p).transfer_id = p.transfer_id
  BY AgedProperty
<1>2. Aged(p).seq = p.seq /\ (p.ttl # 0 => Aged(p).ttl = p.ttl - 1)
      /\ (Aged(p).ttl # 0 => p.ttl # 0)
  BY DEF Aged, PacketSet
<1>3. \A e \in PacketSet : RecordOf(e) \in StatRecord
  BY DEF RecordOf, StatRecord, PacketSet, Ids, SeqNos
<1>4. \A e : /\ RecordOf(e).seq = e.seq /\ RecordOf(e).ttl = e.ttl
             /\ RecordOf(e).transfer_id = e.transfer_id
  BY DEF RecordOf
<1> QED
  BY <1>1, <1>2, <1>3, <1>4

\* The handler of the data port does that.
LEMMA ReceiveTaking ==
  ASSUME DataInv, DataInv', HopInv, NEW s \in Routers, NEW r \in Routers, Receive(s, r)
  PROVE  \E p, c : Taking(s, r, p, c)
<1>1. PICK p, c : Arrives(s, r, p, c)
  BY Arrival
<1>2. p = Head(chan[s][r]) /\ p \in PacketSet /\ Aged(p).dest = p.dest /\ Aged(p) \in PacketSet
      /\ Shape /\ chan[s][r] # << >> /\ ChanSet(s, r, Tail(chan[s][r])) /\ task[r] = Idle
  BY <1>1, AgedProperty DEF Arrives
<1>3. Taken(s, r, p)
  BY <1>2, TakenEffect
<1>4. /\ p.ttl = 0 => UNCHANGED stats
      /\ p.ttl # 0 => Recorded(r, Aged(p))
  <2>1. stats \in [Routers -> Seq(StatRecord)]
    BY DEF HopInv
  <2>2. CASE p.ttl = 0
    BY <2>1, <2>2, <1>2 DEF Receive
  <2>3. CASE p.ttl # 0
    <3>1. stats' = [stats EXCEPT ![r] = Record(@, Aged(p))]
      BY <2>3, <1>2 DEF Receive
    <3> QED
      BY <2>1, <2>3, <3>1, <1>2, RecordEffect
  <2> QED
    BY <2>2, <2>3
<1>5. \/ task' = task /\ (p.dest = r \/ Aged(p).ttl = 0)
      \/ /\ p.dest # r /\ Aged(p).ttl # 0
         /\ task' = [task EXCEPT ![r] = [at |-> "forward", p |-> Aged(p)]]
  BY <1>2 DEF Receive
<1>6. task \in [Routers -> {Idle} \cup SendTask \cup ForwardTask]
  BY <1>2 DEF Shape
<1>7. Shape'
  BY DEF DataInv
<1>8. Taking(s, r, p, c)
  <2>1. CASE task' = task /\ (p.dest = r \/ Aged(p).ttl = 0)
    BY <2>1, <1>1, <1>2, <1>3, <1>4, <1>7 DEF Taking
  <2>2. CASE /\ p.dest # r /\ Aged(p).ttl # 0
             /\ task' = [task EXCEPT ![r] = [at |-> "forward", p |-> Aged(p)]]
    <3> DEFINE t == [at |-> "forward", p |-> Aged(p)]
    <3>1. t.at = "forward" /\ t.p = Aged(p)
      OBVIOUS
    <3> HIDE DEF t
    <3>2. task'[r] = t /\ \A x \in Routers : x # r => task'[x] = task[x]
      BY <2>2, <1>6 DEF t
    <3> QED
      BY <2>2, <3>1, <3>2, <1>1, <1>3, <1>4, <1>7 DEF Taking
  <2> QED
    BY <2>1, <2>2, <1>5
<1> QED
  BY <1>8

\* Other transfers keep what they have.
LEMMA TakingResting ==
  ASSUME NEW s \in Routers, NEW r \in Routers, NEW p, NEW c, Taking(s, r, p, c),
         NEW q \in Transfers, q # c
  PROVE  Resting(q)
<1>1. /\ p \in PacketSet /\ c \in Transfers /\ p.transfer_id = c.transfer_id
      /\ UNCHANGED <<dead, issued>> /\ task[r] = Idle
  BY DEF Taking, Arrives
<1>2. p.transfer_id # q.transfer_id /\ Aged(p).transfer_id = p.transfer_id
  BY <1>1, TransferProperty, AgedProperty
<1>3. \A x \in Routers : Recs(x, q)' = Recs(x, q)
  <2>1. CASE p.ttl = 0
    BY <2>1 DEF Taking, Recs
  <2>2. CASE p.ttl # 0
    BY <2>2, <1>2 DEF Taking, Recorded
  <2> QED
    BY <2>1, <2>2
<1>4. \A x, y \in Routers : OnLink(x, y, q)' = OnLink(x, y, q)
  BY <1>2 DEF Taking, Taken
<1>5. \A x \in Routers :
        \/ task'[x] = task[x]
        \/ ~ Sends(x, q)' /\ ~ Holds(x, q)' /\ ~ Holds(x, q)
  BY <1>1, <1>2 DEF Taking, Sends, Holds, Idle
<1> QED
  BY <1>1, <1>3, <1>4, <1>5 DEF Resting, SamePath

\* What changes of the transfer whose packet is taken.
LEMMA TakingEffect ==
  ASSUME stats \in [Routers -> Seq(StatRecord)],
         NEW s \in Routers, NEW r \in Routers, NEW p, NEW c, Taking(s, r, p, c)
  PROVE  /\ stats' \in [Routers -> Seq(StatRecord)]
         /\ \A b \in Routers :
              Recs(b, c)' = IF b = r /\ p.ttl # 0
                            THEN Cons(RecordOf(Aged(p)), Recs(b, c)) ELSE Recs(b, c)
         /\ OnLink(s, r, c) = Cons(p, OnLink(s, r, c)')
         /\ \A x, y \in Routers : x # s \/ y # r => OnLink(x, y, c)' = OnLink(x, y, c)
<1>1. p \in PacketSet /\ c \in Transfers /\ p.transfer_id = c.transfer_id
  BY DEF Taking, Arrives
<1>2. Aged(p).transfer_id = p.transfer_id
  BY <1>1, AgedProperty
<1>3. CASE p.ttl = 0
  BY <1>1, <1>3 DEF Taking, Taken, Recs
<1>4. CASE p.ttl # 0
  BY <1>1, <1>2, <1>4 DEF Taking, Taken, Recorded
<1> QED
  BY <1>3, <1>4

\* The packet and its record have the ttl their places say.
LEMMA TakingMarked ==
  ASSUME HopInv, NEW s \in Routers, NEW r \in Routers, NEW p, NEW c, Taking(s, r, p, c)
  PROVE  Marked(c)'
<1>1. /\ p \in PacketSet /\ c \in Transfers /\ p.transfer_id = c.transfer_id
      /\ c \in DOMAIN issued /\ UNCHANGED <<dead, issued>> /\ Shape /\ Shape' /\ Commanded
      /\ p.dest = c.dest /\ task[r] = Idle
  BY DEF Taking, Arrives, PacketFor
<1>2. Marked(c) /\ SamePath(c) /\ stats \in [Routers -> Seq(StatRecord)]
  BY <1>1 DEF HopInv, SamePath
<1>3. /\ \A b \in Routers :
           Recs(b, c)' = IF b = r /\ p.ttl # 0
                         THEN Cons(RecordOf(Aged(p)), Recs(b, c)) ELSE Recs(b, c)
      /\ OnLink(s, r, c) = Cons(p, OnLink(s, r, c)')
      /\ \A x, y \in Routers : x # s \/ y # r => OnLink(x, y, c)' = OnLink(x, y, c)
  BY <1>2, TakingEffect
<1>4. p.ttl \in TtlOn(c, s, r)
  <2>1. OnLink(s, r, c) \in Seq(PacketsOn(c, s, r))
    BY <1>2 DEF Marked
  <2>2. OnLink(s, r, c)' \in Seq(PacketSet)
    <3>1. chan'[s][r] \in Seq(PacketSet)
      BY <1>1 DEF Shape
    <3> QED
      BY <3>1, SeqOfAll DEF OnLink
  <2>3. p \in PacketsOn(c, s, r)
    BY <2>1, <2>2, <1>1, <1>3, BackOf
  <2> QED
    BY <2>3 DEF PacketsOn
<1>5. p.ttl # 0 => RecordOf(Aged(p)) \in RecordsAt(c, r)
  <2> SUFFICES ASSUME p.ttl # 0 PROVE RecordOf(Aged(p)) \in RecordsAt(c, r)
    OBVIOUS
  <2>1. /\ RecordOf(Aged(p)) \in StatRecord /\ RecordOf(Aged(p)).ttl = p.ttl - 1
        /\ RecordOf(Aged(p)).transfer_id = c.transfer_id
    BY <1>1, AgedRecord
  <2>2. p.ttl - 1 \in TtlAt(c, r)
    <3>1. p.ttl \in Nat /\ p.ttl - 1 \in Nat /\ c.ttl \in Nat
      BY <1>1, TransferProperty DEF PacketSet
    <3>2. CASE s = c.from /\ r = issued[c] /\ p.ttl = c.ttl
      BY <3>1, <3>2, <1>1 DEF TtlAt
    <3>3. CASE issued[c] # c.dest /\ s = issued[c] /\ r = c.dest /\ p.ttl = c.ttl - 1
      BY <3>1, <3>3, <1>1 DEF TtlAt
    <3> QED
      BY <3>2, <3>3, <1>4 DEF TtlOn
  <2> QED
    BY <2>1, <2>2 DEF RecordsAt, StatRecord
<1>6. \A b \in Routers : Holds(b, c)' => task'[b].p.ttl = c.ttl - 1
  <2>1. ASSUME Holds(r, c)'
        PROVE  task'[r].p.ttl = c.ttl - 1
    <3>1. p.dest # r /\ Aged(p).ttl # 0 /\ task'[r].p = Aged(p)
      BY <2>1 DEF Holds, Taking, Idle
    <3>2. p.ttl = c.ttl
      BY <3>1, <1>1, <1>4 DEF TtlOn
    <3> QED
      BY <3>1, <3>2, <1>1, AgedRecord
  <2>2. \A b \in Routers : b # r => (Holds(b, c)' => Holds(b, c) /\ task'[b] = task[b])
    BY DEF Holds, Taking
  <2> QED
    BY <2>1, <2>2, <1>2 DEF Marked
<1>7. \A x, y \in Routers :
        \/ OnLink(x, y, c)' = OnLink(x, y, c)
        \/ \E z \in PacketSet : OnLink(x, y, c) = Cons(z, OnLink(x, y, c)')
  BY <1>1, <1>3
<1>8. \A b \in Routers : \/ Recs(b, c)' = Recs(b, c)
                         \/ \E x \in RecordsAt(c, b) : Recs(b, c)' = Cons(x, Recs(b, c))
  BY <1>3, <1>5
<1> QED
  BY <1>1, <1>2, <1>6, <1>7, <1>8, MarkedStep

\* The next hop takes a packet from the source: it has recorded it, and if it forwards it,
\* has it in its hands.
LEMMA TakingFirst ==
  ASSUME HopInv, NEW r \in Routers, NEW p, NEW c, NEW a \in Routers, NEW d \in Routers,
         Taking(a, r, p, c), a = c.from, d = c.dest, issued[c] = r, a # d
  PROVE  Bounded(c)' /\ FirstHop(c)' /\ SecondHop(c)'
<1>1. /\ p \in PacketSet /\ c \in Transfers /\ p.transfer_id = c.transfer_id
      /\ c \in DOMAIN issued /\ UNCHANGED <<dead, issued>> /\ Shape /\ Shape'
      /\ p.dest = d /\ task[r] = Idle /\ a # r /\ p.ttl = c.ttl
  BY PathProperty DEF Taking, Arrives, PacketFor
<1>2. /\ Bounded(c) /\ FirstHop(c) /\ SecondHop(c) /\ issued'[c] = r
      /\ stats \in [Routers -> Seq(StatRecord)]
  BY <1>1 DEF HopInv, Told
<1> DEFINE x == RecordOf(Aged(p))
<1>3. /\ \A b \in Routers :
           Recs(b, c)' = IF b = r /\ p.ttl # 0 THEN Cons(x, Recs(b, c)) ELSE Recs(b, c)
      /\ OnLink(a, r, c) = Cons(p, OnLink(a, r, c)')
      /\ \A y, z \in Routers : y # a \/ z # r => OnLink(y, z, c)' = OnLink(y, z, c)
      /\ stats' \in [Routers -> Seq(StatRecord)]
  BY <1>2, TakingEffect
<1>4. x \in StatRecord /\ x.seq = p.seq /\ p.seq \in SeqNos
  BY <1>1, AgedRecord, HaveSeq
<1> HIDE DEF x
<1>5. /\ \A b \in Routers : /\ Recs(b, c) \in Seq(StatRecord) /\ Len(Recs(b, c)) \in Nat
                            /\ Seqs(Recs(b, c)) \in Seq(SeqNos)
      /\ Newest(OnLink(r, d, c)) \in Seq(SeqNos)
      /\ OnLink(a, r, c)' \in Seq(PacketSet) /\ Len(OnLink(a, r, c)') \in Nat
      /\ Newest(OnLink(a, r, c)') \in Seq(SeqNos)
  <2>1. OnLink(a, r, c)' \in Seq(PacketSet)
    <3>1. chan'[a][r] \in Seq(PacketSet)
      BY <1>1 DEF Shape
    <3> QED
      BY <3>1, SeqOfAll DEF OnLink
  <2> QED
    BY <2>1, <1>1, <1>2, HopTypes, HaveSeq, SeqsType
<1>6. Recs(a, c)' = Recs(a, c) /\ task'[a] = task[a]
  BY <1>1, <1>3 DEF Taking
<1>7. Bounded(c)'
  <2>1. Len(OnLink(a, r, c)) = Len(OnLink(a, r, c)') + 1
    BY <1>1, <1>3, <1>5, ConsProperty
  <2>2. Len(Recs(r, c)') \in Nat /\ Len(Recs(r, c)') <= Len(Recs(r, c)) + 1
    <3>1. Len(Cons(x, Recs(r, c))) = Len(Recs(r, c)) + 1
      BY <1>4, <1>5, ConsProperty
    <3>2. Recs(r, c)' = Cons(x, Recs(r, c)) \/ Recs(r, c)' = Recs(r, c)
      BY <1>3
    <3>3. Len(Recs(r, c)) \in Nat
      BY <1>5
    <3> QED
      BY <3>1, <3>2, <3>3
  <2>3. Len(Recs(r, c)) + Len(OnLink(a, r, c)) <= Len(Recs(a, c))
    BY <1>2 DEF Bounded
  <2>4. Len(Recs(r, c)') + Len(OnLink(a, r, c)') <= Len(Recs(a, c))
    BY <2>1, <2>2, <2>3, <1>5
  <2>5. Sends(a, c)' => Sends(a, c)
    BY <1>6 DEF Sends
  <2> QED
    BY <2>4, <2>5, <1>2, <1>6 DEF Bounded
<1>8. FirstHop(c)'
  <2> SUFFICES ASSUME c.ttl > 0, a \notin dead, r \notin dead
               PROVE  Seqs(Recs(a, c)') =
                        Then(Newest(OnLink(a, r, c)'), Seqs(Recs(r, c)'))
    BY <1>1, <1>2 DEF FirstHop
  <2>1. Seqs(Recs(a, c)) = Then(Newest(OnLink(a, r, c)), Seqs(Recs(r, c)))
    BY <1>2 DEF FirstHop
  <2>2. Newest(OnLink(a, r, c)) = Then(Newest(OnLink(a, r, c)'), <<p.seq>>)
    BY <1>1, <1>3, <1>5, HaveSeq, NewestFront
  <2>3. Seqs(Recs(r, c)') = Cons(p.seq, Seqs(Recs(r, c)))
    <3>1. Recs(r, c)' = Cons(x, Recs(r, c))
      BY <1>1, <1>3
    <3>2. Seqs(Cons(x, Recs(r, c))) = Cons(x.seq, Seqs(Recs(r, c)))
      BY <1>4, <1>5, HaveSeq, SeqsFront
    <3> QED
      BY <3>1, <3>2, <1>4
  <2>4. Then(Then(Newest(OnLink(a, r, c)'), <<p.seq>>), Seqs(Recs(r, c))) =
          Then(Newest(OnLink(a, r, c)'), Cons(p.seq, Seqs(Recs(r, c))))
    BY <1>4, <1>5, ThenMoves
  <2> QED
    BY <2>1, <2>2, <2>3, <2>4, <1>6
<1>9. SecondHop(c)'
  <2> SUFFICES ASSUME c.ttl > 1, r # d, r \notin dead, d \notin dead
               PROVE  Seqs(Recs(r, c)') =
                        Then(Then(HeldSeqs(r, c)', Newest(OnLink(r, d, c)')),
                             Seqs(Recs(d, c)'))
    BY <1>1, <1>2 DEF SecondHop
  <2>1. Seqs(Recs(r, c)) =
          Then(Then(HeldSeqs(r, c), Newest(OnLink(r, d, c))), Seqs(Recs(d, c)))
    BY <1>2 DEF SecondHop
  <2>2. HeldSeqs(r, c) = << >>
    BY <1>1 DEF HeldSeqs, Holds, Idle
  <2>3. HeldSeqs(r, c)' = <<p.seq>>
    <3>1. Aged(p).ttl # 0 /\ Aged(p).transfer_id = p.transfer_id /\ Aged(p).seq = p.seq
      <4>1. c.ttl \in Nat /\ p.ttl # 0
        BY <1>1, TransferProperty
      <4>2. Aged(p).ttl = c.ttl - 1
        BY <4>1, <1>1, AgedRecord
      <4> QED
        BY <4>1, <4>2, <1>1, AgedRecord
    <3>2. task'[r].at = "forward" /\ task'[r].p = Aged(p)
      BY <3>1, <1>1 DEF Taking
    <3> QED
      BY <3>1, <3>2, <1>1 DEF HeldSeqs, Holds
  <2>4. Seqs(Recs(r, c)') = Cons(p.seq, Seqs(Recs(r, c)))
    <3>1. p.ttl # 0
      BY <1>1
    <3>2. Recs(r, c)' = Cons(x, Recs(r, c))
      BY <3>1, <1>3
    <3>3. Seqs(Cons(x, Recs(r, c))) = Cons(x.seq, Seqs(Recs(r, c)))
      BY <1>4, <1>5, HaveSeq, SeqsFront
    <3> QED
      BY <3>2, <3>3, <1>4
  <2>5. OnLink(r, d, c)' = OnLink(r, d, c) /\ Recs(d, c)' = Recs(d, c)
    BY <1>1, <1>3
  <2>6. Then(<< >>, Newest(OnLink(r, d, c))) = Newest(OnLink(r, d, c))
    BY <1>5, ThenProperty
  <2>7. Cons(p.seq, Then(Newest(OnLink(r, d, c)), Seqs(Recs(d, c)))) =
          Then(Cons(p.seq, Newest(OnLink(r, d, c))), Seqs(Recs(d, c)))
    BY <1>4, <1>5, ConsThen
  <2> QED
    BY <2>1, <2>2, <2>3, <2>4, <2>5, <2>6, <2>7, ThenCons
<1> QED
  BY <1>7, <1>8, <1>9

\* The destination takes a packet from the next hop, and records it.
LEMMA TakingSecond ==
  ASSUME HopInv, NEW r \in Routers, NEW p, NEW c, NEW a \in Routers, NEW h \in Routers,
         Taking(h, r, p, c), a = c.from, r = c.dest, issued[c] = h, a # r, h # r
  PROVE  Bounded(c)' /\ FirstHop(c)' /\ SecondHop(c)'
<1>1. /\ p \in PacketSet /\ c \in Transfers /\ p.transfer_id = c.transfer_id
      /\ c \in DOMAIN issued /\ UNCHANGED <<dead, issued>> /\ Shape /\ Shape'
      /\ p.dest = r /\ task[r] = Idle /\ a # h
  BY PathProperty DEF Taking, Arrives, PacketFor
<1>2. /\ Bounded(c) /\ FirstHop(c) /\ SecondHop(c) /\ issued'[c] = h
      /\ stats \in [Routers -> Seq(StatRecord)] /\ Marked(c)
  BY <1>1 DEF HopInv, Told
<1> DEFINE x == RecordOf(Aged(p))
<1>3. /\ \A b \in Routers :
           Recs(b, c)' = IF b = r /\ p.ttl # 0 THEN Cons(x, Recs(b, c)) ELSE Recs(b, c)
      /\ OnLink(h, r, c) = Cons(p, OnLink(h, r, c)')
      /\ \A y, z \in Routers : y # h \/ z # r => OnLink(y, z, c)' = OnLink(y, z, c)
      /\ stats' \in [Routers -> Seq(StatRecord)]
  BY <1>2, TakingEffect
<1>4. x \in StatRecord /\ x.seq = p.seq /\ p.seq \in SeqNos
  BY <1>1, AgedRecord, HaveSeq
<1> HIDE DEF x
<1>5. /\ Recs(r, c) \in Seq(StatRecord) /\ Seqs(Recs(r, c)) \in Seq(SeqNos)
      /\ HeldSeqs(h, c) \in Seq(SeqNos)
      /\ OnLink(h, r, c)' \in Seq(PacketSet) /\ Newest(OnLink(h, r, c)') \in Seq(SeqNos)
  <2>1. OnLink(h, r, c)' \in Seq(PacketSet)
    <3>1. chan'[h][r] \in Seq(PacketSet)
      BY <1>1 DEF Shape
    <3> QED
      BY <3>1, SeqOfAll DEF OnLink
  <2> QED
    BY <2>1, <1>1, <1>2, HopTypes, HaveSeq, SeqsType
<1>6. /\ Recs(a, c)' = Recs(a, c) /\ Recs(h, c)' = Recs(h, c)
      /\ task'[a] = task[a] /\ task'[h] = task[h]
      /\ OnLink(a, h, c)' = OnLink(a, h, c)
  BY <1>1, <1>3 DEF Taking
<1>7. Bounded(c)'
  <2>1. Sends(a, c)' => Sends(a, c)
    BY <1>6 DEF Sends
  <2> QED
    BY <2>1, <1>2, <1>6 DEF Bounded
<1>8. FirstHop(c)'
  BY <1>1, <1>2, <1>6 DEF FirstHop
<1>9. SecondHop(c)'
  <2> SUFFICES ASSUME c.ttl > 1, h # r, h \notin dead, r \notin dead
               PROVE  Seqs(Recs(h, c)') =
                        Then(Then(HeldSeqs(h, c)', Newest(OnLink(h, r, c)')),
                             Seqs(Recs(r, c)'))
    BY <1>1, <1>2 DEF SecondHop
  <2>1. Seqs(Recs(h, c)) =
          Then(Then(HeldSeqs(h, c), Newest(OnLink(h, r, c))), Seqs(Recs(r, c)))
    BY <1>2 DEF SecondHop
  <2>2. HeldSeqs(h, c)' = HeldSeqs(h, c)
    BY <1>6 DEF HeldSeqs, Holds
  <2>3. p.ttl # 0
    <3>1. p \in PacketsOn(c, h, r)
      BY <1>1, <1>2, <1>3, <1>5, BackOf DEF Marked
    <3>2. p.ttl = c.ttl - 1 /\ c.ttl \in Nat
      BY <3>1, <1>1, TransferProperty DEF PacketsOn, TtlOn
    <3> QED
      BY <3>2
  <2>4. Seqs(Recs(r, c)') = Cons(p.seq, Seqs(Recs(r, c)))
    <3>1. Recs(r, c)' = Cons(x, Recs(r, c))
      BY <2>3, <1>3
    <3>2. Seqs(Cons(x, Recs(r, c))) = Cons(x.seq, Seqs(Recs(r, c)))
      BY <1>4, <1>5, HaveSeq, SeqsFront
    <3> QED
      BY <3>1, <3>2, <1>4
  <2>5. Newest(OnLink(h, r, c)) = Then(Newest(OnLink(h, r, c)'), <<p.seq>>)
    BY <1>1, <1>3, <1>5, HaveSeq, NewestFront
  <2>6. Then(Then(HeldSeqs(h, c), Then(Newest(OnLink(h, r, c)'), <<p.seq>>)),
             Seqs(Recs(r, c))) =
          Then(Then(HeldSeqs(h, c), Newest(OnLink(h, r, c)')),
               Cons(p.seq, Seqs(Recs(r, c))))
    BY <1>4, <1>5, ThenMovesOn
  <2> QED
    BY <2>1, <2>2, <2>4, <2>5, <2>6, <1>6
<1> QED
  BY <1>7, <1>8, <1>9

\* Whoever takes the packet, of whichever transfer.
LEMMA HopReceive ==
  ASSUME DataInv, DataInv', HopInv, NEW s \in Routers, NEW r \in Routers, Receive(s, r)
  PROVE  HopInv'
<1>1. PICK p, c : Taking(s, r, p, c)
  BY ReceiveTaking
<1>2. /\ c \in Transfers /\ c \in DOMAIN issued /\ c.from \in Routers /\ c.dest \in Routers
      /\ issued[c] \in Routers /\ issued' = issued /\ Shape'
      /\ \/ s = c.from /\ r = issued[c]
         \/ issued[c] # c.dest /\ s = issued[c] /\ r = c.dest
  BY <1>1 DEF Taking, Arrives
<1>3. stats' \in [Routers -> Seq(StatRecord)]
  BY <1>1, TakingEffect DEF HopInv
<1>4. \A q \in Transfers : q # c => Marked(q)' /\ Told(q)'
  BY <1>1, <1>2, TakingResting, RestingKept DEF HopInv
<1>5. Marked(c)'
  BY <1>1, TakingMarked
<1>6. Told(c)'
  <2>1. c.from # c.dest => Bounded(c)' /\ FirstHop(c)' /\ SecondHop(c)'
    <3>1. CASE s = c.from /\ r = issued[c]
      BY <3>1, <1>1, <1>2, TakingFirst
    <3>2. CASE issued[c] # c.dest /\ s = issued[c] /\ r = c.dest
      BY <3>2, <1>1, <1>2, TakingSecond
    <3> QED
      BY <3>1, <3>2, <1>2
  <2> QED
    BY <2>1 DEF Told
<1> QED
  BY <1>3, <1>4, <1>5, <1>6 DEF HopInv

\* Every step keeps the invariant.
LEMMA HopNext ==
  ASSUME DataInv, DataInv', HopInv, [Next]_vars
  PROVE  HopInv'
<1>1. Shape'
  BY DEF DataInv
<1>2. ASSUME NEW r \in Routers, InitResponse(r)
      PROVE  HopInv'
  BY <1>1, <1>2, HopStays DEF InitResponse
<1>3. ASSUME NEW r \in Routers, CrashResponse(r) \/ BrokenPipe(r)
      PROVE  HopInv'
  BY <1>1, <1>3, HopExit DEF CrashResponse, BrokenPipe
<1>4. CASE UNCHANGED vars
  BY <1>1, <1>4, HopStays DEF vars
<1> QED
  BY <1>2, <1>3, <1>4, HopSendFile, HopSendPacket, HopForward, HopReceive DEF Next

-----------------------------------------------------------------------------
(* The answers *)

\* The answer of a router whose records are not too many for the count.
LEMMA AnswerProperty ==
  ASSUME NEW r, NEW q, Recs(r, q) \in Seq(StatRecord), Len(Recs(r, q)) < CountSpace
  PROVE  /\ SendfileStats(r, q.transfer_id).seqs = Seqs(Recs(r, q))
         /\ SendfileStats(r, q.transfer_id).ttl =
              IF Recs(r, q) = << >> THEN 0 ELSE Recs(r, q)[Len(Recs(r, q))].ttl
<1> DEFINE s == Only(stats[r], q.transfer_id)
           w == CountSpace * (Len(s) \div CountSpace)
<1>1. s = Recs(r, q)
  BY DEF Recs
<1>2. /\ SendfileStats(r, q.transfer_id).seqs = [i \in 1 .. Len(s) - w |-> s[w + i].seq]
      /\ SendfileStats(r, q.transfer_id).ttl = IF s = << >> THEN 0 ELSE s[Len(s)].ttl
  BY DEF SendfileStats, Last
<1> HIDE DEF s
<1>3. Len(s) \in Nat /\ Len(s) < CountSpace
  BY <1>1, LenProperties
<1>4. w = 0
  <2>1. Len(s) \div CountSpace = 0
    BY <1>3, NumberAssumption
  <2> QED
    BY <2>1, NumberAssumption
<1> HIDE DEF w
<1>5. [i \in 1 .. Len(s) - w |-> s[w + i].seq] = Seqs(s)
  <2>1. Len(s) - w = Len(s) /\ \A i \in 1 .. Len(s) : w + i = i
    BY <1>3, <1>4
  <2> QED
    BY <2>1 DEF Seqs
<1> QED
  BY <1>1, <1>2, <1>5

\* The ttl it answers is the one its place says.
LEMMA AnswerTtl ==
  ASSUME NEW q \in Transfers, NEW r \in Routers, Marked(q), Recs(r, q) # << >>
  PROVE  Recs(r, q)[Len(Recs(r, q))].ttl \in TtlAt(q, r)
<1>1. Recs(r, q) \in Seq(RecordsAt(q, r))
  BY DEF Marked
<1>2. Len(Recs(r, q)) \in Nat \ {0}
  BY <1>1, EmptySeq
<1>3. Recs(r, q)[Len(Recs(r, q))] \in RecordsAt(q, r)
  <2>1. Len(Recs(r, q)) \in 1 .. Len(Recs(r, q))
    BY <1>2
  <2> QED
    BY <2>1, <1>1, ElementOfSeq
<1> QED
  BY <1>3 DEF RecordsAt

\* What is on the way, as the invariant says it.
LEMMA OnTheWayProperty ==
  ASSUME Shape, NEW a \in Routers, NEW b \in Routers, NEW q
  PROVE  OnTheWay(a, b, q) = Then(HeldSeqs(a, q), Newest(OnLink(a, b, q)))
<1> DEFINE c == Reverse(Only(chan[a][b], q.transfer_id))
<1>1. OnLink(a, b, q) \in Seq(PacketSet)
  BY OnLinkType
<1>2. [i \in DOMAIN c |-> c[i].seq] = Newest(OnLink(a, b, q))
  <2>1. c = Reverse(OnLink(a, b, q))
    BY DEF OnLink
  <2>2. DOMAIN c = 1 .. Len(c)
    BY <1>1, <2>1, LenProperties DEF Reverse
  <2> HIDE DEF c
  <2> QED
    BY <2>1, <2>2 DEF Newest, Seqs
<1> HIDE DEF c
<1>3. OnTheWay(a, b, q) = HeldSeqs(a, q) \o [i \in DOMAIN c |-> c[i].seq]
  BY DEF OnTheWay, HeldSeqs, Holds, c
<1> QED
  BY <1>2, <1>3 DEF Then

\* Nobody but the routers on the path records anything of q.
LEMMA OnPath ==
  ASSUME NEW q \in Transfers, NEW r \in Routers, Marked(q), Recs(r, q) # << >>
  PROVE  r = q.from \/ r = issued[q] \/ r = q.dest
<1>1. TtlAt(q, r) # {}
  BY AnswerTtl
<1> QED
  BY <1>1 DEF TtlAt

\* From what is recorded to what is answered.
LEMMA HopAnswers ==
  ASSUME DataInv, HopInv
  PROVE  HopsRecorded
<1> SUFFICES ASSUME NEW q \in DOMAIN issued, NEW a \in up, NEW n,
                    n = IF a = q.from THEN issued[q] ELSE q.dest,
                    a # q.dest, n \in up, PacketCount(q) < CountSpace,
                    SendfileStats(a, q.transfer_id).ttl > 0
             PROVE  /\ SendfileStats(a, q.transfer_id).seqs =
                         OnTheWay(a, n, q) \o SendfileStats(n, q.transfer_id).seqs
                    /\ SendfileStats(n, q.transfer_id).seqs # << >> =>
                         SendfileStats(n, q.transfer_id).ttl =
                           SendfileStats(a, q.transfer_id).ttl - 1
  BY DEF HopsRecorded, ForwardTo
<1>1. PICK f \in Routers, h \in Routers, d \in Routers :
        /\ Shape /\ Commanded /\ q \in Transfers /\ stats \in [Routers -> Seq(StatRecord)]
        /\ Marked(q) /\ Told(q)
        /\ q.from = f /\ issued[q] = h /\ q.dest = d /\ (f # d => h # f) /\ (f = d => h = f)
        /\ q.ttl \in Nat /\ PacketCount(q) \in Nat
        /\ a \in Routers /\ n \in Routers /\ a \notin dead /\ n \notin dead
  <2>1. Shape /\ Commanded /\ q \in Transfers
    BY DEF DataInv, Commanded
  <2>2. Marked(q) /\ Told(q) /\ stats \in [Routers -> Seq(StatRecord)]
    BY <2>1 DEF HopInv
  <2>3. a \in Routers /\ n \in Routers /\ a \notin dead /\ n \notin dead
    BY <2>1 DEF Shape
  <2> QED
    BY <2>1, <2>2, <2>3, PathProperty, TransferProperty
<1>2. \A r \in Routers : /\ Recs(r, q) \in Seq(StatRecord) /\ Len(Recs(r, q)) \in Nat
                         /\ Len(Seqs(Recs(r, q))) = Len(Recs(r, q))
                         /\ Seqs(Recs(r, q)) = << >> => Recs(r, q) = << >>
  <2>1. \A r \in Routers : Recs(r, q) \in Seq(StatRecord) /\ Len(Recs(r, q)) \in Nat
    BY <1>1, HopTypes
  <2>2. \A r \in Routers : Len(Seqs(Recs(r, q))) = Len(Recs(r, q))
    BY <2>1, HaveSeq, SeqsType
  <2>3. ASSUME NEW r \in Routers, Seqs(Recs(r, q)) = << >>
        PROVE  Recs(r, q) = << >>
    <3>1. Len(Recs(r, q)) = 0
      BY <2>2, <2>3, EmptySeq
    <3> QED
      BY <2>1, <3>1, EmptySeq
  <2> QED
    BY <2>1, <2>2, <2>3
\* What a and n answer, if both can count what they recorded.
<1>3. ASSUME Len(Recs(a, q)) < CountSpace
      PROVE  /\ SendfileStats(a, q.transfer_id).seqs = Seqs(Recs(a, q))
             /\ SendfileStats(a, q.transfer_id).ttl \in TtlAt(q, a)
  <2>1. /\ SendfileStats(a, q.transfer_id).seqs = Seqs(Recs(a, q))
        /\ SendfileStats(a, q.transfer_id).ttl =
             IF Recs(a, q) = << >> THEN 0 ELSE Recs(a, q)[Len(Recs(a, q))].ttl
    BY <1>1, <1>2, <1>3, AnswerProperty
  <2>2. Recs(a, q) # << >>
    BY <2>1
  <2> QED
    BY <2>1, <2>2, <1>1, AnswerTtl
<1>4. ASSUME Len(Recs(n, q)) < CountSpace
      PROVE  /\ SendfileStats(n, q.transfer_id).seqs = Seqs(Recs(n, q))
             /\ SendfileStats(n, q.transfer_id).seqs # << >> =>
                  SendfileStats(n, q.transfer_id).ttl \in TtlAt(q, n)
  <2>1. /\ SendfileStats(n, q.transfer_id).seqs = Seqs(Recs(n, q))
        /\ SendfileStats(n, q.transfer_id).ttl =
             IF Recs(n, q) = << >> THEN 0 ELSE Recs(n, q)[Len(Recs(n, q))].ttl
    BY <1>1, <1>2, <1>4, AnswerProperty
  <2>2. Seqs(Recs(n, q)) # << >> => Recs(n, q) # << >>
    BY SeqsNone
  <2> QED
    BY <2>1, <2>2, <1>1, AnswerTtl
<1>5. Recs(a, q) # << >>
  <2>1. Recs(a, q) = << >> => SendfileStats(a, q.transfer_id).ttl = 0
    BY DEF SendfileStats, Recs
  <2> QED
    BY <2>1
<1>6. f # d /\ (a = f \/ (a = h /\ h # d)) /\ a # d
  BY <1>1, <1>5, OnPath
<1>7. Bounded(q) /\ FirstHop(q) /\ SecondHop(q)
  BY <1>1, <1>6 DEF Told
<1>8. Len(Recs(h, q)) <= Len(Recs(f, q)) /\ Len(Recs(f, q)) < CountSpace
  <2>1. Len(OnLink(f, h, q)) \in Nat
    BY <1>1, HopTypes
  <2> QED
    BY <2>1, <1>1, <1>2, <1>7, NumberAssumption DEF Bounded
<1>9. Len(Recs(a, q)) < CountSpace
  BY <1>1, <1>2, <1>6, <1>8, NumberAssumption
<1>10. SendfileStats(a, q.transfer_id).ttl \in TtlAt(q, a)
  BY <1>3, <1>9
<1>11. CASE a = f
  <2>1. n = h /\ SendfileStats(a, q.transfer_id).ttl = q.ttl /\ q.ttl > 0
    BY <1>1, <1>6, <1>10, <1>11 DEF TtlAt
  <2>2. HeldSeqs(a, q) = << >>
    <3>1. ~ Holds(a, q)
      BY <1>1, <1>6, <1>11 DEF DataInv, Carried
    <3> QED
      BY <3>1 DEF HeldSeqs
  <2>3. Seqs(Recs(a, q)) = Then(Newest(OnLink(a, n, q)), Seqs(Recs(n, q)))
    BY <2>1, <1>1, <1>7, <1>11 DEF FirstHop
  <2>4. Then(HeldSeqs(a, q), Newest(OnLink(a, n, q))) = Newest(OnLink(a, n, q))
    <3>1. Newest(OnLink(a, n, q)) \in Seq(SeqNos)
      BY <1>1, HopTypes
    <3> QED
      BY <3>1, <2>2, ThenProperty
  <2>5. Seqs(Recs(a, q)) = Then(OnTheWay(a, n, q), Seqs(Recs(n, q)))
    BY <2>3, <2>4, <1>1, OnTheWayProperty
  <2>6. Len(Recs(n, q)) < CountSpace
    BY <2>1, <1>1, <1>2, <1>8, NumberAssumption
  <2>7. \A l \in TtlAt(q, n) : l = q.ttl - 1
    BY <2>1, <1>1, <1>6 DEF TtlAt
  <2> QED
    BY <2>1, <2>5, <2>6, <2>7, <1>3, <1>4, <1>9 DEF Then
<1>12. CASE a = h /\ h # d /\ a # f
  <2>1. n = d /\ SendfileStats(a, q.transfer_id).ttl = q.ttl - 1 /\ q.ttl > 1
    <3>1. n = d
      BY <1>1, <1>12
    <3>2. SendfileStats(a, q.transfer_id).ttl = q.ttl - 1
      BY <1>1, <1>6, <1>10, <1>12 DEF TtlAt
    <3> QED
      BY <3>1, <3>2, <1>1
  <2>2. Seqs(Recs(a, q)) =
          Then(Then(HeldSeqs(a, q), Newest(OnLink(a, n, q))), Seqs(Recs(n, q)))
    BY <2>1, <1>1, <1>7, <1>12 DEF SecondHop
  <2>3. Seqs(Recs(a, q)) = Then(OnTheWay(a, n, q), Seqs(Recs(n, q)))
    BY <2>2, <1>1, OnTheWayProperty
  <2>4. Len(Recs(n, q)) < CountSpace
    <3> DEFINE w == Then(HeldSeqs(a, q), Newest(OnLink(a, n, q)))
    <3>1. /\ HeldSeqs(a, q) \in Seq(SeqNos) /\ Newest(OnLink(a, n, q)) \in Seq(SeqNos)
          /\ Seqs(Recs(n, q)) \in Seq(SeqNos)
      BY <1>1, HopTypes
    <3>2. w \in Seq(SeqNos)
      BY <3>1, ThenProperty
    <3> HIDE DEF w
    <3>3. /\ Len(Then(w, Seqs(Recs(n, q)))) = Len(w) + Len(Seqs(Recs(n, q)))
          /\ Len(w) \in Nat /\ Len(Seqs(Recs(n, q))) \in Nat
      BY <3>1, <3>2, ThenProperty
    <3>4. Len(Recs(a, q)) = Len(w) + Len(Recs(n, q))
      BY <3>3, <2>2, <1>1, <1>2 DEF w
    <3> QED
      BY <3>3, <3>4, <1>1, <1>2, <1>9, NumberAssumption
  <2>5. \A l \in TtlAt(q, n) : l = q.ttl - 2
    BY <2>1, <1>1, <1>6, <1>12 DEF TtlAt
  <2>6. (q.ttl - 1) - 1 = q.ttl - 2
    BY <1>1
  <2> QED
    BY <2>1, <2>3, <2>4, <2>5, <2>6, <1>3, <1>4, <1>9 DEF Then
<1> QED
  BY <1>6, <1>11, <1>12

\* On every hop, what one router answers to SENDFILE-STATS is what the next one answers,
\* with a ttl one lower, preceded by what is on the way between them: whatever transfers
\* share the routers and the connections, whoever crashes and whatever the routes are.
THEOREM AnswersAgree == Spec => []HopsRecorded
<1>1. Init => DataInv /\ HopInv
  BY InitData, HopInit
<1>2. DataInv /\ HopInv /\ [Next]_vars => DataInv' /\ HopInv'
  BY NextData, HopNext
<1>3. DataInv /\ HopInv => HopsRecorded
  BY HopAnswers
<1> QED
  BY <1>1, <1>2, <1>3, PTL DEF Spec
-----------------------------------------------------------------------------
(* Routers that are held *)

\* Each router of H waits for one of H, or has no connection.
Ring(H) == \A a \in H : Unconnected(a) \/ \E b \in H : WaitsFor(a, b)

\* A router that waits, or has no connection, and the one it sends to.
LEMMA RingProperty ==
  ASSUME Shape, Links, NEW H \in SUBSET Routers, Ring(H), NEW a \in H
  PROVE  /\ task[a] # Idle /\ a \in up /\ a \notin dead
         /\ task[a] \in SendTask \/ task[a] \in ForwardTask
         /\ SendsTo(a) \in Routers
         /\ \/ sock[a][SendsTo(a)] \in {"none", "failed"}
            \/ /\ sock[a][SendsTo(a)] = "open" /\ Len(chan[a][SendsTo(a)]) = Room
               /\ SendsTo(a) \in H
<1>1. a \in Routers /\ task[a] # Idle
  BY DEF Ring, Unconnected, WaitsFor
<1>2. a \in up /\ a \notin dead
  BY <1>1 DEF Links, Shape
<1>3. task[a] \in SendTask \/ task[a] \in ForwardTask
  BY <1>1 DEF Shape
<1>4. SendsTo(a) \in Routers
  <2>1. CASE task[a] \in SendTask
    BY <2>1 DEF SendTask, SendsTo
  <2>2. CASE task[a] \in ForwardTask
    BY <2>2 DEF ForwardTask, PacketSet, SendsTo, ForwardTo
  <2> QED
    BY <2>1, <2>2, <1>3
<1> QED
  BY <1>1, <1>2, <1>3, <1>4 DEF Ring, Unconnected, WaitsFor

\* A step leaves such a router, its socket and, to another of them, its connection
\* alone.
LEMMA RingKept ==
  ASSUME Shape, Links, Next, NEW H \in SUBSET Routers, Ring(H), NEW a \in H
  PROVE  /\ task'[a] = task[a]
         /\ sock'[a][SendsTo(a)] = sock[a][SendsTo(a)]
         /\ SendsTo(a) \in H => chan'[a][SendsTo(a)] = chan[a][SendsTo(a)]
<1>1. PICK b \in Routers : b = SendsTo(a)
  BY RingProperty
<1>2. /\ a \in Routers /\ task[a] # Idle /\ a \in up
      /\ \/ sock[a][b] \in {"none", "failed"}
         \/ sock[a][b] = "open" /\ Len(chan[a][b]) = Room /\ b \in H
  BY <1>1, RingProperty
<1>3. /\ sock \in [Routers -> [Routers -> Ends]]
      /\ chan \in [Routers -> [Routers -> Seq(PacketSet)]]
      /\ task \in [Routers -> {Idle} \cup SendTask \cup ForwardTask]
  BY DEF Shape
<1> DEFINE Kept == /\ task'[a] = task[a] /\ sock'[a][b] = sock[a][b]
                   /\ b \in H => chan'[a][b] = chan[a][b]
<1>4. ASSUME NEW r \in Routers, InitResponse(r)
      PROVE  Kept
  <2>1. r # a
    BY <1>2, <1>4 DEF InitResponse
  <2> QED
    BY <2>1, <1>2, <1>3, <1>4 DEF InitResponse
<1>5. ASSUME NEW r \in Routers, r \notin H, Exit(r)
      PROVE  Kept
  <2>1. TaskSet(r, Idle) /\ r # a
    BY <1>5, ExitEffect
  <2>2. b # r => sock'[a][b] = sock[a][b] /\ chan'[a][b] = chan[a][b]
    BY <2>1, <1>2, <1>5, ExitEffect
  <2>3. b = r => sock'[a][b] = sock[a][b] /\ b \notin H
    <3>1. b = r => sock[a][b] # "open"
      BY <1>2, <1>5
    <3>2. b = r => sock'[a][b] = sock[a][b] \/ sock'[a][b] \in {"closed", "reset"}
      BY <2>1, <1>2, <1>5, ExitEffect
    <3>3. b = r => sock'[a][b] = IF sock[a][b] # "open" THEN sock[a][b] ELSE sock'[a][b]
      <4>1. PICK R : sock' = [x \in Routers |->
                       IF x = r THEN [y \in Routers |-> "none"]
                       ELSE [sock[x] EXCEPT ![r] =
                               IF @ # "open" THEN @
                               ELSE IF x \in R THEN "reset" ELSE "closed"]]
        BY <1>5 DEF Exit
      <4> QED
        BY <4>1, <2>1, <1>2, <1>3
    <3> QED
      BY <3>1, <3>3, <1>5
  <2> QED
    BY <2>1, <2>2, <2>3, <1>2 DEF TaskSet
<1>6. ASSUME NEW r \in Routers, CrashResponse(r)
      PROVE  Kept
  <2>1. r \notin H
    BY <1>6, RingProperty DEF CrashResponse
  <2> QED
    BY <2>1, <1>5, <1>6 DEF CrashResponse
<1>7. ASSUME NEW r \in Routers, BrokenPipe(r)
      PROVE  Kept
  <2>1. r \notin H
    <3>1. sock[r][SendsTo(r)] = "reset"
      <4>1. CASE task[r].at = "sendfile" /\ sock[r][task[r].to] = "reset"
        BY <4>1 DEF SendsTo
      <4>2. CASE /\ task[r].at = "forward"
                 /\ sock[r][ForwardTo(r, task[r].p.dest)] = "reset"
        BY <4>2 DEF SendsTo
      <4> QED
        BY <4>1, <4>2, <1>7 DEF BrokenPipe
    <3> QED
      BY <3>1, RingProperty
  <2> QED
    BY <2>1, <1>5, <1>7 DEF BrokenPipe
<1>8. ASSUME NEW r \in Routers, NEW p, SendAll(r, SendsTo(r), p)
      PROVE  r \notin H
  BY <1>8, RingProperty, NumberAssumption DEF SendAll
<1>9. ASSUME NEW r \in Routers, SendPacket(r) \/ Forward(r)
      PROVE  Kept
  <2>1. PICK to, p : /\ to = SendsTo(r) /\ SendAll(r, to, p)
                     /\ \E t : task' = [task EXCEPT ![r] = t]
    <3>1. CASE SendPacket(r)
      BY <3>1 DEF SendPacket, SendsTo
    <3>2. CASE Forward(r)
      BY <3>2 DEF Forward, SendsTo
    <3> QED
      BY <3>1, <3>2, <1>9
  <2>2. r # a
    BY <2>1, <1>8
  <2>3. task'[a] = task[a]
    BY <2>1, <2>2, <1>2, <1>3
  <2>4. sock'[a][b] = sock[a][b] /\ chan'[a][b] = chan[a][b]
    <3>1. CASE UNCHANGED sock /\ \E s : chan' = [chan EXCEPT ![r][to] = s]
      BY <3>1, <2>2, <1>2, <1>3
    <3>2. CASE UNCHANGED chan /\ \E e : sock' = [sock EXCEPT ![r][to] = e]
      BY <3>2, <2>2, <1>2, <1>3
    <3> QED
      BY <3>1, <3>2, <2>1 DEF SendAll
  <2> QED
    BY <2>3, <2>4
<1>10. ASSUME NEW q \in Transfers, NEW to \in NextHop[q.from][q.dest], SendFile(q, to)
       PROVE  Kept
  <2>1. q.from # a /\ q.from \in Routers
    BY <1>2, <1>10, TransferAssumption DEF SendFile
  <2>2. chan' = chan /\ (\E e : sock' = [sock EXCEPT ![q.from][to] = e])
        /\ (task' = task \/ \E t : task' = [task EXCEPT ![q.from] = t])
    BY <1>10 DEF SendFile
  <2> QED
    BY <2>1, <2>2, <1>2, <1>3
<1>11. ASSUME NEW s \in Routers, NEW r \in Routers, Receive(s, r)
       PROVE  Kept
  <2>1. r # a /\ r \notin H
    BY <1>2, <1>11, RingProperty DEF Receive
  <2>2. sock' = sock /\ (\E c : chan' = [chan EXCEPT ![s][r] = c])
        /\ (task' = task \/ \E t : task' = [task EXCEPT ![r] = t])
    BY <1>11 DEF Receive
  <2> QED
    BY <2>1, <2>2, <1>2, <1>3
<1> HIDE DEF Kept
<1>12. Kept
  BY <1>4, <1>6, <1>7, <1>9, <1>10, <1>11 DEF Next
<1> QED
  BY <1>1, <1>12 DEF Kept

\* Routers that hold one another, in a ring of any length, or wait for one that has no
\* connection, are held for ever, in whatever order the others go on or crash.
THEOREM HeldRoutersStay == Spec => HeldForEver
<1>1. DataInv /\ [Next]_vars => [\A r \in Routers : Held(r) => Held(r)']_vars
  <2> SUFFICES ASSUME DataInv, Next, NEW r \in Routers, Held(r)
               PROVE  Held(r)'
    OBVIOUS
  <2>1. PICK H \in SUBSET Routers : r \in H /\ Ring(H)
    BY DEF Held, Ring
  <2>2. Shape /\ Links
    BY DEF DataInv
  <2>3. ASSUME NEW a \in H
        PROVE  Unconnected(a)' \/ \E b \in H : WaitsFor(a, b)'
    <3>1. task'[a] = task[a]
      BY <2>1, <2>2, RingKept
    <3>2. SendsTo(a)' = SendsTo(a)
      BY <3>1 DEF SendsTo, ForwardTo
    <3>3. PICK b : b = SendsTo(a)
      OBVIOUS
    <3>4. sock'[a][b] = sock[a][b] /\ (b \in H => chan'[a][b] = chan[a][b])
      BY <2>1, <2>2, <3>3, RingKept
    <3>5. /\ task[a] # Idle
          /\ \/ sock[a][b] \in {"none", "failed"}
             \/ sock[a][b] = "open" /\ Len(chan[a][b]) = Room /\ b \in H
      BY <2>1, <2>2, <3>3, RingProperty
    <3> QED
      BY <3>1, <3>2, <3>3, <3>4, <3>5 DEF Unconnected, WaitsFor
  <2> QED
    BY <2>1, <2>3 DEF Held
<1> QED
  BY <1>1, NeverAGap, PTL DEF HeldForEver, Spec
=============================================================================
