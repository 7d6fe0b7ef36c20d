-------------------------- MODULE EventLoop_proofs --------------------------
(***************************************************************************)
(* That the loop serves what it should, for every set of commands, every   *)
(* size of their messages, every number of neighbours, connections and     *)
(* descriptors: descriptors stay what the lists say they are, none of a    *)
(* pass blocks, messages are received whole, and the timer is never early. *)
(*                                                                         *)
(* These depend on each other.  INIT opens sockets, and a second one would *)
(* leave the first ones in master_list; that there is no second one is a   *)
(* fact about what is on the way to the router, and that the pieces of a   *)
(* message stay together a fact about its descriptor being no other's.     *)
(***************************************************************************)
EXTENDS EventLoop, FiniteSetTheorems, SequenceTheorems, WellFoundedInduction, TLAPS

-----------------------------------------------------------------------------
(* The inductive invariant *)

Piece == (Commands \cup {"packet"}) \X Nat
Connection == [unread : Seq(Piece), rest : Seq(Piece), end : {"open", "fin", "rst"}]

\* The pieces of a message.
Total(m) == IF m = "packet" THEN PacketSize ELSE HeaderSize + PayloadSize[m]

\* What is received of fd, unread on it, and still to be sent of its message.
Stream(fd) ==
  (IF task.at = "recv" /\ task.fd = fd THEN task.got ELSE << >>)
    \o (conn[fd].unread \o conn[fd].rest)

\* The command of which the payload is awaited on fd, or "header".
Awaited(fd) ==
  IF task.at = "recv" /\ task.fd = fd /\ task.part \in Commands THEN task.part ELSE "header"

\* What may come on fd.
Kinds(fd) == IF fd \in data_conn_list THEN {"packet"} ELSE Commands

\* Each piece is followed by those of the same message, the last one by a first one.
Flow(s) ==
  /\ \A k \in 1 .. Len(s) : s[k][2] \in 1 .. Total(s[k][1])
  /\ \A k, l \in 1 .. Len(s) :
       k <= l /\ s[k][2] + (l - k) <= Total(s[k][1]) => s[l] = <<s[k][1], s[k][2] + (l - k)>>
  /\ \A k, l \in 1 .. Len(s) : l = k + 1 /\ s[k][2] = Total(s[k][1]) => s[l][2] = 1

\* The stream s, of the messages ms, goes on where the router is, before the
\* payload of a or before a message; if it is open, it ends with a whole message.
StreamOK(s, ms, a, open) ==
  /\ s \in Seq(Piece)
  /\ \A k \in 1 .. Len(s) : s[k][1] \in ms
  /\ Flow(s)
  /\ s # << >> => IF a = "header" THEN s[1][2] = 1 ELSE s[1] = <<a, HeaderSize + 1>>
  /\ open => IF s = << >> THEN a = "header" ELSE s[Len(s)][2] = Total(s[Len(s)][1])

\* The stream s has the pieces of an INIT, from b + 1 on, or its payload is awaited.
InitIn(s, a, b) ==
  \/ \E k \in 1 .. Len(s) : s[k] = <<"init", b + k>>
  \/ a = "init" /\ b = HeaderSize

Shape ==
  /\ flag_init \in {0, 1}
  /\ data_socket \in Fds \cup {NoFd} /\ router_socket \in Fds \cup {NoFd}
  /\ control_conn_list \in SUBSET Fds /\ data_conn_list \in SUBSET Fds
  /\ dest_data_sockets \in SUBSET Fds
  /\ watch_list \in SUBSET Fds
  /\ head_fd \in Fds
  /\ conn \in [Fds -> Connection]
  /\ pending \in [{"control", "data"} -> Nat]
  /\ datagrams \in 0 .. MaxDatagrams
  /\ left \in 0 .. Interval /\ until \in 0 .. left

\* The sockets of INIT are there after it, and only then.
Sockets ==
  IF flag_init = 0 THEN data_socket = NoFd /\ router_socket = NoFd
  ELSE data_socket \in Fds /\ router_socket \in Fds

\* What the router does, and what it receives and where.
Reception ==
  \/ task \in {Selecting, Passing, [at |-> "hung"], [at |-> "exited"]}
  \/ /\ task \in [at : {"recv"}, fd : Fds, part : Commands \cup {"header", "packet"},
                  size : Nat \ {0}, got : Seq(Piece)]
     /\ Len(task.got) <= task.size
     /\ task.fd \in Connections /\ task.fd \notin watch_list
     /\ \/ task.part = "header" /\ task.fd \in control_conn_list /\ task.size = HeaderSize
        \/ task.part = "packet" /\ task.fd \in data_conn_list /\ task.size = PacketSize
        \/ /\ task.part \in Commands /\ task.fd \in control_conn_list
           /\ task.size = PayloadSize[task.part]
  \/ /\ task \in [at : {"send"}, fd : Fds, part : {"sendfile", "packet"}]
     /\ task.fd \notin watch_list

\* There are descriptors enough.
Counted ==
  /\ Cardinality(Connections) + pending.control + pending.data <= MaxConns
  /\ Cardinality(dest_data_sockets) <= NbrCount

Streams ==
  \A fd \in Connections :
    /\ StreamOK(Stream(fd), Kinds(fd), Awaited(fd), conn[fd].end = "open")
    /\ conn[fd].end # "open" => conn[fd].rest = << >>

\* INIT is on the way once, and not any more when it has been processed.
InitOnce ==
  \A fd, gd \in Connections : \A b, c \in Int :
    InitIn(Stream(fd), Awaited(fd), b) =>
      /\ flag_init = 0
      /\ InitIn(Stream(gd), Awaited(gd), c) => fd = gd /\ b = c

LoopInv ==
  /\ Shape /\ Sockets /\ Registered /\ StillReady
  /\ Reception /\ Counted /\ Streams /\ InitOnce

-----------------------------------------------------------------------------
(* Descriptors *)

\* Min finds the least element of a nonempty set of naturals.
LEMMA MinProperty ==
  ASSUME NEW S \in SUBSET Nat, S # {}
  PROVE  /\ Min(S) \in S
         /\ \A x \in S : Min(S) <= x
<1> DEFINE R == {ss \in Nat \X Nat : ss[1] < ss[2]}
<1>1. IsWellFoundedOn(R, Nat)
  BY NatLessThanWellFounded, Zenon DEF OpToRel
<1>2. ASSUME NEW a \in Nat, NEW b \in Nat, a < b
      PROVE  <<a, b>> \in R
  BY <1>2
<1> HIDE DEF R
<1>3. \E x \in S : \A y \in S : ~ (<<y, x>> \in R)
  BY <1>1, WFMin, Zenon
<1>4. PICK x \in S : \A y \in S : ~ (y < x)
  BY <1>2, <1>3
<1>5. \A y \in S : x <= y
  BY <1>4
<1> QED
  BY <1>5 DEF Min

\* Max finds the greatest element of a nonempty set of descriptors.
LEMMA MaxProperty ==
  ASSUME NEW S \in SUBSET Fds, S # {}
  PROVE  /\ Max(S) \in S
         /\ \A x \in S : x <= Max(S)
<1> DEFINE T == {k \in Nat : \E x \in S : k = MaxFd - x}
<1>1. PICK z \in S : TRUE
  OBVIOUS
<1>2. /\ T \in SUBSET Nat
      /\ MaxFd - z \in T
  BY LoopAssumption DEF Fds
<1>3. /\ Min(T) \in T
      /\ \A k \in T : Min(T) <= k
  BY <1>2, MinProperty
<1>4. PICK x \in S : Min(T) = MaxFd - x
  BY <1>3
<1>5. \A y \in S : y <= x
  <2> TAKE y \in S
  <2>1. MaxFd - y \in T
    BY LoopAssumption DEF Fds
  <2> QED
    BY <2>1, <1>3, <1>4, LoopAssumption DEF Fds
<1> QED
  BY <1>5, LoopAssumption DEF Max, Fds

\* Sets of descriptors are finite.
LEMMA FdsFinite ==
  ASSUME NEW S \in SUBSET Fds
  PROVE  IsFiniteSet(S) /\ Cardinality(S) \in Nat
<1>1. IsFiniteSet(Fds)
  BY FS_Interval, LoopAssumption DEF Fds
<1>2. IsFiniteSet(S)
  BY <1>1, FS_Subset
<1> QED
  BY <1>2, FS_CardinalityType

\* The free descriptors below f.
LEMMA BelowProperty ==
  ASSUME NEW f
  PROVE  /\ {g \in FreeFds : g < f} \in SUBSET Fds
         /\ FreeFds \in SUBSET Fds
BY DEF FreeFds

\* Lowest(k) are at most k descriptors.
LEMMA LowestBound ==
  ASSUME NEW k \in Nat
  PROVE  /\ Lowest(k) \in SUBSET FreeFds
         /\ Lowest(k) \in SUBSET Fds
         /\ Cardinality(Lowest(k)) <= k
<1> DEFINE L == Lowest(k)
<1>1. L \in SUBSET FreeFds /\ L \in SUBSET Fds
  BY DEF Lowest, FreeFds
<1>2. CASE L = {}
  BY <1>1, <1>2, FS_EmptySet
<1>3. CASE L # {}
  <2> DEFINE m == Max(L)
             B == {g \in FreeFds : g < m}
  <2>1. m \in L /\ \A x \in L : x <= m
    <3> HIDE DEF L
    <3> QED
      BY <1>1, <1>3, MaxProperty
  <2>2. Cardinality(B) < k
    BY <2>1 DEF Lowest
  <2>3. L \ {m} \in SUBSET B
    <3> SUFFICES ASSUME NEW x \in L, x # m
                 PROVE  x \in FreeFds /\ x < m
      OBVIOUS
    <3>1. x <= m /\ x \in 0 .. MaxFd /\ m \in 0 .. MaxFd /\ x \in FreeFds
      BY <1>1, <2>1 DEF Fds
    <3> QED
      BY <3>1, LoopAssumption
  <2>4. B \in SUBSET Fds
    BY BelowProperty
  <2> HIDE DEF L, B, m
  <2>5. /\ IsFiniteSet(B) /\ Cardinality(B) \in Nat
        /\ IsFiniteSet(L) /\ Cardinality(L) \in Nat
    BY <2>4, <1>1, FdsFinite
  <2>6. Cardinality(L \ {m}) = Cardinality(L) - 1
    BY <2>1, <2>5, FS_RemoveElement
  <2>7. Cardinality(L \ {m}) <= Cardinality(B)
    BY <2>3, <2>5, FS_Subset
  <2>8. Cardinality(L) <= k
    BY <2>2, <2>5, <2>6, <2>7
  <2> QED
    BY <2>8, <1>1 DEF L
<1> QED
  BY <1>2, <1>3

\* If two are free, Lowest(2) are the least and another one, ...
LEMMA LowestTwo ==
  ASSUME Cardinality(FreeFds) >= 2
  PROVE  /\ Min(FreeFds) \in FreeFds /\ Max(Lowest(2)) \in FreeFds
         /\ Min(FreeFds) # Max(Lowest(2))
         /\ Lowest(2) = {Min(FreeFds), Max(Lowest(2))}
<1> DEFINE m == Min(FreeFds)
           F == FreeFds
           R == F \ {m}
           n == Min(R)
           Below(f) == {g \in F : g < f}
<1>1. F \in SUBSET Fds /\ F \in SUBSET Nat
  BY LoopAssumption DEF FreeFds, Fds
<1>2. IsFiniteSet(F) /\ Cardinality(F) \in Nat /\ Cardinality(F) >= 2
  <2> HIDE DEF F
  <2>1. IsFiniteSet(F) /\ Cardinality(F) \in Nat
    BY <1>1, FdsFinite
  <2> QED
    BY <2>1 DEF F
<1>3. F # {}
  BY <1>2, FS_EmptySet
<1>4. m \in F /\ \A x \in F : m <= x
  BY <1>1, <1>3, MinProperty
<1>5. R # {} /\ R \in SUBSET Nat
  <2> HIDE DEF F, m
  <2>1. Cardinality(R) = Cardinality(F) - 1
    BY <1>2, <1>4, FS_RemoveElement
  <2> QED
    <3> HIDE DEF R
    <3>1. Cardinality(R) # 0
      BY <2>1, <1>2
    <3>2. R # {}
      BY <3>1, FS_EmptySet
    <3>3. R \in SUBSET F
      BY DEF R
    <3> QED
      BY <3>2, <3>3, <1>1
<1>6. n \in R /\ \A x \in R : n <= x
  <2> HIDE DEF R
  <2> QED
    BY <1>5, MinProperty
<1>7. m \in Nat /\ n \in Nat /\ m < n /\ n \in F
  <2>1. m \in Nat /\ n \in Nat /\ m <= n /\ m # n
    BY <1>1, <1>4, <1>6
  <2> QED
    BY <2>1, <1>6
<1>8. Below(m) = {}
  <2> SUFFICES ASSUME NEW g \in F, g < m
               PROVE  FALSE
    OBVIOUS
  <2>1. g \in Nat /\ m <= g
    BY <1>1, <1>4
  <2> QED
    BY <2>1, <1>7
<1>9. Below(n) = {m}
  <2>1. ASSUME NEW g \in F, g < n PROVE g = m
    <3>1. CASE g \in R
      BY <1>6, <1>7, <2>1, <3>1, <1>1
    <3> QED
      BY <3>1
  <2> QED
    BY <2>1, <1>4, <1>7
<1>10. ASSUME NEW f \in F, f # m, f # n
       PROVE  Cardinality(Below(f)) >= 2
  <2>1. n < f /\ m < f
    <3>1. n <= f /\ f \in Nat
      BY <1>6, <1>10, <1>1
    <3> QED
      BY <3>1, <1>7, <1>10
  <2>2. {m, n} \in SUBSET Below(f) /\ Below(f) \in SUBSET F
    BY <2>1, <1>4, <1>7
  <2> DEFINE B == Below(f)
  <2> HIDE DEF m, n, F, B
  <2>3. IsFiniteSet(B) /\ Cardinality(B) \in Nat
    BY <2>2, <1>2, FS_Subset, FS_CardinalityType DEF B
  <2>4. Cardinality({m} \cup {n}) = 2
    <3>1. IsFiniteSet({m}) /\ Cardinality({m}) = 1
      BY FS_Singleton
    <3>2. n \notin {m}
      BY <1>7
    <3> QED
      BY <3>1, <3>2, FS_AddElement
  <2>5. {m} \cup {n} \in SUBSET B
    BY <2>2 DEF B
  <2>6. Cardinality({m} \cup {n}) <= Cardinality(B)
    BY <2>3, <2>5, FS_Subset
  <2> QED
    BY <2>3, <2>4, <2>6 DEF B
<1>11. Lowest(2) = {m, n}
  <2>1. Lowest(2) = {f \in F : Cardinality(Below(f)) < 2}
    BY DEF Lowest
  <2>2. Cardinality(Below(m)) < 2 /\ Cardinality(Below(n)) < 2
    <3> DEFINE none == Below(m)
               one == Below(n)
    <3>1. none = {} /\ one = {m}
      BY <1>8, <1>9
    <3> HIDE DEF none, one, m
    <3>2. Cardinality(none) = 0 /\ Cardinality(one) = 1
      BY <3>1, FS_EmptySet, FS_Singleton
    <3>3. Cardinality(none) < 2 /\ Cardinality(one) < 2
      BY <3>2
    <3> QED
      BY <3>3 DEF none, one
  <2>3. ASSUME NEW f \in F, Cardinality(Below(f)) < 2 PROVE f \in {m, n}
    <3>1. Cardinality(Below(f)) \in Nat
      <4> DEFINE B == Below(f)
      <4>1. B \in SUBSET Fds
        BY <1>1
      <4> HIDE DEF B
      <4>2. Cardinality(B) \in Nat
        BY <4>1, FdsFinite
      <4> QED
        BY <4>2 DEF B
    <3> QED
      BY <3>1, <2>3, <1>10
  <2> HIDE DEF m, n, F, Below
  <2> QED
    BY <2>1, <2>2, <2>3, <1>4, <1>7
<1>12. Max(Lowest(2)) = n
  <2>1. Lowest(2) \in SUBSET Fds /\ Lowest(2) # {}
    BY <1>11, LowestBound
  <2>2. Max(Lowest(2)) \in Lowest(2) /\ \A x \in Lowest(2) : x <= Max(Lowest(2))
    BY <2>1, MaxProperty
  <2> HIDE DEF m, n
  <2>3. Max(Lowest(2)) \in {m, n} /\ n <= Max(Lowest(2))
    BY <2>2, <1>11
  <2> QED
    BY <2>3, <1>7
<1> QED
  BY <1>4, <1>7, <1>11, <1>12

\* ... and the next k after them are at most k.
LEMMA LowestAfterTwo ==
  ASSUME NEW k \in Nat, Cardinality(FreeFds) >= 2
  PROVE  /\ Lowest(k + 2) \ Lowest(2) \in SUBSET FreeFds
         /\ Cardinality(Lowest(k + 2) \ Lowest(2)) <= k
<1> DEFINE L == Lowest(k + 2)
           T == Lowest(2)
<1>1. L \in SUBSET FreeFds /\ L \in SUBSET Fds /\ Cardinality(L) <= k + 2
  <2>1. k + 2 \in Nat
    OBVIOUS
  <2> QED
    BY <2>1, LowestBound
<1>2. T \in SUBSET L
  <2> SUFFICES ASSUME NEW f \in FreeFds, Cardinality({g \in FreeFds : g < f}) < 2
               PROVE  Cardinality({g \in FreeFds : g < f}) < k + 2
    BY DEF Lowest
  <2> DEFINE B == {g \in FreeFds : g < f}
  <2>1. B \in SUBSET Fds
    BY BelowProperty
  <2> HIDE DEF B
  <2>2. Cardinality(B) \in Nat
    BY <2>1, FdsFinite
  <2>3. Cardinality(B) < 2
    BY DEF B
  <2>4. Cardinality(B) < k + 2
    BY <2>2, <2>3
  <2> QED
    BY <2>4 DEF B
<1>3. Cardinality(T) = 2
  <2> DEFINE m == Min(FreeFds)
             n == Max(Lowest(2))
  <2>1. T = {m} \cup {n} /\ n \notin {m}
    BY LowestTwo
  <2> HIDE DEF m, n, T
  <2>2. IsFiniteSet({m}) /\ Cardinality({m}) = 1
    BY FS_Singleton
  <2> QED
    BY <2>1, <2>2, FS_AddElement
<1> HIDE DEF L, T
<1>4. IsFiniteSet(L) /\ Cardinality(L) \in Nat
  BY <1>1, FdsFinite
<1>5. L \cap T = T
  BY <1>2
<1>6. Cardinality(L \ T) = Cardinality(L) - Cardinality(T)
  BY <1>4, <1>5, FS_Difference
<1>7. Cardinality(L \ T) <= k
  BY <1>1, <1>3, <1>4, <1>6
<1> QED
  BY <1>1, <1>7 DEF L, T

-----------------------------------------------------------------------------
(* Streams *)

\* Messages have at least one piece.
LEMMA TotalProperty ==
  /\ Total("packet") = PacketSize /\ PacketSize \in Nat \ {0}
  /\ HeaderSize \in Nat \ {0}
  /\ \A c \in Commands : /\ c # "packet" /\ c # "header"
                         /\ PayloadSize[c] \in Nat
                         /\ Total(c) = HeaderSize + PayloadSize[c]
  /\ \A m \in Commands \cup {"packet"} : Total(m) \in Nat \ {0}
BY SizeAssumption DEF Total

\* Pieces(m, Total(m)) is the message m.
LEMMA PiecesProperty ==
  ASSUME NEW m \in Commands \cup {"packet"}
  PROVE  /\ Pieces(m, Total(m)) \in Seq(Piece)
         /\ Len(Pieces(m, Total(m))) = Total(m)
         /\ \A k \in 1 .. Total(m) : Pieces(m, Total(m))[k] = <<m, k>>
<1>1. Total(m) \in Nat
  BY TotalProperty
<1>2. \A k \in 1 .. Total(m) : <<m, k>> \in Piece
  BY <1>1 DEF Piece
<1> QED
  BY <1>1, <1>2 DEF Pieces

\* Pieces are pairs.
LEMMA PieceProperty ==
  ASSUME NEW s \in Seq(Piece), NEW k \in 1 .. Len(s)
  PROVE  /\ s[k] \in Piece
         /\ s[k] = <<s[k][1], s[k][2]>>
         /\ s[k][1] \in Commands \cup {"packet"} /\ s[k][2] \in Nat
         /\ Total(s[k][1]) \in Nat \ {0}
<1>1. s[k] \in Piece
  OBVIOUS
<1>2. s[k] = <<s[k][1], s[k][2]>> /\ s[k][1] \in Commands \cup {"packet"} /\ s[k][2] \in Nat
  BY <1>1 DEF Piece
<1> QED
  BY <1>1, <1>2, TotalProperty

\* t is what is left of s after n pieces; with n = 0, t is the beginning of s.
Shifted(t, s, n) ==
  /\ t \in Seq(Piece) /\ s \in Seq(Piece)
  /\ n + Len(t) <= Len(s)
  /\ \A k \in 1 .. Len(t) : t[k] = s[n + k]

\* A part of a stream flows.
LEMMA ShiftedFlow ==
  ASSUME NEW t, NEW s, NEW n \in Nat, Shifted(t, s, n), Flow(s)
  PROVE  Flow(t)
<1>1. /\ Len(t) \in Nat /\ Len(s) \in Nat
      /\ n + Len(t) <= Len(s)
  BY DEF Shifted
<1>2. ASSUME NEW k \in 1 .. Len(t) PROVE n + k \in 1 .. Len(s) /\ t[k] = s[n + k]
  BY <1>1 DEF Shifted
<1>3. ASSUME NEW k \in 1 .. Len(t)
      PROVE  t[k][2] \in 1 .. Total(t[k][1])
  BY <1>2 DEF Flow
<1>4. ASSUME NEW k \in 1 .. Len(t), NEW l \in 1 .. Len(t), k <= l,
             t[k][2] + (l - k) <= Total(t[k][1])
      PROVE  t[l] = <<t[k][1], t[k][2] + (l - k)>>
  <2> DEFINE K == n + k
             L == n + l
  <2>1. L - K = l - k /\ K <= L
    BY <1>4, <1>1
  <2>2. K \in 1 .. Len(s) /\ t[k] = s[K] /\ L \in 1 .. Len(s) /\ t[l] = s[L]
    BY <1>2
  <2> HIDE DEF K, L
  <2>3. s[K][2] + (L - K) <= Total(s[K][1])
    BY <2>1, <2>2, <1>4
  <2>4. s[L] = <<s[K][1], s[K][2] + (L - K)>>
    BY <2>1, <2>2, <2>3 DEF Flow
  <2> QED
    BY <2>1, <2>2, <2>4
<1>5. ASSUME NEW k \in 1 .. Len(t), NEW l \in 1 .. Len(t), l = k + 1,
             t[k][2] = Total(t[k][1])
      PROVE  t[l][2] = 1
  <2> DEFINE K == n + k
             L == n + l
  <2>1. L = K + 1
    BY <1>5
  <2>2. K \in 1 .. Len(s) /\ t[k] = s[K] /\ L \in 1 .. Len(s) /\ t[l] = s[L]
    BY <1>2
  <2> HIDE DEF K, L
  <2> QED
    BY <2>1, <2>2, <1>5 DEF Flow
<1> QED
  BY <1>3, <1>4, <1>5 DEF Flow

\* The beginning of a stream is one.
LEMMA StreamPrefix ==
  ASSUME NEW t, NEW s, NEW ms, NEW a, NEW o, Shifted(t, s, 0), StreamOK(s, ms, a, o)
  PROVE  StreamOK(t, ms, a, FALSE)
<1>1. Flow(t)
  BY ShiftedFlow DEF StreamOK
<1>2. Len(t) \in Nat /\ Len(s) \in Nat /\ Len(t) <= Len(s)
  BY DEF Shifted
<1>3. \A k \in 1 .. Len(t) : t[k] = s[k] /\ k \in 1 .. Len(s)
  BY <1>2 DEF Shifted
<1>4. t # << >> => 1 \in 1 .. Len(t) /\ s # << >>
  BY <1>2, EmptySeq DEF Shifted
<1> QED
  BY <1>1, <1>3, <1>4 DEF StreamOK, Shifted

\* What is left of a stream after n pieces is one, if it is known where it begins.
LEMMA StreamSuffix ==
  ASSUME NEW t, NEW s, NEW n \in Nat, NEW ms, NEW a, NEW b, NEW o,
         Shifted(t, s, n), n + Len(t) = Len(s), StreamOK(s, ms, a, o),
         t # << >> => IF b = "header" THEN t[1][2] = 1 ELSE t[1] = <<b, HeaderSize + 1>>,
         o /\ t = << >> => b = "header"
  PROVE  StreamOK(t, ms, b, o)
<1>1. Flow(t)
  BY ShiftedFlow DEF StreamOK
<1>2. Len(t) \in Nat /\ Len(s) \in Nat
  BY DEF Shifted
<1>3. \A k \in 1 .. Len(t) : t[k] = s[n + k] /\ n + k \in 1 .. Len(s)
  BY <1>2 DEF Shifted
<1>4. t # << >> => Len(t) \in 1 .. Len(t) /\ s # << >>
  BY <1>2, EmptySeq DEF Shifted
<1>5. t # << >> => t[Len(t)] = s[Len(s)]
  BY <1>3, <1>4
<1>6. \A k \in 1 .. Len(t) : t[k][1] \in ms
  BY <1>3 DEF StreamOK
<1>7. o /\ t # << >> => t[Len(t)][2] = Total(t[Len(t)][1])
  BY <1>4, <1>5 DEF StreamOK
<1> QED
  BY <1>1, <1>6, <1>7 DEF StreamOK, Shifted

\* r is s with the pieces of the message m after it.
Extended(r, s, m) ==
  /\ r \in Seq(Piece) /\ s \in Seq(Piece) /\ m \in Commands \cup {"packet"}
  /\ Len(r) = Len(s) + Total(m)
  /\ \A k \in 1 .. Len(s) : r[k] = s[k]
  /\ \A k \in 1 .. Total(m) : r[Len(s) + k] = <<m, k>>

\* A message after a stream that ends with a whole message: the flow goes on.
LEMMA ExtendedFlow ==
  ASSUME NEW r, NEW s, NEW m, Extended(r, s, m), Flow(s),
         s # << >> => s[Len(s)][2] = Total(s[Len(s)][1])
  PROVE  Flow(r)
<1> DEFINE L == Len(s)
           T == Total(m)
<1>1. /\ L \in Nat /\ Len(r) \in Nat /\ T \in Nat \ {0} /\ Len(r) = L + T
  BY TotalProperty DEF Extended
<1>2. ASSUME NEW k \in 1 .. L
      PROVE  /\ r[k] = s[k] /\ s[k][2] \in Nat /\ Total(s[k][1]) \in Nat
             /\ L \in 1 .. L /\ s[L][2] = Total(s[L][1])
  <2>1. s # << >> /\ L \in 1 .. L
    BY <1>1, <1>2, EmptySeq
  <2> QED
    BY <2>1, <1>2, PieceProperty DEF Extended
<1>3. ASSUME NEW k \in 1 .. Len(r), k > L
      PROVE  r[k] = <<m, k - L>> /\ k - L \in 1 .. T
  <2>1. k - L \in 1 .. T /\ L + (k - L) = k
    BY <1>1, <1>3
  <2> QED
    BY <2>1 DEF Extended
<1> HIDE DEF L, T
<1>4. ASSUME NEW k \in 1 .. Len(r)
      PROVE  r[k][2] \in 1 .. Total(r[k][1])
  <2>1. CASE k <= L
    <3>1. k \in 1 .. L
      BY <2>1, <1>1
    <3> QED
      BY <3>1, <1>2 DEF Flow, L
  <2>2. CASE k > L
    BY <2>2, <1>3 DEF T
  <2> QED
    BY <2>1, <2>2, <1>1
<1>5. ASSUME NEW k \in 1 .. Len(r), NEW l \in 1 .. Len(r), k <= l,
             r[k][2] + (l - k) <= Total(r[k][1])
      PROVE  r[l] = <<r[k][1], r[k][2] + (l - k)>>
  <2>1. CASE l <= L
    <3>1. k \in 1 .. L /\ l \in 1 .. L
      BY <2>1, <1>1, <1>5
    <3>2. r[k] = s[k] /\ r[l] = s[l]
      BY <3>1, <1>2
    <3>3. s[k][2] + (l - k) <= Total(s[k][1])
      BY <3>2, <1>5
    <3> QED
      BY <3>1, <3>2, <3>3, <1>5 DEF Flow, L
  <2>2. CASE k <= L /\ l > L
    <3>1. k \in 1 .. L
      BY <2>2, <1>1
    <3>2. r[k] = s[k] /\ s[k][2] \in Nat /\ Total(s[k][1]) \in Nat
          /\ L \in 1 .. L /\ s[L][2] = Total(s[L][1])
      BY <3>1, <1>2
    <3>3. s[k][2] + (L - k) < Total(s[k][1])
      BY <3>1, <3>2, <2>2, <1>1, <1>5
    <3>4. k <= L /\ s[k][2] + (L - k) <= Total(s[k][1])
      BY <3>1, <3>2, <3>3, <1>1, SMTT(20)
    <3>5. s[L] = <<s[k][1], s[k][2] + (L - k)>>
      BY <3>1, <3>2, <3>4 DEF Flow, L
    <3>6. Total(s[k][1]) = s[k][2] + (L - k)
      BY <3>2, <3>5
    <3> QED
      BY <3>1, <3>2, <3>3, <3>6, <1>1
  <2>3. CASE k > L
    <3>1. l > L /\ (k - L) + (l - k) = l - L
      BY <2>3, <1>1, <1>5
    <3>2. r[k] = <<m, k - L>> /\ r[l] = <<m, l - L>>
      BY <2>3, <3>1, <1>3
    <3> QED
      BY <3>1, <3>2
  <2> QED
    BY <2>1, <2>2, <2>3, <1>1
<1>6. ASSUME NEW k \in 1 .. Len(r), NEW l \in 1 .. Len(r), l = k + 1,
             r[k][2] = Total(r[k][1])
      PROVE  r[l][2] = 1
  <2>1. CASE l <= L
    <3>1. k \in 1 .. L /\ l \in 1 .. L
      BY <2>1, <1>1, <1>6
    <3>2. r[k] = s[k] /\ r[l] = s[l]
      BY <3>1, <1>2
    <3> QED
      BY <3>1, <3>2, <1>6 DEF Flow, L
  <2>2. CASE k = L
    <3>1. l > L /\ l - L = 1
      BY <2>2, <1>1, <1>6
    <3> QED
      BY <3>1, <1>3
  <2>3. CASE k > L
    <3>1. r[k] = <<m, k - L>> /\ k - L = T
      BY <2>3, <1>3, <1>6 DEF T
    <3>2. l > Len(r)
      BY <3>1, <1>1, <1>6
    <3> QED
      BY <3>2, <1>1
  <2> QED
    BY <2>1, <2>2, <2>3, <1>1, <1>6
<1> QED
  BY <1>4, <1>5, <1>6 DEF Flow

\* So an open stream that is sent another message is a stream, and open.
LEMMA StreamExtended ==
  ASSUME NEW r, NEW s, NEW m, Extended(r, s, m), NEW ms, m \in ms, NEW a,
         StreamOK(s, ms, a, TRUE)
  PROVE  StreamOK(r, ms, a, TRUE)
<1> DEFINE L == Len(s)
           T == Total(m)
<1>1. /\ L \in Nat /\ Len(r) \in Nat /\ T \in Nat \ {0} /\ Len(r) = L + T
      /\ r \in Seq(Piece)
  BY TotalProperty DEF Extended
<1>2. Flow(r)
  BY ExtendedFlow DEF StreamOK
<1>3. ASSUME NEW k \in 1 .. Len(r), k > L
      PROVE  r[k] = <<m, k - L>>
  <2>1. k - L \in 1 .. T /\ L + (k - L) = k
    BY <1>1, <1>3
  <2> QED
    BY <2>1 DEF Extended
<1> HIDE DEF L, T
<1>4. \A k \in 1 .. Len(r) : r[k][1] \in ms
  <2> TAKE k \in 1 .. Len(r)
  <2>1. CASE k <= L
    <3>1. k \in 1 .. L
      BY <2>1, <1>1
    <3> QED
      BY <3>1 DEF Extended, StreamOK, L
  <2>2. CASE k > L
    BY <2>2, <1>3
  <2> QED
    BY <2>1, <2>2, <1>1
<1>5. IF a = "header" THEN r[1][2] = 1 ELSE r[1] = <<a, HeaderSize + 1>>
  <2>1. CASE s = << >>
    <3>1. L = 0 /\ a = "header"
      BY <2>1 DEF StreamOK, L
    <3>2. r[1] = <<m, 1 - L>> /\ 1 - L = 1
      BY <3>1, <1>1, <1>3
    <3> QED
      BY <3>1, <3>2
  <2>2. CASE s # << >>
    <3>1. 1 \in 1 .. L
      BY <2>2, <1>1, EmptySeq DEF Extended, L
    <3> QED
      BY <3>1, <2>2 DEF Extended, StreamOK, L
  <2> QED
    BY <2>1, <2>2
<1>6. r # << >> /\ r[Len(r)] = <<m, T>>
  <2>1. Len(r) # 0 /\ Len(r) > L /\ Len(r) - L = T /\ Len(r) \in 1 .. Len(r)
    BY <1>1
  <2> QED
    BY <2>1, <1>3
<1> QED
  BY <1>1, <1>2, <1>4, <1>5, <1>6 DEF StreamOK, T

-----------------------------------------------------------------------------
(* What has been received of a stream *)

\* The first n pieces of a stream are of one message, if that is long enough.
LEMMA FirstPieces ==
  ASSUME NEW s \in Seq(Piece), Flow(s), NEW n \in 1 .. Len(s),
         s[1][2] + (n - 1) <= Total(s[1][1]), NEW k \in 1 .. n
  PROVE  s[k] = <<s[1][1], s[1][2] + (k - 1)>>
<1>1. 1 \in 1 .. Len(s) /\ k \in 1 .. Len(s) /\ 1 <= k
  OBVIOUS
<1>2. s[1][2] \in Nat /\ Total(s[1][1]) \in Nat
  BY <1>1, PieceProperty
<1>3. s[1][2] + (k - 1) <= Total(s[1][1])
  BY <1>2
<1> QED
  BY <1>1, <1>3 DEF Flow

\* After a whole message the stream goes on with another one.
LEMMA MessageTaken ==
  ASSUME NEW t, NEW s, NEW n \in Nat \ {0}, NEW ms, NEW a, NEW o,
         Shifted(t, s, n), n + Len(t) = Len(s), StreamOK(s, ms, a, o),
         s[1][2] + (n - 1) = Total(s[1][1])
  PROVE  StreamOK(t, ms, "header", o)
<1>1. /\ s \in Seq(Piece) /\ t \in Seq(Piece) /\ Flow(s)
      /\ Len(t) \in Nat /\ Len(s) \in Nat /\ n \in 1 .. Len(s)
  BY DEF Shifted, StreamOK
<1>2. s[n] = <<s[1][1], s[1][2] + (n - 1)>>
  <2>1. n \in 1 .. n /\ s[1][2] + (n - 1) <= Total(s[1][1])
    <3>1. 1 \in 1 .. Len(s)
      BY <1>1
    <3>2. Total(s[1][1]) \in Nat
      BY <1>1, <3>1, PieceProperty
    <3> QED
      BY <3>2
  <2> QED
    BY <1>1, <2>1, FirstPieces
<1>3. s[n][2] = Total(s[n][1])
  BY <1>2
<1>4. t # << >> => t[1][2] = 1
  <2> HAVE t # << >>
  <2>1. 1 \in 1 .. Len(t)
    BY <1>1, EmptySeq
  <2>2. n + 1 \in 1 .. Len(s) /\ t[1] = s[n + 1]
    BY <2>1, <1>1 DEF Shifted
  <2> QED
    BY <2>2, <1>1, <1>3 DEF Flow
<1> QED
  BY <1>4, StreamSuffix

\* After a header it goes on with the payload.
LEMMA HeaderTaken ==
  ASSUME NEW t, NEW s, NEW ms, NEW o,
         Shifted(t, s, HeaderSize), HeaderSize + Len(t) = Len(s),
         StreamOK(s, ms, "header", o),
         s[1][1] \in Commands, PayloadSize[s[1][1]] > 0
  PROVE  StreamOK(t, ms, s[1][1], o)
<1> DEFINE H == HeaderSize
           c == s[1][1]
<1>1. /\ s \in Seq(Piece) /\ t \in Seq(Piece) /\ Flow(s)
      /\ Len(t) \in Nat /\ Len(s) \in Nat /\ H \in 1 .. Len(s) /\ H \in Nat
  BY TotalProperty DEF Shifted, StreamOK
<1>2. /\ Total(c) = H + PayloadSize[c] /\ PayloadSize[c] \in Nat \ {0} /\ c # "header"
  BY TotalProperty
<1>3. s # << >> /\ s[1] = <<c, 1>>
  <2>1. 1 \in 1 .. Len(s)
    BY <1>1
  <2>2. s # << >>
    BY <2>1, <1>1, EmptySeq
  <2> QED
    BY <2>1, <2>2, <1>1, PieceProperty DEF StreamOK
<1> HIDE DEF H, c
<1>4. ASSUME NEW k \in 1 .. Len(s), k <= H + 1
      PROVE  s[k] = <<c, k>>
  <2>1. 1 \in 1 .. Len(s) /\ 1 <= k /\ s[1][2] + (k - 1) <= Total(s[1][1])
    BY <1>1, <1>2, <1>3, <1>4
  <2>2. s[k] = <<s[1][1], s[1][2] + (k - 1)>>
    BY <2>1, <1>1 DEF Flow
  <2> QED
    BY <2>2, <1>3
<1>5. t # << >> => t[1] = <<c, H + 1>>
  <2> HAVE t # << >>
  <2>1. 1 \in 1 .. Len(t)
    BY <1>1, EmptySeq
  <2>2. H + 1 \in 1 .. Len(s) /\ t[1] = s[H + 1]
    BY <2>1, <1>1 DEF Shifted, H
  <2> QED
    BY <2>2, <1>1, <1>4
<1>6. ~ (o /\ t = << >>)
  <2> SUFFICES ASSUME o, t = << >> PROVE FALSE
    OBVIOUS
  <2>1. Len(s) = H
    BY <1>1 DEF H
  <2>2. s[Len(s)][2] = Total(s[Len(s)][1])
    BY <1>3 DEF StreamOK
  <2>3. s[H] = <<c, H>>
    BY <1>1, <1>4
  <2> QED
    BY <2>1, <2>2, <2>3, <1>1, <1>2
<1> QED
  BY <1>1, <1>2, <1>5, <1>6, StreamSuffix DEF H, c

-----------------------------------------------------------------------------
(* Where INIT is on the way *)

\* Dropping n pieces moves it by n.
LEMMA InitShifted ==
  ASSUME NEW t, NEW s, NEW n \in Nat, Shifted(t, s, n), NEW b \in Int,
         NEW k \in 1 .. Len(t), t[k] = <<"init", b + k>>, NEW a
  PROVE  InitIn(s, a, b - n)
<1> DEFINE j == n + k
<1>1. Len(t) \in Nat /\ Len(s) \in Nat /\ j \in 1 .. Len(s) /\ s[j] = t[k]
  BY DEF Shifted
<1>2. b + k = (b - n) + j
  OBVIOUS
<1> HIDE DEF j
<1>3. s[j] = <<"init", (b - n) + j>>
  BY <1>1, <1>2
<1> QED
  BY <1>1, <1>3 DEF InitIn

\* The beginning of a stream has no other.
LEMMA InitPrefix ==
  ASSUME NEW t, NEW s, Shifted(t, s, 0), NEW a, NEW b \in Int, InitIn(t, a, b)
  PROVE  InitIn(s, a, b)
<1>1. CASE a = "init" /\ b = HeaderSize
  BY <1>1 DEF InitIn
<1>2. ASSUME NEW k \in 1 .. Len(t), t[k] = <<"init", b + k>>
      PROVE  InitIn(s, a, b)
  <2>1. InitIn(s, a, b - 0)
    BY <1>2, InitShifted
  <2> QED
    BY <2>1
<1> QED
  BY <1>1, <1>2 DEF InitIn

\* A message other than INIT brings none, INIT one.
LEMMA InitExtended ==
  ASSUME NEW r, NEW s, NEW m, Extended(r, s, m), NEW a, NEW b \in Int, InitIn(r, a, b)
  PROVE  InitIn(s, a, b) \/ (m = "init" /\ b = 0 - Len(s))
<1>1. CASE a = "init" /\ b = HeaderSize
  BY <1>1 DEF InitIn
<1>2. ASSUME NEW k \in 1 .. Len(r), r[k] = <<"init", b + k>>
      PROVE  InitIn(s, a, b) \/ (m = "init" /\ b = 0 - Len(s))
  <2>1. /\ Len(s) \in Nat /\ Total(m) \in Nat /\ Len(r) = Len(s) + Total(m)
    BY TotalProperty DEF Extended
  <2>2. CASE k <= Len(s)
    <3>1. k \in 1 .. Len(s) /\ s[k] = r[k]
      BY <2>1, <2>2 DEF Extended
    <3> QED
      BY <3>1, <1>2 DEF InitIn
  <2>3. CASE k > Len(s)
    <3>1. k - Len(s) \in 1 .. Total(m) /\ Len(s) + (k - Len(s)) = k
      BY <2>1, <2>3
    <3>2. r[k] = <<m, k - Len(s)>>
      BY <3>1 DEF Extended
    <3>3. m = "init" /\ b + k = k - Len(s)
      BY <3>2, <1>2
    <3> QED
      BY <3>3, <2>1
  <2> QED
    BY <2>1, <2>2, <2>3
<1> QED
  BY <1>1, <1>2 DEF InitIn

\* The first piece of an INIT says where it is.
LEMMA InitFirst ==
  ASSUME NEW s \in Seq(Piece), s # << >>, NEW a, s[1][1] = "init", s[1][2] \in Int
  PROVE  InitIn(s, a, s[1][2] - 1)
<1>1. 1 \in 1 .. Len(s)
  <2>1. Len(s) \in Nat \ {0}
    BY EmptySeq
  <2> QED
    BY <2>1
<1>2. s[1] = <<"init", (s[1][2] - 1) + 1>>
  BY <1>1, PieceProperty
<1> QED
  BY <1>1, <1>2 DEF InitIn

\* The header of a message taken: what is left has the INIT it had.
LEMMA InitHeaderTaken ==
  ASSUME NEW t, NEW s, Shifted(t, s, HeaderSize), NEW ms, NEW o,
         StreamOK(s, ms, "header", o), s # << >>,
         NEW b \in Int, InitIn(t, s[1][1], b)
  PROVE  InitIn(s, "header", b - HeaderSize)
<1>1. HeaderSize \in Nat /\ s \in Seq(Piece)
  BY TotalProperty DEF StreamOK
<1>2. CASE s[1][1] = "init" /\ b = HeaderSize
  <2>1. s[1][2] = 1
    BY DEF StreamOK
  <2>2. InitIn(s, "header", s[1][2] - 1)
    <3>1. s \in Seq(Piece) /\ s[1][1] = "init" /\ s[1][2] \in Int
      BY <2>1, <1>1, <1>2
    <3> QED
      BY <3>1, InitFirst
  <2>3. s[1][2] - 1 = b - HeaderSize
    BY <2>1, <1>1, <1>2
  <2> QED
    BY <2>2, <2>3
<1>3. ASSUME NEW k \in 1 .. Len(t), t[k] = <<"init", b + k>>
      PROVE  InitIn(s, "header", b - HeaderSize)
  BY <1>1, <1>3, InitShifted
<1> QED
  BY <1>2, <1>3 DEF InitIn

\* A whole message taken: what is left has the INIT it had, ...
LEMMA InitMessageTaken ==
  ASSUME NEW t, NEW s, NEW n \in Nat, Shifted(t, s, n), NEW a,
         NEW b \in Int, InitIn(t, "header", b)
  PROVE  InitIn(s, a, b - n)
<1>1. PICK k \in 1 .. Len(t) : t[k] = <<"init", b + k>>
  BY DEF InitIn
<1> QED
  BY <1>1, InitShifted

\* ... and none if it was the INIT, and the only one.
LEMMA InitTaken ==
  ASSUME NEW t, NEW s, NEW n \in Nat \ {0}, Shifted(t, s, n), n + Len(t) = Len(s),
         NEW ms, NEW a, NEW o, StreamOK(s, ms, a, o),
         s[1][1] = "init", s[1][2] + (n - 1) = Total("init"),
         \A b, c \in Int : InitIn(s, a, b) /\ InitIn(s, a, c) => b = c,
         NEW b \in Int
  PROVE  ~ InitIn(t, "header", b)
<1> SUFFICES ASSUME InitIn(t, "header", b)
             PROVE  FALSE
  OBVIOUS
<1>1. PICK k \in 1 .. Len(t) : t[k] = <<"init", b + k>>
  BY DEF InitIn
<1>2. /\ s \in Seq(Piece) /\ t \in Seq(Piece) /\ Len(t) \in Nat /\ Len(s) \in Nat
      /\ n + k \in 1 .. Len(s) /\ s[n + k] = <<"init", b + k>>
      /\ 1 \in 1 .. Len(s) /\ k \in Nat \ {0}
  BY <1>1 DEF Shifted, StreamOK
<1>3. s # << >> /\ s[1][2] \in Int
  <2>1. s # << >>
    BY <1>2, EmptySeq
  <2> QED
    BY <2>1, <1>2, PieceProperty
<1>4. InitIn(s, a, b - n)
  BY <1>1, InitShifted
<1>5. InitIn(s, a, s[1][2] - 1)
  BY <1>2, <1>3, InitFirst
<1>6. b - n = s[1][2] - 1
  <2>1. b - n \in Int /\ s[1][2] - 1 \in Int
    BY <1>3
  <2> QED
    BY <2>1, <1>4, <1>5
<1>7. b + k \in 1 .. Total("init")
  BY <1>2 DEF StreamOK, Flow
<1>8. Total("init") \in Nat
  BY TotalProperty, SizeAssumption
<1> QED
  BY <1>2, <1>3, <1>6, <1>7, <1>8, SMTT(20)

-----------------------------------------------------------------------------
(* The descriptors and lists through the steps *)

Structure == Shape /\ Sockets /\ Registered /\ StillReady /\ Counted /\ Reception

\* A free descriptor is on no list and no socket.
LEMMA FreeProperty ==
  ASSUME NEW f \in FreeFds
  PROVE  /\ f \in Fds /\ f \notin Connections /\ f \notin dest_data_sockets
         /\ f # control_socket /\ f # data_socket /\ f # router_socket
BY DEF FreeFds, OpenFds

\* There is a descriptor for a connection that waits, and there are two for INIT.
LEMMA FreeEnough ==
  ASSUME Shape, Sockets, Counted
  PROVE  /\ flag_init = 0 => Cardinality(FreeFds) >= 2
         /\ \A kind \in {"control", "data"} :
              pending[kind] > 0 => Min(FreeFds) \in FreeFds
<1> DEFINE A == {control_socket, data_socket, router_socket} \cap Fds
           C == Connections
           D == dest_data_sockets
           P == pending.control + pending.data
           F == Fds
<1>1. A \in SUBSET Fds /\ C \in SUBSET Fds /\ D \in SUBSET Fds /\ F \in SUBSET Fds
  BY DEF Shape, Connections
<1>2. OpenFds = A \cup (C \cup D)
  BY <1>1 DEF OpenFds
<1>3. /\ Cardinality(C) + P <= MaxConns /\ Cardinality(D) <= NbrCount
      /\ pending.control \in Nat /\ pending.data \in Nat
  <2>1. pending.control \in Nat /\ pending.data \in Nat
    BY DEF Shape
  <2>2. Cardinality(Connections) \in Nat
    BY <1>1, FdsFinite
  <2> QED
    BY <2>1, <2>2 DEF Counted
<1>4. P \in Nat
  BY <1>3
<1>5. Cardinality(A) <= 3 /\ (flag_init = 0 => Cardinality(A) <= 1)
  <2> DEFINE B == {control_socket} \cup {data_socket}
             E == B \cup {router_socket}
  <2>1. IsFiniteSet({control_socket}) /\ Cardinality({control_socket}) = 1
    BY FS_Singleton
  <2>2. IsFiniteSet(B) /\ Cardinality(B) <= 2
    BY <2>1, FS_AddElement
  <2>3. A \in SUBSET E
    OBVIOUS
  <2>4. flag_init = 0 => A \in SUBSET {control_socket}
    BY LoopAssumption DEF Sockets, NoFd, Fds
  <2> HIDE DEF A, B
  <2>5. IsFiniteSet(E) /\ Cardinality(E) <= 3
    <3>1. Cardinality(B) \in Nat
      BY <2>2, FS_CardinalityType
    <3> QED
      BY <2>2, <3>1, FS_AddElement
  <2> HIDE DEF E
  <2>6. Cardinality(A) \in Nat
    BY <1>1, FdsFinite
  <2>7. Cardinality(A) <= Cardinality(E) /\ Cardinality(E) \in Nat
    BY <2>3, <2>5, FS_Subset, FS_CardinalityType
  <2>8. flag_init = 0 => Cardinality(A) <= Cardinality({control_socket})
    BY <2>1, <2>4, FS_Subset
  <2> QED
    BY <2>1, <2>5, <2>6, <2>7, <2>8
<1>6. Cardinality(F) = MaxFd + 1
  <2>1. 0 \in Int /\ MaxFd \in Int /\ MaxFd >= 0 /\ F = 0 .. MaxFd
    BY LoopAssumption DEF Fds
  <2> HIDE DEF F
  <2> QED
    BY <2>1, FS_Interval
<1> HIDE DEF A, C, D, P, F
<1>7. /\ IsFiniteSet(A) /\ Cardinality(A) \in Nat
      /\ IsFiniteSet(C) /\ Cardinality(C) \in Nat
      /\ IsFiniteSet(D) /\ Cardinality(D) \in Nat
      /\ IsFiniteSet(F) /\ Cardinality(F) \in Nat
  BY <1>1, FdsFinite
<1> DEFINE E == C \cup D
           O == A \cup E
<1>8. IsFiniteSet(E) /\ Cardinality(E) <= Cardinality(C) + Cardinality(D)
  <2>1. IsFiniteSet(E) /\ Cardinality(E) = Cardinality(C) + Cardinality(D) - Cardinality(C \cap D)
    BY <1>7, FS_Union
  <2>2. IsFiniteSet(C \cap D)
    BY <1>7, FS_Intersection
  <2>3. Cardinality(C \cap D) \in Nat
    BY <2>2, FS_CardinalityType
  <2> QED
    BY <2>1, <2>3, <1>7
<1> HIDE DEF E
<1>9. Cardinality(E) \in Nat
  BY <1>8, FS_CardinalityType
<1>10. IsFiniteSet(O) /\ Cardinality(O) <= Cardinality(A) + Cardinality(E)
  <2>1. IsFiniteSet(O) /\ Cardinality(O) = Cardinality(A) + Cardinality(E) - Cardinality(A \cap E)
    BY <1>7, <1>8, FS_Union
  <2>2. IsFiniteSet(A \cap E)
    BY <1>7, FS_Intersection
  <2>3. Cardinality(A \cap E) \in Nat
    BY <2>2, FS_CardinalityType
  <2> QED
    BY <2>1, <2>3, <1>7, <1>9
<1>11. O \in SUBSET F /\ FreeFds = F \ O
  BY <1>1, <1>2 DEF FreeFds, E, F
<1> HIDE DEF O
<1>12. Cardinality(O) \in Nat
  BY <1>10, FS_CardinalityType
<1>13. Cardinality(FreeFds) = Cardinality(F) - Cardinality(O)
  <2>1. F \cap O = O
    BY <1>11
  <2> QED
    BY <1>7, <1>11, <2>1, FS_Difference
<1>14. Cardinality(FreeFds) >= (MaxFd + 1) - (Cardinality(A) + (Cardinality(C) + Cardinality(D)))
  BY <1>6, <1>7, <1>8, <1>9, <1>10, <1>12, <1>13, LoopAssumption
<1>15. flag_init = 0 => Cardinality(FreeFds) >= 2
  BY <1>3, <1>4, <1>5, <1>7, <1>14, <1>13, <1>6, <1>12, LoopAssumption
<1>16. P > 0 => Cardinality(FreeFds) >= 1
  BY <1>3, <1>4, <1>5, <1>7, <1>14, <1>13, <1>6, <1>12, LoopAssumption
<1>17. P > 0 => Min(FreeFds) \in FreeFds
  <2> HAVE P > 0
  <2>1. FreeFds # {}
    BY <1>16, FS_EmptySet
  <2>2. FreeFds \in SUBSET Nat
    BY LoopAssumption DEF FreeFds, Fds
  <2> QED
    BY <2>1, <2>2, MinProperty
<1>18. ASSUME NEW kind \in {"control", "data"}, pending[kind] > 0
       PROVE  P > 0
  BY <1>3, <1>18 DEF P
<1> QED
  BY <1>15, <1>17, <1>18

\* t is a call of recvALL that has received nothing yet.
Begun(t, fd, part, size) ==
  /\ t \in [at : {"recv"}, fd : Fds, part : Commands \cup {"header", "packet"},
            size : Nat \ {0}, got : Seq(Piece)]
  /\ t.at = "recv" /\ t.fd = fd /\ t.part = part /\ t.size = size /\ t.got = << >>
  /\ Len(t.got) <= t.size

LEMMA ReceivingProperty ==
  ASSUME NEW fd \in Fds, NEW part \in Commands \cup {"header", "packet"},
         NEW size \in Nat \ {0}
  PROVE  Begun(Receiving(fd, part, size), fd, part, size)
<1> DEFINE g == << >>
<1>1. g \in Seq(Piece) /\ Len(g) = 0
  BY EmptySeq
<1> DEFINE t == [at |-> "recv", fd |-> fd, part |-> part, size |-> size, got |-> g]
<1> HIDE DEF g
<1>2. /\ t \in [at : {"recv"}, fd : Fds, part : Commands \cup {"header", "packet"},
               size : Nat \ {0}, got : Seq(Piece)]
      /\ t.at = "recv" /\ t.fd = fd /\ t.part = part /\ t.size = size /\ t.got = g
  BY <1>1
<1>3. Len(t.got) <= t.size
  BY <1>1
<1> QED
  BY <1>2, <1>3 DEF Receiving, g, Begun

\* The router receives on a descriptor of its lists, which the pass has left.
LEMMA Receives ==
  ASSUME Reception, task.at = "recv"
  PROVE  /\ task \in [at : {"recv"}, fd : Fds, part : Commands \cup {"header", "packet"},
                      size : Nat \ {0}, got : Seq(Piece)]
         /\ task.fd \in Fds /\ task.got \in Seq(Piece) /\ Len(task.got) \in Nat
         /\ task.size \in Nat \ {0} /\ Len(task.got) <= task.size
         /\ task.fd \in Connections /\ task.fd \notin watch_list
         /\ \/ task.part = "header" /\ task.fd \in control_conn_list /\ task.size = HeaderSize
            \/ task.part = "packet" /\ task.fd \in data_conn_list /\ task.size = PacketSize
            \/ /\ task.part \in Commands /\ task.fd \in control_conn_list
               /\ task.size = PayloadSize[task.part]
<1>1. task \notin {Selecting, Passing, [at |-> "hung"], [at |-> "exited"]}
  BY DEF Selecting, Passing
<1>2. task \notin [at : {"send"}, fd : Fds, part : {"sendfile", "packet"}]
  OBVIOUS
<1> QED
  BY <1>1, <1>2 DEF Reception

\* Packets of which the sending begins, and what follows it.
LEMMA SendingProperty ==
  ASSUME Reception, task.at = "recv", NEW part \in {"sendfile", "packet"},
         task' \in {Passing, Sending(task.fd, part)}, UNCHANGED watch_list
  PROVE  Reception' /\ task'.at # "recv"
<1>1. task.fd \in Fds /\ task.fd \notin watch_list
  BY Receives
<1>2. CASE task' = Passing
  BY <1>2 DEF Reception, Passing
<1>3. CASE task' = Sending(task.fd, part)
  <2>1. /\ task' \in [at : {"send"}, fd : Fds, part : {"sendfile", "packet"}]
        /\ task'.fd = task.fd /\ task'.at = "send"
    BY <1>1, <1>3 DEF Sending
  <2> QED
    BY <2>1, <1>1 DEF Reception
<1> QED
  BY <1>2, <1>3

\* A message the peer of fd may send.
LEMMA MessageProperty ==
  ASSUME NEW fd, NEW m \in Messages(fd)
  PROVE  \E c \in Kinds(fd) : /\ c \in Commands \cup {"packet"}
                              /\ c = "init" => ~ InitSent
                              /\ m = Pieces(c, Total(c))
                              /\ m \in Seq(Piece) /\ m # << >>
<1>1. \E c \in Kinds(fd) : /\ c \in Commands \cup {"packet"}
                           /\ c = "init" => ~ InitSent
                           /\ m = Pieces(c, Total(c))
  <2>1. CASE fd \in data_conn_list
    <3>1. m = Pieces("packet", Total("packet")) /\ "packet" # "init"
      BY <2>1, TotalProperty DEF Messages
    <3> QED
      BY <2>1, <3>1 DEF Kinds
  <2>2. CASE fd \notin data_conn_list
    <3>1. PICK c \in Sendable : m = Pieces(c, HeaderSize + PayloadSize[c])
      BY <2>2 DEF Messages
    <3>2. c \in Commands /\ (c = "init" => ~ InitSent)
      BY <3>1 DEF Sendable
    <3>3. Total(c) = HeaderSize + PayloadSize[c]
      BY <3>2, TotalProperty
    <3> QED
      BY <2>2, <3>1, <3>2, <3>3 DEF Kinds
  <2> QED
    BY <2>1, <2>2
<1>2. PICK c \in Kinds(fd) : /\ c \in Commands \cup {"packet"}
                             /\ c = "init" => ~ InitSent
                             /\ m = Pieces(c, Total(c))
  BY <1>1
<1>3. m \in Seq(Piece) /\ Len(m) = Total(c) /\ Total(c) # 0
  BY <1>2, PiecesProperty, TotalProperty
<1>4. m # << >>
  BY <1>3, EmptySeq
<1> QED
  BY <1>2, <1>3, <1>4

\* The step makes r of the connection of fd.
Updated(fd, r) ==
  /\ conn' \in [Fds -> Connection]
  /\ conn'[fd] = r
  /\ \A g \in Fds : g # fd => conn'[g] = conn[g]

\* The connection of a descriptor.
LEMMA ConnProperty ==
  ASSUME Shape, NEW fd \in Fds
  PROVE  /\ conn[fd] \in Connection
         /\ conn[fd].unread \in Seq(Piece) /\ conn[fd].rest \in Seq(Piece)
         /\ conn[fd].end \in {"open", "fin", "rst"}
         /\ conn[fd] = [unread |-> conn[fd].unread, rest |-> conn[fd].rest,
                        end |-> conn[fd].end]
         /\ Quiet \in Connection
BY DEF Shape, Connection, Quiet

\* What a peer does to its connection.
LEMMA BeginEffect ==
  ASSUME Shape, NEW fd \in Fds, Begin(fd)
  PROVE  \E c \in Kinds(fd) :
           LET m == Pieces(c, Total(c))
           IN  /\ c \in Commands \cup {"packet"}
               /\ c = "init" => ~ InitSent
               /\ m \in Seq(Piece) /\ m # << >>
               /\ Append(conn[fd].unread, Head(m)) # << >>
               /\ Updated(fd, [unread |-> Append(conn[fd].unread, Head(m)),
                               rest |-> Tail(m), end |-> conn[fd].end])
<1>1. PICK m \in Messages(fd) :
        conn' = [conn EXCEPT ![fd].unread = Append(@, Head(m)), ![fd].rest = Tail(m)]
  BY DEF Begin
<1>2. PICK c \in Kinds(fd) : /\ c \in Commands \cup {"packet"}
                             /\ c = "init" => ~ InitSent
                             /\ m = Pieces(c, Total(c))
                             /\ m \in Seq(Piece) /\ m # << >>
  BY MessageProperty
<1> DEFINE u == Append(conn[fd].unread, Head(m))
           t == Tail(m)
<1>3. Head(m) \in Piece /\ t \in Seq(Piece)
  BY <1>2, HeadTailProperties
<1>4. u \in Seq(Piece) /\ u # << >>
  <2>1. conn[fd].unread \in Seq(Piece)
    BY ConnProperty
  <2> QED
    BY <1>3, <2>1, AppendProperties
<1>5. conn \in [Fds -> Connection] /\ conn' = [conn EXCEPT ![fd].unread = u, ![fd].rest = t]
  BY <1>1 DEF Shape
<1> HIDE DEF u, t
<1>6. Updated(fd, [unread |-> u, rest |-> t, end |-> conn[fd].end])
  BY <1>3, <1>4, <1>5 DEF Updated, Connection
<1> QED
  BY <1>2, <1>4, <1>6 DEF u, t

LEMMA ContinueEffect ==
  ASSUME Shape, NEW fd \in Fds, Continue(fd)
  PROVE  /\ Append(conn[fd].unread, Head(conn[fd].rest)) # << >>
         /\ Updated(fd, [unread |-> Append(conn[fd].unread, Head(conn[fd].rest)),
                         rest |-> Tail(conn[fd].rest), end |-> conn[fd].end])
<1> DEFINE u == Append(conn[fd].unread, Head(conn[fd].rest))
           t == Tail(conn[fd].rest)
<1>1. conn[fd].unread \in Seq(Piece) /\ conn[fd].rest \in Seq(Piece) /\ conn[fd].rest # << >>
  BY ConnProperty DEF Continue
<1>2. Head(conn[fd].rest) \in Piece /\ t \in Seq(Piece)
  BY <1>1, HeadTailProperties
<1>3. u \in Seq(Piece) /\ u # << >>
  BY <1>1, <1>2, AppendProperties
<1>4. conn \in [Fds -> Connection] /\ conn' = [conn EXCEPT ![fd].unread = u, ![fd].rest = t]
  BY DEF Shape, Continue
<1> HIDE DEF u, t
<1>5. Updated(fd, [unread |-> u, rest |-> t, end |-> conn[fd].end])
  BY <1>2, <1>3, <1>4 DEF Updated, Connection
<1> QED
  BY <1>3, <1>5 DEF u, t

LEMMA EndEffect ==
  ASSUME Shape, NEW fd \in Fds, NEW how \in {"fin", "rst"}, End(fd, how)
  PROVE  Updated(fd, [unread |-> conn[fd].unread, rest |-> << >>, end |-> how])
<1> DEFINE t == << >>
<1>1. t \in Seq(Piece)
  BY EmptySeq
<1>2. conn \in [Fds -> Connection] /\ conn' = [conn EXCEPT ![fd].end = how, ![fd].rest = t]
  BY DEF Shape, End
<1> HIDE DEF t
<1>3. Updated(fd, [unread |-> conn[fd].unread, rest |-> t, end |-> how])
  BY <1>1, <1>2 DEF Updated, Connection
<1> QED
  BY <1>3 DEF t

\* The environment's steps.
LEMMA StructurePeer ==
  ASSUME Structure, NEW fd \in Fds, NEW r, Updated(fd, r),
         r.unread # << >> \/ r.end # "open",
         UNCHANGED <<sockets, lists, watch_list, task, pending, datagrams, clock>>
  PROVE  Structure'
<1> USE DEF sockets, lists, clock
<1>1. Shape' /\ Sockets' /\ Registered'
  BY DEF Structure, Shape, Sockets, Registered, Connections, Updated
<1>2. Counted' /\ Reception'
  BY DEF Structure, Counted, Reception, Connections
<1>3. StillReady'
  <2> SUFFICES ASSUME NEW f \in watch_list
               PROVE  f \in Ready'
    BY DEF StillReady
  <2>1. f \in Ready /\ f \in Fds
    BY DEF Structure, StillReady, Shape
  <2>2. CASE f = fd
    BY <2>1, <2>2 DEF Ready, Connections, Updated
  <2>3. CASE f # fd
    BY <2>1, <2>3 DEF Ready, Connections, Updated
  <2> QED
    BY <2>2, <2>3
<1> QED
  BY <1>1, <1>2, <1>3 DEF Structure

LEMMA StructureConnect ==
  ASSUME Structure, NEW kind \in {"control", "data"}, Connect(kind)
  PROVE  Structure'
<1> USE DEF sockets, lists, clock, Connect
<1>1. /\ pending \in [{"control", "data"} -> Nat]
      /\ pending' = [pending EXCEPT ![kind] = @ + 1]
  BY DEF Structure, Shape
<1>2. Shape' /\ Sockets' /\ Registered'
  BY <1>1 DEF Structure, Shape, Sockets, Registered, Connections
<1>3. Reception'
  BY DEF Structure, Reception, Connections
<1>4. Counted'
  <2>1. Cardinality(Connections) \in Nat
    BY FdsFinite DEF Structure, Shape, Connections
  <2>2. pending'.control + pending'.data = pending.control + pending.data + 1
        /\ pending'.control \in Nat /\ pending'.data \in Nat
        /\ pending.control \in Nat /\ pending.data \in Nat
    BY <1>1
  <2>3. Connections' = Connections
    BY DEF Connections
  <2>4. Cardinality(Connections) + pending'.control + pending'.data <= MaxConns
    BY <2>1, <2>2, LoopAssumption
  <2> QED
    BY <2>3, <2>4 DEF Structure, Counted
<1>5. pending'.control >= pending.control /\ pending'.data >= pending.data
      /\ pending.control \in Nat /\ pending.data \in Nat
      /\ pending'.control \in Nat /\ pending'.data \in Nat
  BY <1>1
<1>6. StillReady'
  <2> SUFFICES ASSUME NEW f \in watch_list
               PROVE  f \in Ready'
    BY DEF StillReady
  <2>1. f \in Ready
    BY DEF Structure, StillReady
  <2> QED
    BY <2>1, <1>5 DEF Ready, Connections
<1> QED
  BY <1>2, <1>3, <1>4, <1>6 DEF Structure

LEMMA StructureDatagramTick ==
  ASSUME Structure, Datagram \/ Tick
  PROVE  Structure'
<1> USE DEF sockets, lists, clock, arrivals
<1>1. /\ flag_init \in {0, 1} /\ datagrams \in Nat
      /\ left \in Nat /\ until \in Nat /\ until <= left /\ left <= Interval
  BY LoopAssumption DEF Structure, Shape
<1>2. datagrams' \in 0 .. MaxDatagrams /\ datagrams' >= datagrams /\ datagrams' \in Nat
  BY <1>1, LoopAssumption DEF Datagram, Tick, Structure, Shape
<1>3. left' \in 0 .. Interval /\ until' \in 0 .. left'
  <2>1. CASE Datagram
    BY <2>1 DEF Datagram, Structure, Shape
  <2>2. CASE Tick
    <3> DEFINE u == Max({until - 1, 0})
               l == Max({left - 1, 0})
    <3>1. u = (IF until = 0 THEN 0 ELSE until - 1) /\ l = (IF left = 0 THEN 0 ELSE left - 1)
      BY <1>1 DEF Max
    <3> HIDE DEF u, l
    <3>2. until' = u /\ (left' = l \/ left' = left)
      BY <2>2 DEF Tick, u, l
    <3> QED
      BY <3>1, <3>2, <1>1, LoopAssumption
  <2> QED
    BY <2>1, <2>2
<1>4. Shape' /\ Sockets' /\ Registered' /\ Counted' /\ Reception'
  BY <1>2, <1>3 DEF Datagram, Tick, Structure, Shape, Sockets, Registered, Connections,
                    Counted, Reception
<1>5. StillReady'
  <2> SUFFICES ASSUME NEW f \in watch_list'
               PROVE  f \in Ready'
    BY DEF StillReady
  <2>1. f \in Ready
    BY DEF Datagram, Tick, Structure, StillReady
  <2> QED
    BY <2>1, <1>1, <1>2 DEF Ready, Connections, Datagram, Tick
<1> QED
  BY <1>4, <1>5 DEF Structure

\* What a reply does to the connection: it may end it, and never opens it again.
LEMMA ReplyEffect ==
  ASSUME Shape, task.fd \in Fds, Reply
  PROVE  /\ \E e \in {"open", "fin", "rst"} :
              /\ (e = "open") <=> (conn[task.fd].end = "open")
              /\ Updated(task.fd, [unread |-> conn[task.fd].unread,
                                   rest |-> conn[task.fd].rest, end |-> e])
         /\ task' \in {Passing, [at |-> "exited"]}
<1> DEFINE fd == task.fd
<1>1. PICK e \in IF conn[fd].end = "fin" THEN {"fin", "rst"} ELSE {conn[fd].end} :
        conn' = [conn EXCEPT ![fd].end = e]
  BY DEF Reply
<1>2. fd \in Fds /\ conn \in [Fds -> Connection] /\ conn[fd] \in Connection
      /\ conn[fd].end \in {"open", "fin", "rst"}
  BY ConnProperty DEF Shape
<1> HIDE DEF fd
<1>3. e \in {"open", "fin", "rst"} /\ ((e = "open") <=> (conn[fd].end = "open"))
  BY <1>1, <1>2
<1>4. Updated(fd, [unread |-> conn[fd].unread, rest |-> conn[fd].rest, end |-> e])
  BY <1>1, <1>2, <1>3 DEF Updated, Connection
<1>5. task' \in {Passing, [at |-> "exited"]}
  BY DEF Reply
<1> QED
  BY <1>3, <1>4, <1>5 DEF fd

\* sendALL of packets ends, or the router with it.
LEMMA StructureSend ==
  ASSUME Structure, Sent \/ BrokenPipe
  PROVE  Structure'
<1> USE DEF sockets, lists, clock
<1>1. /\ task.at = "send" /\ Shape
      /\ task' \in {Passing, [at |-> "exited"]}
      /\ conn' \in [Fds -> Connection]
      /\ \A f \in watch_list : conn'[f] = conn[f]
      /\ UNCHANGED <<sockets, lists, watch_list, pending, datagrams, clock>>
  <2>1. task.at = "send" /\ Shape /\ Reception
    BY DEF Sent, BrokenPipe, Structure
  <2>2. task.fd \in Fds /\ task.fd \notin watch_list
    BY <2>1 DEF Reception, Selecting, Passing
  <2>3. CASE conn' = conn
    BY <2>1, <2>3 DEF Sent, BrokenPipe, Reply, arrivals, Shape
  <2>4. CASE Sent /\ Reply
    <3>1. PICK r : Updated(task.fd, r)
      BY <2>1, <2>2, <2>4, ReplyEffect
    <3>2. task' \in {Passing, [at |-> "exited"]}
      BY <2>1, <2>2, <2>4, ReplyEffect
    <3>3. \A f \in watch_list : f \in Fds /\ f # task.fd
      BY <2>1, <2>2 DEF Shape
    <3> QED
      BY <2>1, <2>4, <3>1, <3>2, <3>3 DEF Sent, Updated
  <2> QED
    BY <2>3, <2>4 DEF Sent, BrokenPipe, arrivals
<1>2. Shape' /\ Sockets' /\ Registered' /\ Counted' /\ Reception'
  BY <1>1 DEF Structure, Shape, Sockets, Registered, Connections, Counted, Reception
<1>3. \A f \in watch_list : f \in Ready => f \in Ready'
  BY <1>1 DEF Ready, Connections
<1> QED
  BY <1>1, <1>2, <1>3 DEF Structure, StillReady

LEMMA StructureEnvironment ==
  ASSUME Structure, Environment
  PROVE  Structure'
<1>1. ASSUME NEW fd \in Fds, Begin(fd) PROVE Structure'
  <2>1. PICK c \in Kinds(fd) :
          LET m == Pieces(c, Total(c))
          IN  /\ Append(conn[fd].unread, Head(m)) # << >>
              /\ Updated(fd, [unread |-> Append(conn[fd].unread, Head(m)),
                              rest |-> Tail(m), end |-> conn[fd].end])
    BY <1>1, BeginEffect DEF Structure
  <2>2. UNCHANGED <<sockets, lists, watch_list, task, pending, datagrams, clock>>
    BY <1>1 DEF Begin
  <2> QED
    BY <2>1, <2>2, StructurePeer
<1>2. ASSUME NEW fd \in Fds, Continue(fd) PROVE Structure'
  <2>1. /\ Append(conn[fd].unread, Head(conn[fd].rest)) # << >>
        /\ Updated(fd, [unread |-> Append(conn[fd].unread, Head(conn[fd].rest)),
                        rest |-> Tail(conn[fd].rest), end |-> conn[fd].end])
    BY <1>2, ContinueEffect DEF Structure
  <2>2. UNCHANGED <<sockets, lists, watch_list, task, pending, datagrams, clock>>
    BY <1>2 DEF Continue
  <2> QED
    BY <2>1, <2>2, StructurePeer
<1>3. ASSUME NEW fd \in Fds, NEW how \in {"fin", "rst"}, End(fd, how) PROVE Structure'
  <2>1. Updated(fd, [unread |-> conn[fd].unread, rest |-> << >>, end |-> how])
    BY <1>3, EndEffect DEF Structure
  <2>2. UNCHANGED <<sockets, lists, watch_list, task, pending, datagrams, clock>>
    BY <1>3 DEF End
  <2> QED
    BY <2>1, <2>2, StructurePeer
<1> QED
  BY <1>1, <1>2, <1>3, StructureConnect, StructureDatagramTick, StructureSend DEF Environment

\* main_loop's steps.
LEMMA StructureLoop ==
  ASSUME Structure,
         Select \/ Timeout \/ EndPass \/ RouterRecvHook \/ \E i \in Fds : ExistingConnection(i)
  PROVE  Structure'
<1> USE DEF sockets, lists, clock, arrivals
<1>1. watch_list \in SUBSET Fds /\ Ready \in SUBSET Fds
  BY DEF Structure, Shape, Registered, Ready, Connections
<1>2. /\ flag_init' = flag_init /\ data_socket' = data_socket /\ router_socket' = router_socket
      /\ control_conn_list' = control_conn_list /\ data_conn_list' = data_conn_list
      /\ dest_data_sockets' = dest_data_sockets /\ master_list' = master_list
      /\ head_fd' = head_fd /\ conn' = conn /\ pending' = pending
  BY DEF Select, Timeout, EndPass, RouterRecvHook, ExistingConnection
<1>3. /\ datagrams' \in 0 .. MaxDatagrams
      /\ left' \in 0 .. Interval /\ until' \in 0 .. left'
      /\ watch_list' \in SUBSET Fds
  <2>1. CASE Select \/ EndPass
    BY <1>1, <2>1 DEF Select, EndPass, Structure, Shape
  <2>2. CASE Timeout
    BY <1>1, <2>2, LoopAssumption DEF Timeout, SetNewTimeout, Structure, Shape
  <2>3. CASE RouterRecvHook
    BY <1>1, <2>3, LoopAssumption
       DEF RouterRecvHook, SetNewTimeout, NextIndex, Structure, Shape
  <2>4. CASE \E i \in Fds : ExistingConnection(i)
    BY <1>1, <2>4 DEF ExistingConnection, NextIndex, Structure, Shape
  <2> QED
    BY <2>1, <2>2, <2>3, <2>4
<1>4. Shape' /\ Sockets' /\ Registered' /\ Counted'
  BY <1>2, <1>3 DEF Structure, Shape, Sockets, Registered, Connections, Counted
<1>5. StillReady'
  <2>1. CASE Select
    <3>1. Ready' = Ready /\ watch_list' = Ready
      BY <2>1 DEF Select, Ready, Connections
    <3> QED
      BY <3>1 DEF StillReady
  <2>2. CASE Timeout \/ EndPass \/ \E i \in Fds : ExistingConnection(i)
    <3>1. Ready' = Ready
      BY <2>2 DEF Timeout, EndPass, ExistingConnection, Ready, Connections
    <3>2. watch_list' \in SUBSET watch_list
      BY <2>2 DEF Timeout, EndPass, ExistingConnection, NextIndex
    <3> QED
      BY <3>1, <3>2 DEF StillReady, Structure
  <2>3. CASE RouterRecvHook
    <3> SUFFICES ASSUME NEW f \in watch_list, f # router_socket
                 PROVE  f \in Ready'
      BY <2>3 DEF StillReady, RouterRecvHook, NextIndex
    <3>1. f \in Ready
      BY DEF Structure, StillReady
    <3> QED
      BY <3>1, <1>2 DEF Ready, Connections
  <2> QED
    BY <2>1, <2>2, <2>3
<1>6. Reception'
  <2>1. CASE Select \/ EndPass
    BY <2>1 DEF Select, EndPass, Reception
  <2>2. CASE Timeout
    BY <2>2 DEF Timeout, Reception
  <2>3. CASE RouterRecvHook
    BY <2>3 DEF RouterRecvHook, At, Reception
  <2>4. ASSUME NEW i \in Fds, ExistingConnection(i)
        PROVE  Reception'
    <3>1. HeaderSize \in Nat \ {0} /\ PacketSize \in Nat \ {0}
      BY SizeAssumption
    <3>2. i \in Connections' /\ i \notin watch_list'
      BY <2>4 DEF ExistingConnection, NextIndex, Connections
    <3>3. PICK part \in Commands \cup {"header", "packet"}, size \in Nat \ {0} :
            /\ task' = Receiving(i, part, size)
            /\ \/ part = "header" /\ size = HeaderSize /\ i \in control_conn_list
               \/ part = "packet" /\ size = PacketSize /\ i \in data_conn_list
      <4>1. CASE i \in control_conn_list /\ task' = Receiving(i, "header", HeaderSize)
        BY <4>1, <3>1
      <4>2. CASE i \in data_conn_list /\ task' = Receiving(i, "packet", PacketSize)
        BY <4>2, <3>1
      <4> QED
        BY <4>1, <4>2, <2>4 DEF ExistingConnection, Connections
    <3>4. Begun(task', i, part, size)
      BY <3>3, ReceivingProperty
    <3> QED
      BY <3>2, <3>3, <3>4, <1>2 DEF Reception, Begun
  <2> QED
    BY <2>1, <2>2, <2>3, <2>4
<1> QED
  BY <1>4, <1>5, <1>6 DEF Structure

LEMMA StructureAccept ==
  ASSUME Structure, NewControlConn \/ NewDataConn
  PROVE  Structure'
<1> DEFINE fd == Min(FreeFds)
<1> USE DEF sockets, lists, clock
<1>1. PICK kind \in {"control", "data"}, i \in Fds \cup {NoFd} :
        /\ Accept(i, kind)
        /\ i = IF kind = "control" THEN control_socket ELSE data_socket
        /\ control_conn_list' = IF kind = "control" THEN control_conn_list \cup {fd}
                                                    ELSE control_conn_list
        /\ data_conn_list' = IF kind = "data" THEN data_conn_list \cup {fd}
                                              ELSE data_conn_list
  <2>1. control_socket \in Fds \cup {NoFd} /\ data_socket \in Fds \cup {NoFd}
    BY LoopAssumption DEF Structure, Shape, control_socket, Fds
  <2>2. CASE NewControlConn
    BY <2>1, <2>2 DEF NewControlConn
  <2>3. CASE NewDataConn
    BY <2>1, <2>3 DEF NewDataConn
  <2> QED
    BY <2>2, <2>3
<1>2. /\ pending[kind] > 0
      /\ pending' = [pending EXCEPT ![kind] = @ - 1]
      /\ master_list' = master_list \cup {fd}
      /\ head_fd' = Max({head_fd, fd})
      /\ watch_list' = watch_list \ {i}
      /\ conn' = [conn EXCEPT ![fd] = Quiet]
      /\ flag_init' = flag_init /\ data_socket' = data_socket /\ router_socket' = router_socket
      /\ dest_data_sockets' = dest_data_sockets /\ task' = task
      /\ datagrams' = datagrams /\ left' = left /\ until' = until /\ task = Passing
  BY <1>1 DEF Accept, At, NextIndex
<1>3. fd \in FreeFds
  BY <1>2, FreeEnough DEF Structure
<1> HIDE DEF fd
<1>4. /\ fd \in Fds /\ fd \notin Connections /\ fd \notin dest_data_sockets
      /\ fd # control_socket /\ fd # data_socket /\ fd # router_socket
  BY <1>3, FreeProperty
<1>5. /\ pending \in [{"control", "data"} -> Nat] /\ conn \in [Fds -> Connection]
      /\ control_conn_list \in SUBSET Fds /\ data_conn_list \in SUBSET Fds
      /\ watch_list \in SUBSET Fds /\ head_fd \in Fds
  BY DEF Structure, Shape
<1>6. head_fd' \in Fds /\ head_fd <= head_fd' /\ fd <= head_fd'
  <2>1. {head_fd, fd} \in SUBSET Fds /\ {head_fd, fd} # {}
    BY <1>4, <1>5
  <2>2. /\ Max({head_fd, fd}) \in {head_fd, fd}
        /\ \A x \in {head_fd, fd} : x <= Max({head_fd, fd})
    BY <2>1, MaxProperty
  <2> QED
    BY <2>1, <2>2, <1>2
<1>7. /\ pending'.control + pending'.data = pending.control + pending.data - 1
      /\ pending' \in [{"control", "data"} -> Nat]
      /\ pending.control \in Nat /\ pending.data \in Nat
  BY <1>2, <1>5
<1>8. Quiet \in Connection
  BY EmptySeq DEF Quiet, Connection
<1>9. Connections' = Connections \cup {fd}
  BY <1>1 DEF Connections
<1>10. Shape' /\ Sockets'
  <2>1. conn' \in [Fds -> Connection]
    BY <1>2, <1>4, <1>5, <1>8
  <2>2. control_conn_list' \in SUBSET Fds /\ data_conn_list' \in SUBSET Fds
        /\ watch_list' \in SUBSET Fds
    BY <1>1, <1>2, <1>4, <1>5
  <2> QED
    BY <2>1, <2>2, <1>2, <1>6, <1>7 DEF Structure, Shape, Sockets
<1>11. Registered'
  <2>1. Registered
    BY DEF Structure
  <2>2. control_conn_list' \cap data_conn_list' = {}
    BY <2>1, <1>1, <1>4 DEF Registered, Connections
  <2>3. master_list' \subseteq 0 .. head_fd'
    <3>1. ASSUME NEW x \in master_list' PROVE x \in 0 .. head_fd'
      <4>1. CASE x = fd
        BY <4>1, <1>4, <1>6, LoopAssumption DEF Fds
      <4>2. CASE x \in master_list
        <5>1. x \in 0 .. head_fd
          BY <4>2, <2>1 DEF Registered
        <5>2. head_fd \in Nat /\ head_fd' \in Nat /\ head_fd <= head_fd'
          BY <1>5, <1>6, LoopAssumption DEF Fds
        <5> QED
          BY <5>1, <5>2
      <4> QED
        BY <4>1, <4>2, <1>2
    <3> QED
      BY <3>1
  <2> QED
    BY <2>1, <2>2, <2>3, <1>2, <1>4, <1>9 DEF Registered
<1>12. StillReady'
  <2> SUFFICES ASSUME NEW f \in watch_list, f # i
               PROVE  f \in Ready'
    BY <1>2 DEF StillReady
  <2>1. f \in Ready /\ f \in Fds
    BY <1>5 DEF Structure, StillReady
  <2>2. f # fd
    <3>1. f \in master_list
      BY <2>1 DEF Ready
    <3> QED
      BY <3>1, <1>4 DEF Structure, Registered
  <2>3. conn'[f] = conn[f]
    BY <1>2, <1>5, <2>1, <2>2
  <2>4. /\ f \in master_list' /\ f <= head_fd'
    <3>1. f \in Nat /\ head_fd \in Nat /\ head_fd' \in Nat /\ f <= head_fd /\ f \in master_list
      BY <2>1, <1>5, <1>6, LoopAssumption DEF Ready, Fds
    <3> QED
      BY <3>1, <1>2, <1>6
  <2>5. CASE kind = "control"
    <3>1. pending'.data = pending.data /\ f # control_socket
      BY <2>5, <1>1, <1>2, <1>5
    <3> QED
      BY <3>1, <2>1, <2>3, <2>4, <1>2, <1>9 DEF Ready
  <2>6. CASE kind = "data"
    <3>1. pending'.control = pending.control /\ f # data_socket
      BY <2>6, <1>1, <1>2, <1>5
    <3> QED
      BY <3>1, <2>1, <2>3, <2>4, <1>2, <1>9 DEF Ready
  <2> QED
    BY <2>5, <2>6
<1>13. Counted'
  <2> DEFINE C == Connections
             D == Connections'
  <2>1. C \in SUBSET Fds /\ fd \notin C /\ D = C \cup {fd}
    BY <1>4, <1>5, <1>9 DEF Connections
  <2>2. Cardinality(C) + pending.control + pending.data <= MaxConns
    BY DEF Structure, Counted
  <2>3. Cardinality(D) + pending'.control + pending'.data
          = Cardinality(C) + pending.control + pending.data
    <3> HIDE DEF C, D
    <3>1. IsFiniteSet(C) /\ Cardinality(C) \in Nat
      BY <2>1, FdsFinite
    <3>2. Cardinality(D) = Cardinality(C) + 1
      BY <2>1, <3>1, FS_AddElement
    <3>3. pending'.control \in Nat /\ pending'.data \in Nat
      BY <1>7
    <3> QED
      BY <3>1, <3>2, <3>3, <1>7
  <2>4. Cardinality(dest_data_sockets) <= NbrCount
    BY DEF Structure, Counted
  <2> QED
    BY <2>2, <2>3, <2>4, <1>2 DEF Counted
<1>14. Reception'
  BY <1>2 DEF Reception
<1> QED
  BY <1>10, <1>11, <1>12, <1>13, <1>14 DEF Structure

\* What one call of recv takes.
LEMMA RecvEffect ==
  ASSUME Shape, Reception, Recv
  PROVE  \E k \in Nat \ {0} :
           LET c == conn[task.fd]
               u == SubSeq(c.unread, k + 1, Len(c.unread))
               g == SubSeq(c.unread, 1, k)
           IN  /\ k <= Len(c.unread)
               /\ u \in Seq(Piece) /\ g \in Seq(Piece)
               /\ Updated(task.fd, [unread |-> u, rest |-> c.rest, end |-> c.end])
               /\ task' \in [at : {"recv"}, fd : Fds, part : Commands \cup {"header", "packet"},
                             size : Nat \ {0}, got : Seq(Piece)]
               /\ task'.at = "recv" /\ task'.fd = task.fd /\ task'.part = task.part
               /\ task'.size = task.size /\ task'.got = task.got \o g
               /\ Len(task'.got) <= task.size
<1> DEFINE fd == task.fd
           s == conn[fd].unread
           n == task.size - Len(task.got)
           k == Min({Len(s), n})
<1>0. task.at = "recv"
  BY DEF Recv
<1>1. /\ task \in [at : {"recv"}, fd : Fds, part : Commands \cup {"header", "packet"},
                   size : Nat \ {0}, got : Seq(Piece)]
      /\ fd \in Fds /\ task.got \in Seq(Piece) /\ Len(task.got) \in Nat
      /\ task.size \in Nat \ {0} /\ Len(task.got) <= task.size
  BY <1>0, Receives
<1>2. conn \in [Fds -> Connection] /\ conn[fd] \in Connection /\ s \in Seq(Piece)
      /\ Len(s) \in Nat
  <2>1. fd \in Fds
    BY <1>1
  <2> QED
    BY <2>1, ConnProperty DEF Shape
<1>3. n \in Nat
  BY <1>1
<1>4. k \in Nat /\ k <= Len(s) /\ k <= n
  <2> DEFINE S == {Len(s), n}
  <2>1. S \in SUBSET Nat /\ S # {}
    BY <1>2, <1>3
  <2> HIDE DEF S
  <2>2. Min(S) \in S /\ \A x \in S : Min(S) <= x
    BY <2>1, MinProperty
  <2> QED
    BY <2>1, <2>2 DEF S
<1> DEFINE u == SubSeq(s, k + 1, Len(s))
           g == SubSeq(s, 1, k)
<1>5. /\ k > 0
      /\ task' = [task EXCEPT !.got = @ \o g]
      /\ conn' = [conn EXCEPT ![fd].unread = u]
  BY DEF Recv
<1>6. u \in Seq(Piece) /\ g \in Seq(Piece) /\ Len(g) = k
  <2> HIDE DEF k
  <2>1. \A i \in 1 .. k : s[i] \in Piece
    BY <1>2, <1>4
  <2>2. \A i \in k + 1 .. Len(s) : s[i] \in Piece
    BY <1>2, <1>4
  <2>3. k \in Int /\ k + 1 \in Int /\ Len(s) \in Int
    BY <1>2, <1>4
  <2>4. u \in Seq(Piece)
    BY <2>2, <2>3, SubSeqProperties
  <2>5. g \in Seq(Piece) /\ Len(g) = IF 1 <= k THEN k - 1 + 1 ELSE 0
    BY <2>1, <2>3, SubSeqProperties
  <2> QED
    BY <2>4, <2>5, <1>4
<1> HIDE DEF u, g, k, n, s
<1>7. task.got \o g \in Seq(Piece) /\ Len(task.got \o g) = Len(task.got) + k
  <2> DEFINE q == task.got
  <2>1. q \in Seq(Piece)
    BY <1>1
  <2> HIDE DEF q
  <2>2. q \o g \in Seq(Piece) /\ Len(q \o g) = Len(q) + Len(g)
    BY <2>1, <1>6, ConcatProperties
  <2> QED
    BY <2>2, <1>6 DEF q
<1>8. Len(task.got \o g) <= task.size
  BY <1>1, <1>4, <1>7 DEF n
<1> DEFINE h == task.got \o g
<1>9. task' = [task EXCEPT !.got = h]
  BY <1>5
<1> HIDE DEF h
<1>10. /\ task' \in [at : {"recv"}, fd : Fds, part : Commands \cup {"header", "packet"},
                     size : Nat \ {0}, got : Seq(Piece)]
       /\ task'.at = "recv" /\ task'.fd = fd /\ task'.part = task.part
       /\ task'.size = task.size /\ task'.got = h
  <2>1. h \in Seq(Piece)
    BY <1>7 DEF h
  <2> QED
    BY <2>1, <1>1, <1>9
<1>11. Updated(fd, [unread |-> u, rest |-> conn[fd].rest, end |-> conn[fd].end])
  BY <1>1, <1>2, <1>5, <1>6 DEF Updated, Connection
<1>12. k \in Nat \ {0} /\ k <= Len(s) /\ Len(task'.got) <= task.size
  BY <1>4, <1>5, <1>8, <1>10 DEF h
<1> QED
  BY <1>6, <1>10, <1>11, <1>12 DEF u, g, h, s

\* The steps of recvALL.
LEMMA StructureReceive ==
  ASSUME Structure, Recv \/ Hang
  PROVE  Structure'
<1> USE DEF sockets, lists, clock, arrivals
<1>1. task.at = "recv" /\ Shape /\ Reception
  BY DEF Structure, Recv, Hang, AtEnd
<1>2. CASE Recv
  <2>1. PICK r \in Connection :
          /\ Updated(task.fd, r)
          /\ task' \in [at : {"recv"}, fd : Fds, part : Commands \cup {"header", "packet"},
                        size : Nat \ {0}, got : Seq(Piece)]
          /\ task'.fd = task.fd /\ task'.part = task.part /\ task'.size = task.size
          /\ Len(task'.got) <= task.size
    <3>1. task.fd \in Fds
      BY <1>1, Receives
    <3>2. \E r : /\ Updated(task.fd, r)
                 /\ task' \in [at : {"recv"}, fd : Fds, part : Commands \cup {"header", "packet"},
                               size : Nat \ {0}, got : Seq(Piece)]
                 /\ task'.fd = task.fd /\ task'.part = task.part /\ task'.size = task.size
                 /\ Len(task'.got) <= task.size
      BY <1>1, <1>2, RecvEffect
    <3> QED
      BY <3>1, <3>2 DEF Updated
  <2>2. UNCHANGED <<sockets, lists, watch_list, pending, datagrams, clock>>
    BY <1>2 DEF Recv
  <2>3. Shape' /\ Sockets' /\ Registered' /\ Counted'
    BY <2>1, <2>2 DEF Structure, Shape, Sockets, Registered, Connections, Counted, Updated
  <2>4. Reception'
    <3>1. /\ task.fd \in Connections /\ task.fd \notin watch_list
          /\ \/ task.part = "header" /\ task.fd \in control_conn_list /\ task.size = HeaderSize
             \/ task.part = "packet" /\ task.fd \in data_conn_list /\ task.size = PacketSize
             \/ /\ task.part \in Commands /\ task.fd \in control_conn_list
                /\ task.size = PayloadSize[task.part]
      BY <1>1, Receives
    <3> QED
      BY <2>1, <2>2, <3>1 DEF Reception, Connections
  <2>5. StillReady'
    <3> SUFFICES ASSUME NEW f \in watch_list
                 PROVE  f \in Ready'
      BY <2>2 DEF StillReady
    <3>1. f \in Ready /\ f \in Fds /\ f # task.fd
      BY <1>1, Receives DEF Structure, StillReady, Shape
    <3> QED
      BY <2>1, <2>2, <3>1 DEF Ready, Connections, Updated
  <2> QED
    BY <2>3, <2>4, <2>5 DEF Structure
<1>3. CASE Hang
  <2>1. task' = [at |-> "hung"]
        /\ UNCHANGED <<sockets, lists, watch_list, arrivals, clock>>
    BY <1>3 DEF Hang
  <2>2. Shape' /\ Sockets' /\ Registered' /\ Counted' /\ Reception'
    BY <2>1 DEF Structure, Shape, Sockets, Registered, Connections, Counted, Reception
  <2>3. Ready' = Ready
    BY <2>1 DEF Ready, Connections
  <2> QED
    BY <2>1, <2>2, <2>3 DEF Structure, StillReady
<1> QED
  BY <1>2, <1>3

LEMMA StructureRemove ==
  ASSUME Structure, RemoveConn
  PROVE  Structure'
<1> DEFINE fd == task.fd
<1> USE DEF sockets, lists, clock
<1>1. fd \in Fds /\ fd \in Connections /\ fd \notin watch_list
  BY Receives DEF Structure, RemoveConn, AtEnd
<1>2. /\ control_conn_list' = control_conn_list \ {fd}
      /\ data_conn_list' = data_conn_list \ {fd}
      /\ master_list' = master_list \ {fd}
      /\ conn' = [conn EXCEPT ![fd] = Quiet]
      /\ task' = Passing
      /\ UNCHANGED <<sockets, head_fd, watch_list, pending, datagrams, clock>>
  BY DEF RemoveConn, Unlisted
<1> HIDE DEF fd
<1>3. Connections' = Connections \ {fd}
  BY <1>2 DEF Connections
<1>4. Quiet \in Connection
  BY EmptySeq DEF Quiet, Connection
<1>5. Shape' /\ Sockets'
  BY <1>1, <1>2, <1>4 DEF Structure, Shape, Sockets
<1>6. Registered'
  <2>1. Registered
    BY DEF Structure
  <2> QED
    BY <2>1, <1>1, <1>2, <1>3 DEF Registered
<1>7. Counted'
  <2> DEFINE C == Connections
             D == Connections'
  <2>1. C \in SUBSET Fds /\ D \in SUBSET C
    BY <1>3 DEF Structure, Shape, Connections
  <2>2. Cardinality(C) + pending.control + pending.data <= MaxConns
        /\ pending.control \in Nat /\ pending.data \in Nat
    BY DEF Structure, Counted, Shape
  <2>3. Cardinality(D) <= Cardinality(C) /\ Cardinality(C) \in Nat /\ Cardinality(D) \in Nat
    <3> HIDE DEF C, D
    <3>1. IsFiniteSet(C) /\ Cardinality(C) \in Nat
      BY <2>1, FdsFinite
    <3>2. IsFiniteSet(D) /\ Cardinality(D) <= Cardinality(C)
      BY <2>1, <3>1, FS_Subset
    <3> QED
      BY <3>1, <3>2, FS_CardinalityType
  <2>4. Cardinality(D) + pending.control + pending.data <= MaxConns
    BY <2>2, <2>3, LoopAssumption
  <2> QED
    BY <2>4, <1>2 DEF Counted, Structure
<1>8. StillReady'
  <2> SUFFICES ASSUME NEW f \in watch_list
               PROVE  f \in Ready'
    BY <1>2 DEF StillReady
  <2>1. f \in Ready /\ f \in Fds /\ f # fd
    BY <1>1 DEF Structure, StillReady, Shape
  <2>2. conn'[f] = conn[f]
    BY <2>1, <1>2 DEF Structure, Shape
  <2> QED
    BY <2>1, <2>2, <1>2, <1>3 DEF Ready
<1>9. Reception'
  BY <1>2 DEF Reception
<1> QED
  BY <1>5, <1>6, <1>7, <1>8, <1>9 DEF Structure

\* The steps that go on after a message, or the header of one, except INIT and SENDFILE.
LEMMA StructureMessage ==
  ASSUME Structure,
         \/ PayloadNext /\ Command \in Commands
         \/ CrashResponse \/ DataRecvHook
  PROVE  Structure'
<1> USE DEF sockets, lists, clock, arrivals
<1>1. task.at = "recv" /\ Shape /\ Reception
  BY DEF Structure, PayloadNext, CrashResponse, DataRecvHook, Complete
<1>2. UNCHANGED <<sockets, lists, watch_list, arrivals, clock>>
  BY DEF PayloadNext, CrashResponse, DataRecvHook
<1>3. Shape' /\ Sockets' /\ Registered' /\ Counted'
  BY <1>2 DEF Structure, Shape, Sockets, Registered, Connections, Counted
<1>4. Ready' = Ready
  BY <1>2 DEF Ready, Connections
<1>5. StillReady'
  BY <1>2, <1>4 DEF Structure, StillReady
<1>6. Reception'
  <2>1. CASE CrashResponse
    BY <2>1 DEF CrashResponse, Reception
  <2>2. CASE DataRecvHook
    BY <2>2, <1>1, SendingProperty DEF DataRecvHook
  <2>3. CASE PayloadNext /\ Command \in Commands
    <3>1. /\ task' = Receiving(task.fd, Command, PayloadSize[Command])
          /\ task.part = "header" /\ PayloadSize[Command] > 0 /\ Command \in Commands
      BY <2>3 DEF PayloadNext
    <3>2. /\ task.fd \in Fds /\ task.fd \in Connections /\ task.fd \notin watch_list
          /\ task.fd \in control_conn_list
      <4>1. "header" # "packet" /\ "header" \notin Commands
        BY SizeAssumption
      <4> QED
        BY <1>1, <3>1, <4>1, Receives
    <3>3. PayloadSize[Command] \in Nat \ {0}
      BY <3>1, TotalProperty
    <3> DEFINE c == Command
    <3> HIDE DEF c
    <3>4. task' = Receiving(task.fd, c, PayloadSize[c]) /\ c \in Commands
          /\ PayloadSize[c] \in Nat \ {0}
      BY <3>1, <3>3 DEF c
    <3>5. /\ task' \in [at : {"recv"}, fd : Fds, part : Commands \cup {"header", "packet"},
                        size : Nat \ {0}, got : Seq(Piece)]
          /\ task'.fd = task.fd /\ task'.part = c /\ task'.size = PayloadSize[c]
          /\ Len(task'.got) <= task'.size
      <4>1. Begun(task', task.fd, c, PayloadSize[c])
        BY <3>2, <3>4, ReceivingProperty
      <4> QED
        BY <4>1 DEF Begun
    <3> QED
      BY <1>2, <3>2, <3>4, <3>5 DEF Reception, Connections
  <2> QED
    BY <2>1, <2>2, <2>3
<1> QED
  BY <1>3, <1>5, <1>6 DEF Structure

\* INIT, if it is the first.
LEMMA StructureInit ==
  ASSUME Structure, flag_init = 0, InitResponse
  PROVE  Structure'
<1> DEFINE m == Min(FreeFds)
           n == Max(Lowest(2))
<1> USE DEF sockets, lists, clock
<1>0. /\ Shape /\ Sockets /\ Registered /\ StillReady /\ Counted /\ Reception
      /\ task.at = "recv"
  BY DEF Structure, InitResponse, Complete
<1>1. task.fd \in Fds /\ task.fd \notin watch_list
  BY <1>0, Receives
<1>2. PICK r : Updated(task.fd, r)
  BY <1>0, <1>1, ReplyEffect DEF InitResponse
<1>3. task' \in {Passing, [at |-> "exited"]}
  BY <1>0, <1>1, ReplyEffect DEF InitResponse
<1>4. Cardinality(FreeFds) >= 2
  BY <1>0, FreeEnough
<1>5. m \in FreeFds /\ n \in FreeFds /\ m # n /\ Lowest(2) = {m, n}
  BY <1>4, LowestTwo
<1>6. PICK k \in 0 .. NbrCount : dest_data_sockets' = Lowest(k + 2) \ Lowest(2)
  BY DEF InitResponse
<1>7. /\ dest_data_sockets' \in SUBSET FreeFds
      /\ Cardinality(dest_data_sockets') <= NbrCount
      /\ dest_data_sockets' \cap {m, n} = {}
  <2> DEFINE D == Lowest(k + 2) \ Lowest(2)
  <2>1. k \in Nat /\ k <= NbrCount
    BY LoopAssumption
  <2>2. D \in SUBSET FreeFds /\ Cardinality(D) <= k
    BY <2>1, <1>4, LowestAfterTwo
  <2>3. D \in SUBSET Fds
    BY <2>2, BelowProperty
  <2>4. D \cap {m, n} = {}
    BY <1>5
  <2> HIDE DEF D
  <2>5. Cardinality(D) \in Nat
    BY <2>3, FdsFinite
  <2>6. Cardinality(D) <= NbrCount
    BY <2>1, <2>2, <2>5, LoopAssumption
  <2>7. dest_data_sockets' = D
    BY <1>6 DEF D
  <2> QED
    BY <2>2, <2>4, <2>6, <2>7
<1>8. /\ flag_init' = 1 /\ data_socket' = m /\ router_socket' = n
      /\ master_list' = master_list \cup {m, n}
      /\ head_fd' = Max({head_fd} \cup {m, n})
      /\ left' = Interval /\ until' = Interval
      /\ UNCHANGED <<control_conn_list, data_conn_list, watch_list, pending, datagrams>>
  BY <1>5 DEF InitResponse
<1> HIDE DEF m, n
<1>9. \A f \in FreeFds : /\ f \in Fds /\ f \notin Connections /\ f \notin dest_data_sockets
                         /\ f # control_socket /\ f # data_socket /\ f # router_socket
  BY FreeProperty
<1>10. m \in Fds /\ n \in Fds /\ head_fd \in Fds
  BY <1>0, <1>5, <1>9 DEF Shape
<1>11. head_fd' \in Fds /\ head_fd <= head_fd' /\ m <= head_fd' /\ n <= head_fd'
  <2> DEFINE S == {head_fd} \cup {m, n}
  <2>1. S \in SUBSET Fds /\ S # {}
    BY <1>10
  <2> HIDE DEF S
  <2>2. Max(S) \in S /\ \A x \in S : x <= Max(S)
    BY <2>1, MaxProperty
  <2>3. head_fd \in S /\ m \in S /\ n \in S /\ head_fd' = Max(S)
    BY <1>8 DEF S
  <2> QED
    BY <2>1, <2>2, <2>3
<1>12. Shape' /\ Sockets'
  <2>1. dest_data_sockets' \in SUBSET Fds
    BY <1>7, BelowProperty
  <2>2. left' \in 0 .. Interval /\ until' \in 0 .. left'
    BY <1>8, LoopAssumption
  <2> QED
    BY <2>1, <2>2, <1>0, <1>2, <1>8, <1>10, <1>11 DEF Shape, Sockets, Updated
<1>13. data_socket = NoFd /\ router_socket = NoFd /\ NoFd \notin Fds /\ control_socket \in Fds
  BY <1>0, LoopAssumption DEF Sockets, NoFd, Fds, control_socket
<1>14. Connections' = Connections
  BY <1>8 DEF Connections
<1>15. Registered'
  <2>1. /\ {control_socket, data_socket, router_socket} \cap Fds = {control_socket}
        /\ {control_socket, data_socket', router_socket'} \cap Fds = {control_socket, m, n}
    BY <1>8, <1>10, <1>13
  <2>2. /\ master_list = {control_socket} \cup Connections
        /\ control_conn_list \cap data_conn_list = {}
        /\ control_socket \notin Connections
        /\ control_socket \notin dest_data_sockets
    BY <1>0, <2>1 DEF Registered
  <2>3. master_list' = {control_socket, m, n} \cup Connections'
    BY <2>2, <1>8, <1>14
  <2>4. Connections' \cap ({control_socket, m, n} \cup dest_data_sockets') = {}
    BY <2>2, <1>5, <1>7, <1>9, <1>14
  <2>5. dest_data_sockets' \cap {control_socket, m, n} = {}
    BY <1>7, <1>9
  <2>6. ASSUME NEW x \in master_list' PROVE x \in 0 .. head_fd'
    <3>1. head_fd \in Nat /\ head_fd' \in Nat /\ m \in Nat /\ n \in Nat
      BY <1>10, <1>11, LoopAssumption DEF Fds
    <3>2. CASE x \in master_list
      <4>1. x \in 0 .. head_fd
        BY <1>0, <3>2 DEF Registered
      <4> QED
        BY <4>1, <3>1, <1>11
    <3>3. CASE x \in {m, n}
      BY <3>1, <3>3, <1>11
    <3> QED
      BY <3>2, <3>3, <1>8
  <2>7. control_conn_list' \cap data_conn_list' = {}
    BY <2>2, <1>8
  <2> QED
    BY <2>1, <2>3, <2>4, <2>5, <2>6, <2>7 DEF Registered
<1>16. StillReady'
  <2> SUFFICES ASSUME NEW f \in watch_list
               PROVE  f \in Ready'
    BY <1>8 DEF StillReady
  <2>1. f \in Ready /\ f \in Fds /\ f # task.fd
    BY <1>0, <1>1 DEF StillReady, Shape
  <2>2. conn'[f] = conn[f]
    BY <2>1, <1>2 DEF Updated
  <2>3. f \in master_list' /\ f <= head_fd' /\ f # data_socket /\ f # router_socket
    <3>1. f \in Nat /\ head_fd \in Nat /\ head_fd' \in Nat /\ f <= head_fd /\ f \in master_list
      BY <2>1, <1>10, <1>11, LoopAssumption DEF Ready, Fds
    <3> QED
      BY <3>1, <2>1, <1>8, <1>11, <1>13
  <2> QED
    BY <2>1, <2>2, <2>3, <1>8, <1>14 DEF Ready
<1>17. Counted' /\ Reception'
  BY <1>0, <1>3, <1>7, <1>8, <1>14 DEF Counted, Reception
<1> QED
  BY <1>12, <1>15, <1>16, <1>17 DEF Structure

\* The commands that are only replied to.
LEMMA StructureOther ==
  ASSUME Structure, OtherResponse
  PROVE  Structure'
<1> USE DEF sockets, lists, clock
<1>1. task.at = "recv" /\ Shape /\ Reception
  BY DEF Structure, OtherResponse, Complete
<1>2. task.fd \in Fds /\ task.fd \notin watch_list
  BY <1>1, Receives
<1>3. PICK r : Updated(task.fd, r)
  BY <1>1, <1>2, ReplyEffect DEF OtherResponse
<1>4. /\ task' \in {Passing, [at |-> "exited"]}
      /\ UNCHANGED <<sockets, lists, watch_list, pending, datagrams, clock>>
  BY <1>1, <1>2, ReplyEffect DEF OtherResponse
<1>5. Shape' /\ Sockets' /\ Registered' /\ Counted' /\ Reception'
  BY <1>3, <1>4
     DEF Structure, Shape, Sockets, Registered, Connections, Counted, Reception, Updated
<1>6. \A f \in watch_list : conn'[f] = conn[f]
  BY <1>1, <1>2, <1>3 DEF Updated, Shape
<1>7. \A f \in watch_list : f \in Ready => f \in Ready'
  BY <1>4, <1>6 DEF Ready, Connections
<1> QED
  BY <1>4, <1>5, <1>7 DEF Structure, StillReady

\* SENDFILE may make a connection.
LEMMA StructureSendfile ==
  ASSUME Structure, SendfileResponse
  PROVE  Structure'
<1> USE DEF sockets, lists, clock
<1>0. /\ Shape /\ Sockets /\ Registered /\ StillReady /\ Counted /\ Reception
      /\ task.at = "recv"
  BY DEF Structure, SendfileResponse, Complete
<1>1. conn' = conn /\ pending' = pending /\ datagrams' = datagrams
  BY DEF SendfileResponse, arrivals
<1>3. Reception'
  BY <1>0, SendingProperty DEF SendfileResponse
<1>4. UNCHANGED <<flag_init, data_socket, router_socket, lists, watch_list, clock>>
  BY DEF SendfileResponse
<1>5. /\ dest_data_sockets' \in SUBSET (dest_data_sockets \cup FreeFds)
      /\ Cardinality(dest_data_sockets') <= NbrCount
  <2>1. CASE UNCHANGED dest_data_sockets
    BY <2>1, <1>0 DEF Counted
  <2>2. CASE /\ Cardinality(dest_data_sockets) < NbrCount
             /\ dest_data_sockets' = dest_data_sockets \cup Lowest(1)
    <3> DEFINE D == dest_data_sockets
               L == Lowest(1)
    <3>1. L \in SUBSET FreeFds /\ L \in SUBSET Fds /\ Cardinality(L) <= 1
      BY LowestBound
    <3>2. D \in SUBSET Fds /\ Cardinality(D) < NbrCount
      BY <1>0, <2>2 DEF Shape
    <3> HIDE DEF D, L
    <3>3. /\ IsFiniteSet(L) /\ Cardinality(L) \in Nat
          /\ IsFiniteSet(D) /\ Cardinality(D) \in Nat
      BY <3>1, <3>2, FdsFinite
    <3>4. Cardinality(D \cup L) = Cardinality(D) + Cardinality(L) - Cardinality(D \cap L)
      BY <3>3, FS_Union
    <3>5. Cardinality(D \cap L) \in Nat
      BY <3>3, FS_Intersection, FS_CardinalityType
    <3>6. Cardinality(D \cup L) <= NbrCount
      BY <3>1, <3>2, <3>3, <3>4, <3>5, LoopAssumption
    <3> QED
      BY <2>2, <3>1, <3>6 DEF D, L
  <2> QED
    BY <2>1, <2>2 DEF SendfileResponse
<1>6. \A f \in FreeFds : /\ f \in Fds /\ f \notin Connections
                         /\ f # control_socket /\ f # data_socket /\ f # router_socket
  BY FreeProperty
<1>7. Connections' = Connections
  BY <1>4 DEF Connections
<1>8. Shape' /\ Sockets'
  <2>1. dest_data_sockets' \in SUBSET Fds
    BY <1>0, <1>5, <1>6 DEF Shape
  <2> QED
    BY <2>1, <1>0, <1>1, <1>4 DEF Shape, Sockets
<1>9. Registered'
  <2> DEFINE Z == {control_socket, data_socket, router_socket} \cap Fds
  <2>1. /\ master_list = Z \cup Connections
        /\ control_conn_list \cap data_conn_list = {}
        /\ Connections \cap (Z \cup dest_data_sockets) = {}
        /\ dest_data_sockets \cap Z = {}
        /\ master_list \subseteq 0 .. head_fd
    BY <1>0 DEF Registered
  <2>2. FreeFds \cap (Z \cup Connections) = {}
    BY <1>6
  <2>3. Z' = Z
    BY <1>4
  <2>4. /\ Connections \cap (Z \cup dest_data_sockets') = {}
        /\ dest_data_sockets' \cap Z = {}
    <3> HIDE DEF Z
    <3> QED
      BY <2>1, <2>2, <1>5
  <2> HIDE DEF Z
  <2>5. /\ master_list' = Z' \cup Connections'
        /\ control_conn_list' \cap data_conn_list' = {}
        /\ Connections' \cap (Z' \cup dest_data_sockets') = {}
        /\ dest_data_sockets' \cap Z' = {}
        /\ master_list' \subseteq 0 .. head_fd'
    BY <2>1, <2>3, <2>4, <1>4, <1>7
  <2> QED
    BY <2>5 DEF Registered, Z
<1>10. StillReady'
  <2> SUFFICES ASSUME NEW f \in watch_list
               PROVE  f \in Ready'
    BY <1>4 DEF StillReady
  <2>1. f \in Ready
    BY <1>0 DEF StillReady
  <2> QED
    BY <2>1, <1>1, <1>4, <1>7 DEF Ready
<1>11. Counted'
  BY <1>0, <1>1, <1>5, <1>7 DEF Counted
<1> QED
  BY <1>3, <1>8, <1>9, <1>10, <1>11 DEF Structure

-----------------------------------------------------------------------------
(* The streams through the steps *)

\* What has not been received of a connection.
Coming(fd) == conn[fd].unread \o conn[fd].rest

\* Does the router receive on fd?
On(fd) == task.at = "recv" /\ task.fd = fd

LEMMA ComingProperty ==
  ASSUME Shape, NEW fd \in Fds
  PROVE  /\ Coming(fd) \in Seq(Piece)
         /\ << >> \o Coming(fd) = Coming(fd)
<1> DEFINE u == conn[fd].unread
           t == conn[fd].rest
<1>1. u \in Seq(Piece) /\ t \in Seq(Piece)
  BY ConnProperty
<1> HIDE DEF u, t
<1>2. u \o t \in Seq(Piece)
  BY <1>1, ConcatProperties
<1>3. << >> \o (u \o t) = u \o t
  BY <1>2, ConcatEmptySeq
<1> QED
  BY <1>2, <1>3 DEF Coming, u, t

\* A stream without what the router has received of it.
LEMMA StreamOff ==
  ASSUME Shape, NEW fd \in Fds, ~ On(fd)
  PROVE  Stream(fd) = Coming(fd) /\ Awaited(fd) = "header"
<1>1. Stream(fd) = << >> \o Coming(fd) /\ Awaited(fd) = "header"
  BY DEF Stream, Coming, On, Awaited
<1> QED
  BY <1>1, ComingProperty

\* A stream the router receives.
LEMMA StreamOn ==
  ASSUME Shape, Reception, task.at = "recv"
  PROVE  /\ Stream(task.fd) = task.got \o Coming(task.fd)
         /\ Stream(task.fd) \in Seq(Piece)
         /\ Shifted(Coming(task.fd), Stream(task.fd), Len(task.got))
         /\ Len(task.got) + Len(Coming(task.fd)) = Len(Stream(task.fd))
         /\ \A k \in 1 .. Len(task.got) : Stream(task.fd)[k] = task.got[k]
         /\ Awaited(task.fd) = IF task.part \in Commands THEN task.part ELSE "header"
<1> DEFINE g == task.got
           t == Coming(task.fd)
           s == Stream(task.fd)
<1>1. task.fd \in Fds /\ g \in Seq(Piece)
  BY Receives
<1>2. t \in Seq(Piece)
  BY <1>1, ComingProperty
<1>3. s = g \o t
  BY DEF Stream, Coming
<1> HIDE DEF g, t, s
<1>4. /\ s \in Seq(Piece) /\ Len(s) = Len(g) + Len(t)
      /\ \A i \in 1 .. Len(g) + Len(t) : s[i] = IF i <= Len(g) THEN g[i] ELSE t[i - Len(g)]
  BY <1>1, <1>2, <1>3, ConcatProperties
<1>5. Len(g) \in Nat /\ Len(t) \in Nat
  BY <1>1, <1>2
<1>6. Shifted(t, s, Len(g))
  BY <1>2, <1>4, <1>5 DEF Shifted
<1>7. \A k \in 1 .. Len(g) : s[k] = g[k]
  BY <1>4, <1>5
<1> QED
  BY <1>3, <1>4, <1>6, <1>7 DEF g, t, s, Awaited

\* Nothing changes for the connection fd.
Still(fd) ==
  /\ fd \in Connections
  /\ Stream(fd)' = Stream(fd) /\ Awaited(fd)' = Awaited(fd)
  /\ Kinds(fd)' = Kinds(fd)
  /\ conn'[fd] = conn[fd]

LEMMA StillProperty ==
  ASSUME NEW fd \in Connections, conn'[fd] = conn[fd],
         fd \in data_conn_list' <=> fd \in data_conn_list,
         task' = task \/ (~ On(fd) /\ ~ On(fd)')
  PROVE  Still(fd)
BY DEF Still, Stream, Awaited, Kinds, On

\* Something changes for one connection g; the streams go on if that of g does, ...
LEMMA StreamsGoOn ==
  ASSUME Streams, NEW g,
         \A fd \in Connections' : fd # g => Still(fd),
         g \in Connections' =>
           /\ StreamOK(Stream(g)', Kinds(g)', Awaited(g)', conn'[g].end = "open")
           /\ conn'[g].end # "open" => conn'[g].rest = << >>
  PROVE  Streams'
<1> SUFFICES ASSUME NEW fd \in Connections'
             PROVE  /\ StreamOK(Stream(fd)', Kinds(fd)', Awaited(fd)', conn'[fd].end = "open")
                    /\ conn'[fd].end # "open" => conn'[fd].rest = << >>
  BY DEF Streams
<1>1. CASE fd = g
  BY <1>1
<1>2. CASE fd # g
  <2>1. Still(fd)
    BY <1>2
  <2> QED
    BY <2>1 DEF Still, Streams
<1> QED
  BY <1>1, <1>2

\* ... and INIT is where it was, if it is in that of g.
LEMMA StreamsKept ==
  ASSUME Streams, InitOnce, NEW g, NEW d \in Int, flag_init' = flag_init,
         \A fd \in Connections' : fd # g => Still(fd),
         g \in Connections' =>
           /\ StreamOK(Stream(g)', Kinds(g)', Awaited(g)', conn'[g].end = "open")
           /\ conn'[g].end # "open" => conn'[g].rest = << >>,
         \A b \in Int : g \in Connections' /\ InitIn(Stream(g)', Awaited(g)', b) =>
                          g \in Connections /\ InitIn(Stream(g), Awaited(g), b - d)
  PROVE  Streams' /\ InitOnce'
<1>1. Streams'
  BY StreamsGoOn
<1>2. ASSUME NEW fd \in Connections', NEW b \in Int, InitIn(Stream(fd)', Awaited(fd)', b)
      PROVE  /\ fd \in Connections
             /\ InitIn(Stream(fd), Awaited(fd), IF fd = g THEN b - d ELSE b)
  <2>1. CASE fd = g
    BY <2>1, <1>2
  <2>2. CASE fd # g
    BY <2>2, <1>2 DEF Still
  <2> QED
    BY <2>1, <2>2
<1>3. ASSUME NEW fd \in Connections', NEW gd \in Connections', NEW b \in Int, NEW c \in Int,
             InitIn(Stream(fd)', Awaited(fd)', b)
      PROVE  /\ flag_init' = 0
             /\ InitIn(Stream(gd)', Awaited(gd)', c) => fd = gd /\ b = c
  <2> DEFINE p == IF fd = g THEN b - d ELSE b
             q == IF gd = g THEN c - d ELSE c
  <2>1. p \in Int /\ q \in Int
    OBVIOUS
  <2>2. fd \in Connections /\ InitIn(Stream(fd), Awaited(fd), p)
    BY <1>2, <1>3
  <2>3. flag_init' = 0
    BY <2>1, <2>2 DEF InitOnce
  <2>4. ASSUME InitIn(Stream(gd)', Awaited(gd)', c)
        PROVE  fd = gd /\ b = c
    <3>1. gd \in Connections /\ InitIn(Stream(gd), Awaited(gd), q)
      BY <1>2, <2>4
    <3> HIDE DEF p, q
    <3>2. fd = gd /\ p = q
      BY <2>1, <2>2, <3>1 DEF InitOnce
    <3> QED
      BY <3>2 DEF p, q
  <2> QED
    BY <2>3, <2>4
<1>4. InitOnce'
  BY <1>3 DEF InitOnce
<1> QED
  BY <1>1, <1>4

\* An empty stream.
LEMMA EmptyStream ==
  ASSUME NEW ms, NEW o, NEW b
  PROVE  /\ StreamOK(<< >>, ms, "header", o)
         /\ ~ InitIn(<< >>, "header", b)
<1>1. << >> \in Seq(Piece) /\ Len(<< >>) = 0
  BY EmptySeq
<1>2. 1 .. Len(<< >>) = {}
  BY <1>1
<1> QED
  BY <1>1, <1>2 DEF StreamOK, Flow, InitIn

\* The steps that leave the connections alone.
LEMMA StreamsLoop ==
  ASSUME LoopInv,
         \/ Select \/ Timeout \/ EndPass \/ RouterRecvHook
         \/ \E i \in Fds : ExistingConnection(i)
         \/ \E kind \in {"control", "data"} : Connect(kind)
         \/ Datagram \/ Tick \/ BrokenPipe
  PROVE  Streams' /\ InitOnce'
<1> USE DEF sockets, lists, clock, arrivals
<1>1. /\ flag_init' = flag_init /\ conn' = conn
      /\ control_conn_list' = control_conn_list /\ data_conn_list' = data_conn_list
  BY DEF Select, Timeout, EndPass, RouterRecvHook, ExistingConnection, Connect, Datagram, Tick,
         BrokenPipe
<1>2. Connections' = Connections
  BY <1>1 DEF Connections
<1>3. ASSUME NEW fd \in Connections'
      PROVE  Still(fd)
  <2>1. CASE \/ Select \/ Timeout \/ EndPass \/ RouterRecvHook
             \/ \E kind \in {"control", "data"} : Connect(kind)
             \/ Datagram \/ Tick \/ BrokenPipe
    <3>1. task' = task \/ (~ On(fd) /\ ~ On(fd)')
      BY <2>1 DEF Select, Timeout, EndPass, RouterRecvHook, Connect, Datagram, Tick,
                  BrokenPipe, On, Selecting, Passing
    <3> QED
      BY <3>1, <1>1, <1>2, <1>3, StillProperty
  <2>2. ASSUME NEW i \in Fds, ExistingConnection(i)
        PROVE  Still(fd)
    <3>1. task.at = "pass"
      BY <2>2 DEF ExistingConnection, At, Passing
    <3>2. PICK part \in {"header", "packet"}, size \in Nat \ {0} : task' = Receiving(i, part, size)
      BY <2>2, SizeAssumption DEF ExistingConnection
    <3>3. task'.at = "recv" /\ task'.fd = i /\ task'.part = part /\ task'.got = << >>
      <4>1. part \in Commands \cup {"header", "packet"}
        OBVIOUS
      <4>2. Begun(task', i, part, size)
        BY <3>2, <4>1, ReceivingProperty
      <4> QED
        BY <4>2 DEF Begun
    <3>4. part \notin Commands
      BY <3>2, SizeAssumption
    <3> QED
      BY <1>1, <1>2, <1>3, <3>1, <3>3, <3>4 DEF Still, Stream, Awaited, Kinds
  <2> QED
    BY <2>1, <2>2
<1>4. control_socket \notin Connections'
  BY <1>2, LoopAssumption DEF LoopInv, Registered, Fds, control_socket
<1>5. Streams /\ InitOnce
  BY DEF LoopInv
<1> QED
  BY <1>1, <1>3, <1>4, <1>5, StreamsKept

\* A new connection has an empty stream.
LEMMA StreamsAccept ==
  ASSUME LoopInv, NewControlConn \/ NewDataConn
  PROVE  Streams' /\ InitOnce'
<1> USE DEF sockets, lists, clock
<1>0. PICK i : \E kind \in {"control", "data"} : Accept(i, kind)
  BY DEF NewControlConn, NewDataConn
<1>1. PICK kind \in {"control", "data"} : Accept(i, kind)
  BY <1>0
<1>2. pending[kind] > 0
  BY <1>1 DEF Accept
<1>3. Min(FreeFds) \in FreeFds
  BY <1>2, FreeEnough DEF LoopInv
<1>4. PICK g \in FreeFds : g = Min(FreeFds)
  BY <1>3
<1>5. /\ conn' = [conn EXCEPT ![g] = Quiet]
      /\ task' = task /\ task = Passing /\ flag_init' = flag_init
  BY <1>1, <1>4 DEF Accept, At
<1>6. control_conn_list' \in SUBSET (control_conn_list \cup {g})
      /\ data_conn_list' \in SUBSET (data_conn_list \cup {g})
      /\ data_conn_list \in SUBSET data_conn_list'
  BY <1>4 DEF NewControlConn, NewDataConn
<1>7. g \in Fds /\ g \notin Connections
  BY <1>4, FreeProperty
<1>8. Connections' \in SUBSET (Connections \cup {g}) /\ Connections \in SUBSET Fds
  BY <1>6 DEF Connections, LoopInv, Shape
<1>9. ASSUME NEW fd \in Connections', fd # g
      PROVE  Still(fd)
  <2>1. fd \in Connections /\ fd \in Fds
    BY <1>8, <1>9
  <2>2. conn'[fd] = conn[fd]
    BY <1>5, <1>9, <2>1 DEF LoopInv, Shape
  <2>3. fd \in data_conn_list' <=> fd \in data_conn_list
    BY <1>6, <1>9
  <2> QED
    BY <1>5, <2>1, <2>2, <2>3, StillProperty
<1>10. Stream(g)' = << >> /\ Awaited(g)' = "header" /\ conn'[g].rest = << >>
  <2>1. conn'[g] = Quiet
    BY <1>5, <1>7 DEF LoopInv, Shape
  <2>2. task'.at # "recv"
    BY <1>5 DEF Passing
  <2>3. << >> \o (<< >> \o << >>) = << >>
    BY EmptySeq, ConcatEmptySeq
  <2> QED
    BY <2>1, <2>2, <2>3 DEF Stream, Awaited, Quiet
<1>11. /\ StreamOK(Stream(g)', Kinds(g)', Awaited(g)', conn'[g].end = "open")
      /\ \A b \in Int : ~ InitIn(Stream(g)', Awaited(g)', b)
  BY <1>10, EmptyStream
<1>12. Streams /\ InitOnce
  BY DEF LoopInv
<1>13. PICK d \in Int : d = 0
  OBVIOUS
<1>14. \A b \in Int : g \in Connections' /\ InitIn(Stream(g)', Awaited(g)', b) =>
                        g \in Connections /\ InitIn(Stream(g), Awaited(g), b - d)
  BY <1>11
<1>15. g \in Connections' =>
         /\ StreamOK(Stream(g)', Kinds(g)', Awaited(g)', conn'[g].end = "open")
         /\ conn'[g].end # "open" => conn'[g].rest = << >>
  BY <1>10, <1>11
<1> QED
  BY <1>5, <1>9, <1>12, <1>14, <1>15, StreamsKept

\* Concatenation of messages' pieces is associative.
LEMMA ConcatPieces ==
  ASSUME NEW q \in Seq(Piece), NEW u \in Seq(Piece), NEW z \in Seq(Piece)
  PROVE  (q \o u) \o z = q \o (u \o z)
<1> HIDE DEF Piece
<1> QED
  BY ConcatAssociative, SMTT(30)

\* Concatenations may be grouped around the middle.
Regroups(q, h, u, z) == (q \o h) \o (u \o z) = q \o ((h \o u) \o z)

LEMMA Regroup ==
  ASSUME NEW q \in Seq(Piece), NEW h \in Seq(Piece), NEW u \in Seq(Piece),
         NEW z \in Seq(Piece)
  PROVE  Regroups(q, h, u, z)
<1> DEFINE w == u \o z
<1>1. w \in Seq(Piece)
  BY ConcatProperties
<1>2. (h \o u) \o z = h \o w
  BY ConcatPieces
<1> HIDE DEF w
<1>3. (q \o h) \o w = q \o (h \o w)
  <2>1. \A r \in Seq(Piece) : (q \o h) \o r = q \o (h \o r)
    BY ConcatPieces
  <2> QED
    BY <1>1, <2>1
<1> QED
  BY <1>2, <1>3 DEF w, Regroups

\* A call of recv moves pieces from what is unread to what is received.
LEMMA StreamsRecv ==
  ASSUME LoopInv, Recv
  PROVE  Streams' /\ InitOnce'
<1>0. task.fd \in Fds
  BY Receives DEF LoopInv, Recv
<1> PICK g \in Fds : g = task.fd
  BY <1>0
<1> DEFINE q == task.got
           s == conn[g].unread
           z == conn[g].rest
<1> USE DEF sockets, lists, clock
<1>1. Shape /\ Reception /\ task.at = "recv" /\ Streams /\ InitOnce
  BY DEF LoopInv, Recv
<1>2. g \in Fds /\ g \in Connections /\ q \in Seq(Piece)
  BY <1>1, Receives
<1>3. s \in Seq(Piece) /\ z \in Seq(Piece)
  BY <1>1, <1>2, ConnProperty
<1>4. PICK k \in Nat \ {0} :
        LET u == SubSeq(s, k + 1, Len(s))
            h == SubSeq(s, 1, k)
        IN  /\ k <= Len(s)
            /\ u \in Seq(Piece) /\ h \in Seq(Piece)
            /\ Updated(g, [unread |-> u, rest |-> z, end |-> conn[g].end])
            /\ task'.at = "recv" /\ task'.fd = g /\ task'.part = task.part
            /\ task'.got = q \o h
  BY <1>1, RecvEffect
<1> DEFINE u == SubSeq(s, k + 1, Len(s))
           h == SubSeq(s, 1, k)
<1>5. /\ conn'[g].unread = u /\ conn'[g].rest = z /\ conn'[g].end = conn[g].end
      /\ \A fd \in Fds : fd # g => conn'[fd] = conn[fd]
      /\ u \in Seq(Piece) /\ h \in Seq(Piece)
      /\ task'.at = "recv" /\ task'.fd = g /\ task'.part = task.part
      /\ task'.got = q \o h
  BY <1>4 DEF Updated
<1>6. h \o u = s
  <2> HIDE DEF s
  <2>1. Len(s) \in Nat /\ k <= Len(s)
    BY <1>3, <1>4
  <2>2. SubSeq(s, 1, k) \o SubSeq(s, k + 1, Len(s)) = SubSeq(s, 1, Len(s))
    <3>1. 1 \in 1 .. Len(s) + 1 /\ k \in 1 - 1 .. Len(s) /\ Len(s) \in k .. Len(s)
      BY <2>1
    <3> QED
      BY <1>3, <3>1, ConcatAdjacentSubSeq
  <2>3. SubSeq(s, 1, Len(s)) = s
    BY <1>3, SubSeqFull
  <2> QED
    BY <2>2, <2>3
<1> HIDE DEF q, s, z, u, h
<1>7. (q \o h) \o (u \o z) = q \o (s \o z)
  <2>1. q \in Seq(Piece) /\ h \in Seq(Piece) /\ u \in Seq(Piece) /\ z \in Seq(Piece)
    BY <1>2, <1>3, <1>5
  <2>2. Regroups(q, h, u, z)
    BY <2>1, Regroup
  <2> QED
    BY <2>2, <1>6 DEF Regroups
<1>8. Stream(g)' = Stream(g) /\ Awaited(g)' = Awaited(g)
  <2>1. Stream(g) = q \o (s \o z)
    BY <1>1 DEF Stream, q, s, z
  <2>2. Stream(g)' = (q \o h) \o (u \o z)
    <3>1. Stream(g)' = task'.got \o (conn'[g].unread \o conn'[g].rest)
      BY <1>5 DEF Stream
    <3> QED
      BY <3>1, <1>5
  <2>3. Awaited(g)' = Awaited(g)
    BY <1>1, <1>5 DEF Awaited
  <2> QED
    BY <1>7, <2>1, <2>2, <2>3
<1>9. UNCHANGED <<flag_init, control_conn_list, data_conn_list>>
  BY DEF Recv
<1>10. Connections' = Connections /\ Kinds(g)' = Kinds(g) /\ Connections \in SUBSET Fds
  BY <1>1, <1>9 DEF Connections, Kinds, Shape
<1>11. ASSUME NEW fd \in Connections', fd # g
       PROVE  Still(fd)
  <2>1. ~ On(fd) /\ ~ On(fd)' /\ conn'[fd] = conn[fd]
    BY <1>5, <1>10, <1>11 DEF On
  <2> QED
    BY <2>1, <1>9, <1>10, <1>11, StillProperty
<1>12. /\ StreamOK(Stream(g)', Kinds(g)', Awaited(g)', conn'[g].end = "open")
       /\ conn'[g].end # "open" => conn'[g].rest = << >>
  <2>1. /\ StreamOK(Stream(g), Kinds(g), Awaited(g), conn[g].end = "open")
        /\ conn[g].end # "open" => z = << >>
    BY <1>1, <1>2 DEF Streams, z
  <2> QED
    BY <2>1, <1>5, <1>8, <1>10
<1>13. \A b \in Int : InitIn(Stream(g)', Awaited(g)', b) =>
                        g \in Connections /\ InitIn(Stream(g), Awaited(g), b - 0)
  <2> TAKE b \in Int
  <2>1. b - 0 = b
    OBVIOUS
  <2> QED
    BY <2>1, <1>2, <1>8
<1> QED
  BY <1>1, <1>9, <1>11, <1>12, <1>13, StreamsKept

\* A connection that is closed takes its stream with it.
LEMMA StreamsRemove ==
  ASSUME LoopInv, RemoveConn
  PROVE  Streams' /\ InitOnce'
<1>1. Shape /\ Reception /\ task.at = "recv" /\ Streams /\ InitOnce
  BY DEF LoopInv, RemoveConn, AtEnd
<1>2. PICK g \in Fds : g = task.fd
  BY <1>1, Receives
<1>3. /\ control_conn_list' = control_conn_list \ {g}
      /\ data_conn_list' = data_conn_list \ {g}
      /\ conn' = [conn EXCEPT ![g] = Quiet]
      /\ task' = Passing /\ flag_init' = flag_init
  BY <1>2 DEF RemoveConn, Unlisted, sockets
<1>4. Connections' = Connections \ {g} /\ Connections \in SUBSET Fds
  BY <1>1, <1>3 DEF Connections, Shape
<1>5. ASSUME NEW fd \in Connections', fd # g
      PROVE  Still(fd)
  <2>1. ~ On(fd) /\ ~ On(fd)'
    BY <1>2, <1>3, <1>5 DEF On, Passing
  <2>2. conn'[fd] = conn[fd]
    BY <1>1, <1>3, <1>4, <1>5 DEF Shape
  <2> QED
    BY <2>1, <2>2, <1>3, <1>4, <1>5, StillProperty
<1>6. g \notin Connections'
  BY <1>4
<1> QED
  BY <1>1, <1>3, <1>5, <1>6, StreamsKept

\* When recvALL hangs, nothing is left of the stream.
LEMMA StreamsHang ==
  ASSUME LoopInv, Hang
  PROVE  Streams' /\ InitOnce'
<1>1. Shape /\ Reception /\ task.at = "recv" /\ Streams /\ InitOnce
  BY DEF LoopInv, Hang, AtEnd
<1>2. PICK g \in Fds : g = task.fd
  BY <1>1, Receives
<1>3. /\ conn' = conn /\ task' = [at |-> "hung"] /\ flag_init' = flag_init
      /\ control_conn_list' = control_conn_list /\ data_conn_list' = data_conn_list
      /\ conn[g].unread = << >> /\ conn[g].end # "open"
  BY <1>2 DEF Hang, AtEnd, sockets, lists, arrivals
<1>4. Connections' = Connections /\ g \in Connections
  BY <1>1, <1>2, <1>3, Receives DEF Connections
<1>5. ASSUME NEW fd \in Connections', fd # g
      PROVE  Still(fd)
  <2>1. ~ On(fd) /\ ~ On(fd)'
    BY <1>2, <1>3, <1>5 DEF On
  <2> QED
    BY <2>1, <1>3, <1>4, <1>5, StillProperty
<1>6. conn'[g].rest = << >> /\ conn'[g].unread = << >>
  BY <1>1, <1>3, <1>4 DEF Streams
<1>7. Stream(g)' = << >> /\ Awaited(g)' = "header"
  <2>1. << >> \o (<< >> \o << >>) = << >>
    BY EmptySeq, ConcatEmptySeq
  <2> QED
    BY <2>1, <1>3, <1>6 DEF Stream, Awaited
<1>8. /\ StreamOK(Stream(g)', Kinds(g)', Awaited(g)', conn'[g].end = "open")
      /\ \A b \in Int : ~ InitIn(Stream(g)', Awaited(g)', b)
  BY <1>7, EmptyStream
<1> QED
  BY <1>1, <1>3, <1>5, <1>6, <1>8, StreamsKept

\* What the router has received when it has all it asked for.
LEMMA GotProperty ==
  ASSUME LoopInv, task.at = "recv", Got
  PROVE  LET s == Stream(task.fd)
         IN  /\ Len(task.got) = task.size /\ task.size \in Nat \ {0}
             /\ s \in Seq(Piece) /\ s # << >> /\ 1 \in 1 .. Len(s)
             /\ Command = s[1][1] /\ Command \in Kinds(task.fd)
             /\ Shifted(Coming(task.fd), s, task.size)
             /\ task.size + Len(Coming(task.fd)) = Len(s)
             /\ StreamOK(s, Kinds(task.fd), Awaited(task.fd), conn[task.fd].end = "open")
<1> DEFINE s == Stream(task.fd)
<1>1. Shape /\ Reception /\ Streams
  BY DEF LoopInv
<1>2. /\ task.size \in Nat \ {0} /\ Len(task.got) = task.size /\ task.fd \in Connections
  BY <1>1, Receives DEF Got
<1>3. /\ s \in Seq(Piece)
      /\ Shifted(Coming(task.fd), s, task.size)
      /\ task.size + Len(Coming(task.fd)) = Len(s)
      /\ \A k \in 1 .. task.size : s[k] = task.got[k]
  BY <1>1, <1>2, StreamOn
<1>4. Len(Coming(task.fd)) \in Nat /\ Len(s) \in Nat
  BY <1>3 DEF Shifted
<1>5. 1 \in 1 .. Len(s) /\ 1 \in 1 .. task.size
  BY <1>2, <1>3, <1>4
<1>6. s # << >>
  BY <1>5, EmptySeq
<1>7. StreamOK(s, Kinds(task.fd), Awaited(task.fd), conn[task.fd].end = "open")
  BY <1>1, <1>2 DEF Streams
<1> HIDE DEF s
<1>8. Command = s[1][1]
  BY <1>3, <1>5 DEF Command
<1>9. Command \in Kinds(task.fd)
  BY <1>5, <1>7, <1>8 DEF StreamOK
<1> QED
  BY <1>2, <1>3, <1>5, <1>6, <1>7, <1>8, <1>9 DEF s

\* The header of a command is one of a command.
LEMMA CommandProperty ==
  ASSUME LoopInv, task.at = "recv", Got, task.part = "header"
  PROVE  /\ Command \in Commands /\ task.size = HeaderSize
         /\ Awaited(task.fd) = "header" /\ Kinds(task.fd) = Commands
<1>1. /\ Shape /\ Reception /\ Registered
      /\ "header" # "packet" /\ "header" \notin Commands
  BY SizeAssumption DEF LoopInv
<1>2. /\ task.fd \in control_conn_list /\ task.size = HeaderSize
  BY <1>1, Receives
<1>3. Kinds(task.fd) = Commands
  BY <1>1, <1>2 DEF Registered, Kinds
<1>4. Awaited(task.fd) = "header"
  BY <1>1 DEF Awaited
<1> QED
  BY <1>2, <1>3, <1>4, GotProperty

\* A message is there when its last piece is.
LEMMA CompleteProperty ==
  ASSUME LoopInv, NEW c \in Commands \cup {"packet"}, Complete(c)
  PROVE  LET s == Stream(task.fd)
         IN  /\ task.at = "recv" /\ Got
             /\ s[1][1] = c /\ s[1][2] \in Nat
             /\ s[1][2] + (task.size - 1) = Total(c)
<1> DEFINE s == Stream(task.fd)
<1>1. /\ task.at = "recv" /\ Got /\ Shape /\ Reception /\ Registered
      /\ "header" # "packet" /\ "header" \notin Commands /\ "packet" \notin Commands
  BY SizeAssumption DEF LoopInv, Complete
<1>2. /\ s \in Seq(Piece) /\ s # << >> /\ 1 \in 1 .. Len(s)
      /\ Command = s[1][1] /\ Command \in Kinds(task.fd)
      /\ StreamOK(s, Kinds(task.fd), Awaited(task.fd), conn[task.fd].end = "open")
  BY <1>1, GotProperty
<1>3. /\ Awaited(task.fd) = IF task.part \in Commands THEN task.part ELSE "header"
  BY <1>1, StreamOn
<1> HIDE DEF s
<1>4. CASE task.part = "header" /\ Command = c /\ PayloadSize[c] = 0
  <2>1. c \in Commands /\ task.size = HeaderSize /\ Awaited(task.fd) = "header"
    BY <1>1, <1>4, CommandProperty
  <2>2. s[1][2] = 1
    BY <1>2, <2>1 DEF StreamOK
  <2>3. Total(c) = HeaderSize /\ HeaderSize \in Nat
    BY <1>4, <2>1, TotalProperty
  <2> QED
    BY <1>1, <1>2, <1>4, <2>1, <2>2, <2>3 DEF s
<1>5. CASE task.part = c /\ c \in Commands
  <2>1. c # "header" /\ c # "packet"
    BY <1>1, <1>5
  <2>2. task.size = PayloadSize[c]
    BY <1>1, <1>5, <2>1, Receives
  <2>3. s[1] = <<c, HeaderSize + 1>>
    BY <1>2, <1>3, <1>5, <2>1 DEF StreamOK
  <2>4. Total(c) = HeaderSize + PayloadSize[c] /\ HeaderSize \in Nat /\ PayloadSize[c] \in Nat
    BY <1>5, TotalProperty
  <2> QED
    BY <1>1, <2>2, <2>3, <2>4 DEF s
<1>6. CASE task.part = c /\ c = "packet"
  <2>1. task.size = PacketSize /\ task.fd \in data_conn_list
    BY <1>1, <1>6, Receives
  <2>2. Command = "packet"
    BY <1>2, <2>1 DEF Kinds
  <2>3. s[1][2] = 1
    BY <1>1, <1>2, <1>3, <1>6 DEF StreamOK
  <2>4. Total(c) = PacketSize /\ PacketSize \in Nat
    BY <1>6, TotalProperty
  <2> QED
    BY <1>1, <1>2, <1>6, <2>1, <2>2, <2>3, <2>4 DEF s
<1> QED
  BY <1>4, <1>5, <1>6 DEF Complete

\* The first INIT that is processed is the only one.
LEMMA InitIsFirst ==
  ASSUME LoopInv, Complete("init")
  PROVE  /\ flag_init = 0
         /\ \A fd \in Connections : \A b \in Int :
              InitIn(Stream(fd), Awaited(fd), b) => fd = task.fd
<1> DEFINE g == task.fd
           s == Stream(g)
           b0 == s[1][2] - 1
<1>1. "init" \in Commands
  BY SizeAssumption
<1>2. task.at = "recv" /\ Got /\ s[1][1] = "init" /\ s[1][2] \in Nat
  BY <1>1, CompleteProperty
<1>3. s \in Seq(Piece) /\ s # << >>
  BY <1>2, GotProperty
<1>4. InitIn(s, Awaited(g), b0) /\ b0 \in Int
  <2>1. s[1][2] \in Int
    BY <1>2
  <2> HIDE DEF s
  <2>2. InitIn(s, Awaited(g), s[1][2] - 1)
    BY <2>1, <1>2, <1>3, InitFirst
  <2> QED
    BY <2>1, <2>2
<1>5. g \in Connections
  BY <1>2, Receives DEF LoopInv
<1>6. InitOnce
  BY DEF LoopInv
<1> HIDE DEF b0, g
<1> QED
  BY <1>4, <1>5, <1>6 DEF InitOnce, g

\* The router goes on after a whole message.
LEMMA StreamsAfter ==
  ASSUME LoopInv, NEW c \in Commands \cup {"packet"}, Complete(c),
         task'.at # "recv", UNCHANGED <<control_conn_list, data_conn_list>>,
         NEW e \in {"open", "fin", "rst"}, (e = "open") <=> (conn[task.fd].end = "open"),
         Updated(task.fd, [unread |-> conn[task.fd].unread, rest |-> conn[task.fd].rest,
                           end |-> e]),
         flag_init' = IF c = "init" THEN 1 ELSE flag_init
  PROVE  Streams' /\ InitOnce'
<1>1. /\ Shape /\ Reception /\ Streams /\ InitOnce
      /\ task.at = "recv" /\ Got
  BY DEF LoopInv, Complete
<1>2. PICK g \in Fds : g = task.fd
  BY <1>1, Receives
<1>3. PICK n \in Nat \ {0} : n = task.size
  BY <1>1, Receives
<1>4. Connections' = Connections /\ g \in Connections /\ Connections \in SUBSET Fds
  BY <1>1, <1>2, Receives DEF Connections, Shape
<1>5. /\ conn'[g].unread = conn[g].unread /\ conn'[g].rest = conn[g].rest
      /\ (conn'[g].end = "open") <=> (conn[g].end = "open")
      /\ \A fd \in Fds : fd # g => conn'[fd] = conn[fd]
  BY <1>2 DEF Updated
<1>6. ASSUME NEW fd \in Connections', fd # g
      PROVE  Still(fd)
  <2>1. ~ On(fd) /\ ~ On(fd)' /\ conn'[fd] = conn[fd]
    BY <1>2, <1>4, <1>5, <1>6 DEF On
  <2> QED
    BY <2>1, <1>4, <1>6, StillProperty
<1> DEFINE s == Stream(g)
           t == Coming(g)
<1>7. /\ s \in Seq(Piece) /\ s # << >>
      /\ Shifted(t, s, n) /\ n + Len(t) = Len(s)
      /\ StreamOK(s, Kinds(g), Awaited(g), conn[g].end = "open")
  BY <1>1, <1>2, <1>3, GotProperty
<1>8. s[1][1] = c /\ s[1][2] + (n - 1) = Total(s[1][1])
  BY <1>2, <1>3, CompleteProperty
<1>9. Stream(g)' = t /\ Awaited(g)' = "header" /\ Kinds(g)' = Kinds(g)
  <2>1. Stream(g)' = << >> \o t /\ Awaited(g)' = "header"
    BY <1>5 DEF Stream, Awaited, Coming
  <2>2. << >> \o t = t
    BY <1>1, ComingProperty
  <2> QED
    BY <2>1, <2>2 DEF Kinds
<1> HIDE DEF s, t
<1>10. StreamOK(t, Kinds(g), "header", conn[g].end = "open")
  BY <1>7, <1>8, MessageTaken
<1>11. /\ StreamOK(Stream(g)', Kinds(g)', Awaited(g)', conn'[g].end = "open")
       /\ conn'[g].end # "open" => conn'[g].rest = << >>
  <2>1. conn[g].end # "open" => conn[g].rest = << >>
    BY <1>1, <1>4 DEF Streams
  <2> QED
    BY <2>1, <1>5, <1>9, <1>10
<1>12. CASE c # "init"
  <2>1. ASSUME NEW b \in Int, InitIn(Stream(g)', Awaited(g)', b)
        PROVE  g \in Connections /\ InitIn(Stream(g), Awaited(g), b - n)
    <3>1. InitIn(t, "header", b)
      BY <2>1, <1>9
    <3>2. InitIn(s, Awaited(g), b - n)
      BY <3>1, <1>7, InitMessageTaken
    <3> QED
      BY <3>2, <1>4 DEF s
  <2>2. n \in Int /\ flag_init' = flag_init
    BY <1>12
  <2> QED
    BY <2>1, <2>2, <1>1, <1>6, <1>11, StreamsKept
<1>13. CASE c = "init"
  <2>1. Streams'
    BY <1>1, <1>6, <1>11, StreamsGoOn
  <2>2. ASSUME NEW fd \in Connections', NEW b \in Int
        PROVE  ~ InitIn(Stream(fd)', Awaited(fd)', b)
    <3>1. CASE fd = g
      <4>1. \A x, y \in Int : InitIn(s, Awaited(g), x) /\ InitIn(s, Awaited(g), y) => x = y
        BY <1>1, <1>4 DEF InitOnce, s
      <4>2. ~ InitIn(t, "header", b)
        BY <4>1, <1>7, <1>8, <1>13, InitTaken
      <4> QED
        BY <3>1, <4>2, <1>9
    <3>2. CASE fd # g
      <4>1. Still(fd)
        BY <1>6, <3>2
      <4>2. ~ InitIn(Stream(fd), Awaited(fd), b)
        BY <1>2, <1>13, <3>2, <4>1, InitIsFirst DEF Still
      <4> QED
        BY <4>1, <4>2 DEF Still
    <3> QED
      BY <3>1, <3>2
  <2>3. InitOnce'
    BY <2>2 DEF InitOnce
  <2> QED
    BY <2>1, <2>3
<1> QED
  BY <1>12, <1>13

\* The router goes on after the header of a command with a payload.
LEMMA StreamsPayload ==
  ASSUME LoopInv, PayloadNext
  PROVE  Streams' /\ InitOnce'
<1>1. /\ Shape /\ Reception /\ Streams /\ InitOnce
      /\ task.at = "recv" /\ Got /\ task.part = "header" /\ PayloadSize[Command] > 0
  BY DEF LoopInv, PayloadNext
<1>2. PICK g \in Fds : g = task.fd
  BY <1>1, Receives
<1>3. PICK c \in Commands : c = Command
  BY <1>1, CommandProperty
<1>4. PayloadSize[c] \in Nat \ {0} /\ c # "header"
  BY <1>1, <1>3, TotalProperty
<1>5. /\ task.size = HeaderSize /\ Awaited(g) = "header" /\ HeaderSize \in Nat \ {0}
  BY <1>1, <1>2, CommandProperty, TotalProperty
<1>6. /\ task'.at = "recv" /\ task'.fd = g /\ task'.part = c /\ task'.got = << >>
      /\ conn' = conn /\ flag_init' = flag_init
      /\ control_conn_list' = control_conn_list /\ data_conn_list' = data_conn_list
  <2>1. task' = Receiving(g, c, PayloadSize[c])
    BY <1>2, <1>3 DEF PayloadNext
  <2>2. Begun(task', g, c, PayloadSize[c])
    <3>1. c \in Commands \cup {"header", "packet"}
      OBVIOUS
    <3> QED
      BY <2>1, <3>1, <1>4, ReceivingProperty
  <2> QED
    BY <2>2 DEF Begun, PayloadNext, sockets, lists, arrivals
<1>7. Connections' = Connections /\ g \in Connections
  BY <1>1, <1>2, <1>6, Receives DEF Connections
<1>8. ASSUME NEW fd \in Connections', fd # g
      PROVE  Still(fd)
  <2>1. ~ On(fd) /\ ~ On(fd)'
    BY <1>2, <1>6, <1>8 DEF On
  <2> QED
    BY <2>1, <1>6, <1>7, <1>8, StillProperty
<1> DEFINE s == Stream(g)
           t == Coming(g)
<1>9. /\ s \in Seq(Piece) /\ s # << >> /\ s[1][1] = c
      /\ Shifted(t, s, HeaderSize) /\ HeaderSize + Len(t) = Len(s)
      /\ StreamOK(s, Kinds(g), "header", conn[g].end = "open")
  BY <1>1, <1>2, <1>3, <1>5, GotProperty
<1>10. Stream(g)' = t /\ Awaited(g)' = c /\ Kinds(g)' = Kinds(g)
  <2>1. Stream(g)' = << >> \o t /\ Awaited(g)' = c
    BY <1>6 DEF Stream, Awaited, Coming
  <2>2. << >> \o t = t
    BY <1>1, ComingProperty
  <2> QED
    BY <2>1, <2>2, <1>6 DEF Kinds
<1> HIDE DEF s, t
<1>11. StreamOK(t, Kinds(g), c, conn[g].end = "open")
  <2>1. s[1][1] \in Commands /\ PayloadSize[s[1][1]] > 0
    BY <1>4, <1>9
  <2>2. StreamOK(t, Kinds(g), s[1][1], conn[g].end = "open")
    BY <2>1, <1>9, HeaderTaken
  <2> QED
    BY <2>2, <1>9
<1>12. /\ StreamOK(Stream(g)', Kinds(g)', Awaited(g)', conn'[g].end = "open")
       /\ conn'[g].end # "open" => conn'[g].rest = << >>
  <2>1. conn[g].end # "open" => conn[g].rest = << >>
    BY <1>1, <1>7 DEF Streams
  <2> QED
    BY <2>1, <1>6, <1>10, <1>11
<1>13. ASSUME NEW b \in Int, InitIn(Stream(g)', Awaited(g)', b)
       PROVE  g \in Connections /\ InitIn(Stream(g), Awaited(g), b - HeaderSize)
  <2>1. InitIn(t, s[1][1], b)
    BY <1>9, <1>10, <1>13
  <2>2. InitIn(s, "header", b - HeaderSize)
    BY <2>1, <1>9, InitHeaderTaken
  <2> QED
    BY <2>2, <1>5, <1>7 DEF s
<1>14. HeaderSize \in Int
  BY <1>5
<1> QED
  BY <1>1, <1>6, <1>8, <1>12, <1>13, <1>14, StreamsKept

\* A piece moved from what is still to be sent to what is unread changes nothing.
LEMMA OnePieceOn ==
  ASSUME NEW u \in Seq(Piece), NEW z \in Seq(Piece), z # << >>
  PROVE  Append(u, Head(z)) \o Tail(z) = u \o z
<1> DEFINE h == Head(z)
           t == Tail(z)
           o == << h >>
           v == Append(u, h)
<1>1. h \in Piece /\ t \in Seq(Piece) /\ Len(t) = Len(z) - 1
      /\ \A i \in 1 .. Len(t) : t[i] = z[i + 1]
  BY HeadTailProperties
<1>2. h = z[1]
  BY DEF Head
<1>3. v \in Seq(Piece) /\ Len(v) = Len(u) + 1 /\ v[Len(u) + 1] = h
      /\ \A i \in 1 .. Len(u) : v[i] = u[i]
  BY <1>1, AppendProperties
<1> HIDE DEF h, t, v
<1>4. Len(u) \in Nat /\ Len(z) \in Nat /\ Len(t) \in Nat
  BY <1>1
<1>5. /\ v \o t \in Seq(Piece) /\ Len(v \o t) = Len(v) + Len(t)
      /\ \A i \in 1 .. Len(v) + Len(t) : (v \o t)[i] = IF i <= Len(v) THEN v[i] ELSE t[i - Len(v)]
  BY <1>1, <1>3, ConcatProperties
<1>6. /\ u \o z \in Seq(Piece) /\ Len(u \o z) = Len(u) + Len(z)
      /\ \A i \in 1 .. Len(u) + Len(z) : (u \o z)[i] = IF i <= Len(u) THEN u[i] ELSE z[i - Len(u)]
  BY ConcatProperties
<1> DEFINE x == v \o t
           y == u \o z
<1> HIDE DEF x, y
<1>7. Len(x) = Len(y) /\ Len(x) = Len(u) + Len(z)
  BY <1>1, <1>3, <1>4, <1>5, <1>6 DEF x, y
<1>8. ASSUME NEW i \in 1 .. Len(x)
      PROVE  x[i] = y[i]
  <2>1. /\ i \in 1 .. Len(v) + Len(t) /\ i \in 1 .. Len(u) + Len(z)
        /\ x[i] = IF i <= Len(v) THEN v[i] ELSE t[i - Len(v)]
        /\ y[i] = IF i <= Len(u) THEN u[i] ELSE z[i - Len(u)]
    BY <1>1, <1>3, <1>4, <1>5, <1>6, <1>7 DEF x, y
  <2>2. CASE i <= Len(u)
    <3>1. i \in 1 .. Len(u) /\ i <= Len(v)
      BY <2>2, <1>3, <1>4
    <3> QED
      BY <2>1, <2>2, <3>1, <1>3
  <2>3. CASE i = Len(u) + 1
    BY <2>1, <2>3, <1>2, <1>3, <1>4
  <2>4. CASE i > Len(u) + 1
    <3>1. i - Len(v) \in 1 .. Len(t) /\ (i - Len(v)) + 1 = i - Len(u)
      BY <2>1, <2>4, <1>1, <1>3, <1>4, <1>7
    <3>2. ~ (i <= Len(v)) /\ ~ (i <= Len(u))
      BY <2>4, <1>3, <1>4
    <3> QED
      BY <2>1, <3>1, <3>2, <1>1
  <2> QED
    BY <2>2, <2>3, <2>4, <1>4
<1>9. x = y
  <2>1. x \in Seq(Piece) /\ y \in Seq(Piece)
    BY <1>5, <1>6 DEF x, y
  <2> QED
    BY <2>1, <1>7, <1>8, SeqEqual
<1> QED
  BY <1>9 DEF x, y, v, h, t

\* A message begun goes after the stream, whole.
LEMMA BegunStream ==
  ASSUME NEW q \in Seq(Piece), NEW u \in Seq(Piece), NEW c \in Commands \cup {"packet"},
         NEW m, m = Pieces(c, Total(c)), m \in Seq(Piece), m # << >>
  PROVE  Extended(q \o (Append(u, Head(m)) \o Tail(m)), q \o (u \o << >>), c)
<1> DEFINE s == q \o u
           r == s \o m
<1>1. u \o << >> = u
  BY ConcatEmptySeq
<1>2. Append(u, Head(m)) \o Tail(m) = u \o m
  BY OnePieceOn
<1>3. q \o (u \o m) = r
  BY ConcatPieces
<1>4. s \in Seq(Piece)
  BY ConcatProperties
<1>5. Len(m) = Total(c) /\ (\A k \in 1 .. Total(c) : m[k] = <<c, k>>) /\ Total(c) \in Nat
  BY PiecesProperty, TotalProperty
<1> HIDE DEF s
<1>6. /\ r \in Seq(Piece) /\ Len(r) = Len(s) + Len(m)
      /\ \A i \in 1 .. Len(s) + Len(m) : r[i] = IF i <= Len(s) THEN s[i] ELSE m[i - Len(s)]
  BY <1>4, ConcatProperties
<1> HIDE DEF r
<1>7. Len(s) \in Nat
  BY <1>4
<1>8. \A k \in 1 .. Len(s) : r[k] = s[k]
  BY <1>5, <1>6, <1>7
<1>9. ASSUME NEW k \in 1 .. Total(c)
      PROVE  r[Len(s) + k] = <<c, k>>
  <2>1. /\ Len(s) + k \in 1 .. Len(s) + Len(m) /\ ~ (Len(s) + k <= Len(s))
        /\ (Len(s) + k) - Len(s) = k
    BY <1>5, <1>7
  <2> QED
    BY <2>1, <1>5, <1>6
<1>10. Extended(r, s, c)
  BY <1>4, <1>5, <1>6, <1>8, <1>9 DEF Extended
<1>11. q \o (Append(u, Head(m)) \o Tail(m)) = r /\ q \o (u \o << >>) = s
  BY <1>1, <1>2, <1>3 DEF s
<1> QED
  BY <1>10, <1>11

\* What is not sent any more is the end of the stream.
LEMMA EndedStream ==
  ASSUME NEW q \in Seq(Piece), NEW u \in Seq(Piece), NEW z \in Seq(Piece)
  PROVE  Shifted(q \o (u \o << >>), q \o (u \o z), 0)
<1> DEFINE t == q \o u
           s == t \o z
<1>1. u \o << >> = u /\ q \o (u \o z) = s
  BY ConcatEmptySeq, ConcatPieces
<1>2. t \in Seq(Piece)
  BY ConcatProperties
<1>3. q \o (u \o << >>) = t
  BY <1>1
<1> HIDE DEF t
<1>4. /\ s \in Seq(Piece) /\ Len(s) = Len(t) + Len(z)
      /\ \A i \in 1 .. Len(t) + Len(z) : s[i] = IF i <= Len(t) THEN t[i] ELSE z[i - Len(t)]
  BY <1>2, ConcatProperties
<1> HIDE DEF s
<1>5. Len(t) \in Nat /\ Len(z) \in Nat
  BY <1>2
<1>6. \A k \in 1 .. Len(t) : t[k] = s[0 + k]
  BY <1>4, <1>5
<1>7. Shifted(t, s, 0)
  BY <1>2, <1>4, <1>5, <1>6 DEF Shifted
<1> QED
  BY <1>1, <1>3, <1>7

\* A piece of a stream has been received, is unread, or is still to be sent.
LEMMA PartsProperty ==
  ASSUME NEW q \in Seq(Piece), NEW u \in Seq(Piece), NEW z \in Seq(Piece)
  PROVE  LET s == q \o (u \o z)
         IN  \A k \in 1 .. Len(s) :
               \/ \E i \in 1 .. Len(q) : q[i] = s[k]
               \/ \E i \in 1 .. Len(u) : u[i] = s[k]
               \/ \E i \in 1 .. Len(z) : z[i] = s[k]
<1> DEFINE t == u \o z
           s == q \o t
<1>1. /\ t \in Seq(Piece) /\ Len(t) = Len(u) + Len(z)
      /\ \A i \in 1 .. Len(u) + Len(z) : t[i] = IF i <= Len(u) THEN u[i] ELSE z[i - Len(u)]
  BY ConcatProperties
<1> HIDE DEF t
<1>2. t \in Seq(Piece)
  BY <1>1
<1>3. /\ s \in Seq(Piece) /\ Len(s) = Len(q) + Len(t)
      /\ \A i \in 1 .. Len(q) + Len(t) : s[i] = IF i <= Len(q) THEN q[i] ELSE t[i - Len(q)]
  BY <1>2, ConcatProperties
<1>4. Len(q) \in Nat /\ Len(t) \in Nat /\ Len(u) \in Nat /\ Len(z) \in Nat
  BY <1>2
<1> HIDE DEF s
<1>5. ASSUME NEW k \in 1 .. Len(s)
      PROVE  \/ \E i \in 1 .. Len(q) : q[i] = s[k]
             \/ \E i \in 1 .. Len(u) : u[i] = s[k]
             \/ \E i \in 1 .. Len(z) : z[i] = s[k]
  <2>1. CASE k <= Len(q)
    <3>1. k \in 1 .. Len(q) /\ q[k] = s[k]
      BY <1>3, <1>4, <2>1
    <3> QED
      BY <3>1
  <2>2. CASE ~ (k <= Len(q))
    <3> DEFINE i == k - Len(q)
    <3>1. i \in 1 .. Len(u) + Len(z) /\ s[k] = t[i]
      BY <1>1, <1>3, <1>4, <2>2
    <3> HIDE DEF i
    <3>2. CASE i <= Len(u)
      <4>1. i \in 1 .. Len(u) /\ u[i] = s[k]
        BY <1>1, <1>4, <3>1, <3>2
      <4> QED
        BY <4>1
    <3>3. CASE ~ (i <= Len(u))
      <4>1. i - Len(u) \in 1 .. Len(z)
        BY <1>4, <3>1, <3>3
      <4>2. z[i - Len(u)] = s[k]
        BY <1>1, <3>1, <3>3
      <4> QED
        BY <4>1, <4>2
    <3> QED
      BY <3>2, <3>3
  <2> QED
    BY <2>1, <2>2
<1> QED
  BY <1>5 DEF s, t

\* What the router has received for one call is of one message.
LEMMA OneMessage ==
  ASSUME LoopInv, task.at = "recv", NEW k \in 1 .. Len(task.got)
  PROVE  task.got # << >> /\ task.got[k][1] = Command
<1> DEFINE s == Stream(task.fd)
           n == Len(task.got)
<1>1. /\ Shape /\ Reception /\ Streams /\ Registered
      /\ "header" # "packet" /\ "header" \notin Commands /\ "packet" \notin Commands
  BY SizeAssumption DEF LoopInv
<1>2. /\ n \in Nat /\ n <= task.size /\ task.size \in Nat /\ task.got \in Seq(Piece)
      /\ task.fd \in Connections
  BY <1>1, Receives
<1>3. task.got # << >> /\ 1 \in 1 .. n
  BY <1>2, EmptySeq
<1>4. /\ s \in Seq(Piece)
      /\ n + Len(Coming(task.fd)) = Len(s)
      /\ \A i \in 1 .. n : s[i] = task.got[i]
      /\ Awaited(task.fd) = IF task.part \in Commands THEN task.part ELSE "header"
  BY <1>1, StreamOn
<1>5. StreamOK(s, Kinds(task.fd), Awaited(task.fd), conn[task.fd].end = "open")
  BY <1>1, <1>2 DEF Streams
<1> HIDE DEF s
<1>6. n \in 1 .. Len(s) /\ 1 \in 1 .. Len(s) /\ s # << >>
  <2> DEFINE l == Len(Coming(task.fd))
  <2>1. l \in Nat
    <3>1. Coming(task.fd) \in Seq(Piece)
      BY <1>1, <1>2, ComingProperty DEF Shape, Connections
    <3> QED
      BY <3>1
  <2> HIDE DEF l, n
  <2>2. n \in 1 .. Len(s) /\ 1 \in 1 .. Len(s)
    <3>1. n + l = Len(s)
      BY <1>4 DEF l, n
    <3> QED
      BY <3>1, <2>1, <1>2, <1>3
  <2> QED
    BY <2>2, <1>4, EmptySeq DEF n
<1>7. Flow(s) /\ s[1][1] \in Kinds(task.fd) /\ s[1] = task.got[1]
  BY <1>3, <1>4, <1>5, <1>6 DEF StreamOK
<1>8. s[1][2] + (n - 1) <= Total(s[1][1])
  <2>1. CASE task.part = "header"
    <3>1. task.fd \in control_conn_list /\ task.size = HeaderSize
      BY <2>1, <1>1, Receives
    <3>2. s[1][1] \in Commands
      BY <1>1, <1>7, <3>1 DEF Registered, Kinds
    <3>3. s[1][2] = 1
      BY <2>1, <1>1, <1>4, <1>5, <1>6 DEF StreamOK
    <3>4. /\ Total(s[1][1]) = HeaderSize + PayloadSize[s[1][1]] /\ HeaderSize \in Nat
          /\ PayloadSize[s[1][1]] \in Nat
      BY <3>2, TotalProperty
    <3> QED
      BY <3>1, <3>3, <3>4, <1>2
  <2>2. CASE task.part = "packet"
    <3>1. task.fd \in data_conn_list /\ task.size = PacketSize
      BY <2>2, <1>1, Receives
    <3>2. s[1][1] = "packet"
      BY <1>7, <3>1 DEF Kinds
    <3>3. s[1][2] = 1
      BY <2>2, <1>1, <1>4, <1>5, <1>6 DEF StreamOK
    <3>4. Total(s[1][1]) = PacketSize
      BY <3>2, TotalProperty
    <3> QED
      BY <3>1, <3>3, <3>4, <1>2
  <2>3. CASE task.part \in Commands
    <3>1. task.size = PayloadSize[task.part]
      BY <2>3, <1>1, Receives
    <3>2. s[1] = <<task.part, HeaderSize + 1>>
      BY <2>3, <1>1, <1>4, <1>5, <1>6 DEF StreamOK
    <3>3. /\ Total(task.part) = HeaderSize + PayloadSize[task.part] /\ HeaderSize \in Nat
          /\ PayloadSize[task.part] \in Nat
      BY <2>3, TotalProperty
    <3>4. s[1][1] = task.part /\ s[1][2] = HeaderSize + 1
      BY <3>2
    <3>5. n <= PayloadSize[task.part] /\ n \in Nat
      BY <3>1, <1>2
    <3> HIDE DEF n
    <3> QED
      BY <3>3, <3>4, <3>5
  <2>4. task.part = "header" \/ task.part = "packet" \/ task.part \in Commands
    BY <1>1, Receives
  <2> QED
    BY <2>1, <2>2, <2>3, <2>4
<1>9. s[k] = <<s[1][1], s[1][2] + (k - 1)>>
  BY <1>4, <1>6, <1>7, <1>8, FirstPieces
<1>10. s[k] = task.got[k]
  BY <1>4
<1>11. Command = s[1][1]
  BY <1>7 DEF Command
<1> QED
  BY <1>3, <1>9, <1>10, <1>11

\* INIT is nowhere if it has not been sent.
LEMMA NotSent ==
  ASSUME LoopInv, ~ InitSent, NEW fd \in Connections, NEW b \in Int
  PROVE  flag_init = 0 /\ ~ InitIn(Stream(fd), Awaited(fd), b)
<1>1. Shape /\ Reception /\ Streams /\ flag_init \in {0, 1} /\ fd \in Fds
  BY DEF LoopInv, Shape, Connections
<1>2. flag_init = 0
  BY <1>1 DEF InitSent
<1>3. SUFFICES ASSUME InitIn(Stream(fd), Awaited(fd), b)
               PROVE  FALSE
  BY <1>2
<1>4. CASE Awaited(fd) = "init"
  <2>1. "init" # "header"
    OBVIOUS
  <2> QED
    BY <2>1, <1>4 DEF Awaited, InitSent
<1>5. ASSUME NEW k \in 1 .. Len(Stream(fd)), Stream(fd)[k] = <<"init", b + k>>
      PROVE  FALSE
  <2> DEFINE q == IF On(fd) THEN task.got ELSE << >>
             u == conn[fd].unread
             z == conn[fd].rest
             p == Stream(fd)[k]
  <2>1. u \in Seq(Piece) /\ z \in Seq(Piece)
    BY <1>1, ConnProperty
  <2>2. q \in Seq(Piece)
    BY <1>1, Receives, EmptySeq DEF On
  <2>3. Stream(fd) = q \o (u \o z)
    BY DEF Stream, On
  <2>4. p[1] = "init" /\ p \in {<<"init", j>> : j \in 1 .. HeaderSize + PayloadSize["init"]}
    <3>1. Flow(Stream(fd))
      BY <1>1 DEF Streams, StreamOK
    <3>2. Total("init") = HeaderSize + PayloadSize["init"]
      BY TotalProperty, SizeAssumption
    <3>3. p[2] \in 1 .. Total(p[1])
      BY <3>1 DEF Flow
    <3>4. p = <<"init", b + k>> /\ p[1] = "init" /\ p[2] = b + k
      BY <1>5
    <3> HIDE DEF p
    <3>5. b + k \in 1 .. HeaderSize + PayloadSize["init"]
      BY <3>2, <3>3, <3>4
    <3> QED
      BY <3>4, <3>5
  <2> HIDE DEF p, q, u, z
  <2>5. \/ \E i \in 1 .. Len(q) : q[i] = p
        \/ \E i \in 1 .. Len(u) : u[i] = p
        \/ \E i \in 1 .. Len(z) : z[i] = p
    <3> DEFINE s == q \o (u \o z)
    <3>1. \A j \in 1 .. Len(s) :
            \/ \E i \in 1 .. Len(q) : q[i] = s[j]
            \/ \E i \in 1 .. Len(u) : u[i] = s[j]
            \/ \E i \in 1 .. Len(z) : z[i] = s[j]
      BY <2>1, <2>2, PartsProperty
    <3>2. k \in 1 .. Len(s) /\ p = s[k]
      BY <1>5, <2>3 DEF p
    <3> HIDE DEF s
    <3> QED
      BY <3>1, <3>2
  <2>6. ASSUME NEW s \in {u, z}, NEW i \in 1 .. Len(s), s[i] = p
        PROVE  FALSE
    <3>1. i \in DOMAIN s
      BY <2>1, <2>6
    <3>2. p \in {s[j] : j \in DOMAIN s}
      BY <3>1, <2>6
    <3> QED
      BY <2>4, <3>2 DEF InitSent, u, z
  <2>7. ASSUME NEW i \in 1 .. Len(q), q[i] = p
        PROVE  FALSE
    <3>1. On(fd) /\ q = task.got
      BY <2>2, EmptySeq DEF q
    <3>2. task.at = "recv" /\ i \in 1 .. Len(task.got)
      BY <3>1 DEF On
    <3>3. task.got # << >> /\ task.got[i][1] = Command
      BY <3>2, OneMessage
    <3>4. Command = "init"
      BY <3>1, <3>3, <2>4, <2>7
    <3> QED
      BY <3>2, <3>3, <3>4 DEF InitSent
  <2> QED
    BY <2>5, <2>6, <2>7
<1> QED
  BY <1>3, <1>4, <1>5 DEF InitIn

\* What a peer's step leaves: the other connections, and what of fd has been received.
LEMMA PeerProperty ==
  ASSUME LoopInv, NEW g \in Connections, NEW r, Updated(g, r),
         UNCHANGED <<flag_init, lists, task>>
  PROVE  /\ flag_init' = flag_init /\ Connections' = Connections
         /\ \A fd \in Connections' : fd # g => Still(fd)
         /\ Awaited(g)' = Awaited(g) /\ Kinds(g)' = Kinds(g)
         /\ conn'[g] = r
         /\ conn[g].unread \in Seq(Piece) /\ conn[g].rest \in Seq(Piece)
         /\ conn[g].end # "open" => conn[g].rest = << >>
         /\ StreamOK(Stream(g), Kinds(g), Awaited(g), conn[g].end = "open")
         /\ \E q \in Seq(Piece) :
              /\ Stream(g) = q \o (conn[g].unread \o conn[g].rest)
              /\ Stream(g)' = q \o (r.unread \o r.rest)
<1> USE DEF lists
<1>1. Shape /\ Reception /\ Streams /\ g \in Fds
  BY DEF LoopInv, Shape, Connections
<1>2. flag_init' = flag_init /\ Connections' = Connections
  BY DEF Connections
<1>3. conn'[g] = r /\ \A fd \in Fds : fd # g => conn'[fd] = conn[fd]
  BY <1>1 DEF Updated
<1>4. ASSUME NEW fd \in Connections', fd # g
      PROVE  Still(fd)
  <2>1. fd \in Connections /\ conn'[fd] = conn[fd] /\ task' = task
    BY <1>1, <1>2, <1>3, <1>4 DEF Shape, Connections
  <2>2. fd \in data_conn_list' <=> fd \in data_conn_list
    OBVIOUS
  <2> QED
    BY <2>1, <2>2, StillProperty
<1>5. Awaited(g)' = Awaited(g) /\ Kinds(g)' = Kinds(g)
  BY DEF Awaited, Kinds
<1>6. conn[g].unread \in Seq(Piece) /\ conn[g].rest \in Seq(Piece)
  BY <1>1, ConnProperty
<1>7. /\ conn[g].end # "open" => conn[g].rest = << >>
      /\ StreamOK(Stream(g), Kinds(g), Awaited(g), conn[g].end = "open")
  BY <1>1 DEF Streams
<1>8. PICK q \in Seq(Piece) : q = IF task.at = "recv" /\ task.fd = g THEN task.got ELSE << >>
  BY <1>1, Receives, EmptySeq
<1>9. /\ Stream(g) = q \o (conn[g].unread \o conn[g].rest)
      /\ Stream(g)' = q \o (r.unread \o r.rest)
  BY <1>3, <1>8 DEF Stream
<1> QED
  BY <1>2, <1>3, <1>4, <1>5, <1>6, <1>7, <1>9

\* A peer that goes on with its message moves a piece within the stream.
LEMMA StreamsContinue ==
  ASSUME LoopInv, NEW g \in Fds, Continue(g)
  PROVE  Streams' /\ InitOnce'
<1> DEFINE u == conn[g].unread
           z == conn[g].rest
           r == [unread |-> Append(u, Head(z)), rest |-> Tail(z), end |-> conn[g].end]
<1>1. Updated(g, r)
  BY ContinueEffect DEF LoopInv
<1>2. /\ g \in Connections /\ z # << >> /\ Streams /\ InitOnce
      /\ UNCHANGED <<flag_init, lists, task>>
  BY DEF Continue, LoopInv, sockets
<1>3. r.unread = Append(u, Head(z)) /\ r.rest = Tail(z) /\ r.end = conn[g].end
  OBVIOUS
<1> HIDE DEF r
<1>4. PICK q \in Seq(Piece) :
        /\ Stream(g) = q \o (u \o z)
        /\ Stream(g)' = q \o (r.unread \o r.rest)
  BY <1>1, <1>2, PeerProperty
<1>5. Stream(g)' = Stream(g)
  <2>1. u \in Seq(Piece) /\ z \in Seq(Piece)
    BY <1>1, <1>2, PeerProperty
  <2> HIDE DEF u, z
  <2>2. Append(u, Head(z)) \o Tail(z) = u \o z
    BY <2>1, <1>2, OnePieceOn
  <2> QED
    BY <2>2, <1>3, <1>4
<1>6. /\ flag_init' = flag_init
      /\ \A fd \in Connections' : fd # g => Still(fd)
      /\ Awaited(g)' = Awaited(g) /\ Kinds(g)' = Kinds(g) /\ conn'[g] = r
      /\ conn[g].end # "open" => z = << >>
      /\ StreamOK(Stream(g), Kinds(g), Awaited(g), conn[g].end = "open")
  BY <1>1, <1>2, PeerProperty
<1>7. /\ StreamOK(Stream(g)', Kinds(g)', Awaited(g)', conn'[g].end = "open")
      /\ conn'[g].end # "open" => conn'[g].rest = << >>
  BY <1>2, <1>3, <1>5, <1>6
<1>8. PICK d \in Int : d = 0
  OBVIOUS
<1>9. ASSUME NEW b \in Int, InitIn(Stream(g)', Awaited(g)', b)
      PROVE  g \in Connections /\ InitIn(Stream(g), Awaited(g), b - d)
  <2>1. InitIn(Stream(g), Awaited(g), b)
    BY <1>5, <1>6, <1>9
  <2>2. b - d = b
    BY <1>8
  <2> QED
    BY <2>1, <2>2, <1>2
<1> QED
  BY <1>2, <1>6, <1>7, <1>9, StreamsKept

\* A connection that ends loses what was not sent.
LEMMA StreamsEnd ==
  ASSUME LoopInv, NEW g \in Fds, NEW how \in {"fin", "rst"}, End(g, how)
  PROVE  Streams' /\ InitOnce'
<1> DEFINE u == conn[g].unread
           z == conn[g].rest
           r == [unread |-> u, rest |-> << >>, end |-> how]
<1>1. Updated(g, r)
  BY EndEffect DEF LoopInv
<1>2. /\ g \in Connections /\ Streams /\ InitOnce
      /\ UNCHANGED <<flag_init, lists, task>>
  BY DEF End, LoopInv, sockets
<1>3. r.unread = u /\ r.rest = << >> /\ r.end # "open"
  OBVIOUS
<1> HIDE DEF r
<1>4. PICK q \in Seq(Piece) :
        /\ Stream(g) = q \o (u \o z)
        /\ Stream(g)' = q \o (r.unread \o r.rest)
  BY <1>1, <1>2, PeerProperty
<1>5. Shifted(Stream(g)', Stream(g), 0)
  <2>1. u \in Seq(Piece) /\ z \in Seq(Piece)
    BY <1>1, <1>2, PeerProperty
  <2> HIDE DEF u, z
  <2>2. Shifted(q \o (u \o << >>), q \o (u \o z), 0)
    BY <2>1, EndedStream
  <2>3. Stream(g)' = q \o (u \o << >>)
    BY <1>3, <1>4
  <2> QED
    BY <2>2, <2>3, <1>4
<1>6. /\ flag_init' = flag_init
      /\ \A fd \in Connections' : fd # g => Still(fd)
      /\ Awaited(g)' = Awaited(g) /\ Kinds(g)' = Kinds(g) /\ conn'[g] = r
      /\ StreamOK(Stream(g), Kinds(g), Awaited(g), conn[g].end = "open")
  BY <1>1, <1>2, PeerProperty
<1>7. /\ StreamOK(Stream(g)', Kinds(g)', Awaited(g)', conn'[g].end = "open")
      /\ conn'[g].end # "open" => conn'[g].rest = << >>
  <2>1. StreamOK(Stream(g)', Kinds(g), Awaited(g), FALSE)
    BY <1>5, <1>6, StreamPrefix
  <2>2. (conn'[g].end = "open") = FALSE
    BY <1>3, <1>6
  <2> QED
    BY <2>1, <2>2, <1>3, <1>6
<1>8. PICK d \in Int : d = 0
  OBVIOUS
<1>9. ASSUME NEW b \in Int, InitIn(Stream(g)', Awaited(g)', b)
      PROVE  g \in Connections /\ InitIn(Stream(g), Awaited(g), b - d)
  <2>1. InitIn(Stream(g), Awaited(g), b)
    BY <1>5, <1>6, <1>9, InitPrefix
  <2>2. b - d = b
    BY <1>8
  <2> QED
    BY <2>1, <2>2, <1>2
<1> QED
  BY <1>2, <1>6, <1>7, <1>9, StreamsKept

\* A peer that begins a message; INIT it begins only if there has been none.
LEMMA StreamsBegin ==
  ASSUME LoopInv, NEW g \in Fds, Begin(g)
  PROVE  Streams' /\ InitOnce'
<1>0. PICK c \in Kinds(g) :
         LET m == Pieces(c, Total(c))
         IN  /\ c \in Commands \cup {"packet"}
             /\ c = "init" => ~ InitSent
             /\ m \in Seq(Piece) /\ m # << >>
             /\ Updated(g, [unread |-> Append(conn[g].unread, Head(m)),
                            rest |-> Tail(m), end |-> conn[g].end])
  BY BeginEffect DEF LoopInv
<1> DEFINE m == Pieces(c, Total(c))
           u == conn[g].unread
           r == [unread |-> Append(u, Head(m)), rest |-> Tail(m), end |-> conn[g].end]
<1>1. /\ c \in Commands \cup {"packet"}
      /\ c = "init" => ~ InitSent
      /\ m \in Seq(Piece) /\ m # << >> /\ Updated(g, r)
  BY <1>0
<1>2. /\ g \in Connections /\ conn[g].rest = << >> /\ conn[g].end = "open"
      /\ Streams /\ InitOnce
      /\ UNCHANGED <<flag_init, lists, task>>
  BY DEF Begin, LoopInv, sockets
<1>3. r.unread = Append(u, Head(m)) /\ r.rest = Tail(m) /\ r.end = "open"
  BY <1>2
<1> HIDE DEF r
<1>4. PICK q \in Seq(Piece) :
        /\ Stream(g) = q \o (u \o conn[g].rest)
        /\ Stream(g)' = q \o (r.unread \o r.rest)
  BY <1>1, <1>2, PeerProperty
<1>5. Extended(Stream(g)', Stream(g), c)
  <2>1. u \in Seq(Piece)
    BY <1>1, <1>2, PeerProperty
  <2> HIDE DEF u
  <2>2. Extended(q \o (Append(u, Head(m)) \o Tail(m)), q \o (u \o << >>), c)
    BY <2>1, <1>1, BegunStream
  <2>3. /\ Stream(g) = q \o (u \o << >>)
        /\ Stream(g)' = q \o (Append(u, Head(m)) \o Tail(m))
    BY <1>2, <1>3, <1>4
  <2> QED
    BY <2>2, <2>3
<1>6. /\ flag_init' = flag_init /\ Connections' = Connections
      /\ \A fd \in Connections' : fd # g => Still(fd)
      /\ Awaited(g)' = Awaited(g) /\ Kinds(g)' = Kinds(g) /\ conn'[g] = r
      /\ StreamOK(Stream(g), Kinds(g), Awaited(g), conn[g].end = "open")
  BY <1>1, <1>2, PeerProperty
<1>7. /\ StreamOK(Stream(g)', Kinds(g)', Awaited(g)', conn'[g].end = "open")
      /\ conn'[g].end # "open" => conn'[g].rest = << >>
  <2>1. (conn[g].end = "open") = TRUE /\ (conn'[g].end = "open") = TRUE
    BY <1>2, <1>3, <1>6
  <2>2. StreamOK(Stream(g), Kinds(g), Awaited(g), TRUE)
    BY <1>6, <2>1
  <2>3. StreamOK(Stream(g)', Kinds(g), Awaited(g), TRUE)
    BY <2>2, <1>1, <1>5, StreamExtended
  <2> QED
    BY <2>1, <2>3, <1>3, <1>6
<1>8. CASE c # "init"
  <2>1. PICK d \in Int : d = 0
    OBVIOUS
  <2>2. ASSUME NEW b \in Int, InitIn(Stream(g)', Awaited(g)', b)
        PROVE  g \in Connections /\ InitIn(Stream(g), Awaited(g), b - d)
    <3>1. InitIn(Stream(g), Awaited(g), b)
      BY <2>2, <1>5, <1>6, <1>8, InitExtended
    <3>2. b - d = b
      BY <2>1
    <3> QED
      BY <3>1, <3>2, <1>2
  <2> QED
    BY <2>2, <1>2, <1>6, <1>7, StreamsKept
<1>9. CASE c = "init"
  <2>1. Streams'
    BY <1>2, <1>6, <1>7, StreamsGoOn
  <2>2. flag_init = 0
        /\ \A fd \in Connections : \A b \in Int : ~ InitIn(Stream(fd), Awaited(fd), b)
    <3>1. ~ InitSent
      BY <1>1, <1>9
    <3>2. ASSUME NEW fd \in Connections, NEW b \in Int
          PROVE  flag_init = 0 /\ ~ InitIn(Stream(fd), Awaited(fd), b)
      BY <3>1, NotSent
    <3>3. g \in Connections /\ 0 \in Int
      BY <1>2
    <3> QED
      BY <3>2, <3>3
  <2>3. ASSUME NEW fd \in Connections', NEW b \in Int, InitIn(Stream(fd)', Awaited(fd)', b)
        PROVE  fd = g /\ b = 0 - Len(Stream(g))
    <3>1. CASE fd = g
      <4>1. \/ InitIn(Stream(g), Awaited(g), b)
            \/ c = "init" /\ b = 0 - Len(Stream(g))
        BY <2>3, <3>1, <1>5, <1>6, InitExtended
      <4> QED
        BY <4>1, <3>1, <2>2, <1>2
    <3>2. CASE fd # g
      BY <3>2, <2>2, <2>3, <1>6 DEF Still
    <3> QED
      BY <3>1, <3>2
  <2>4. InitOnce'
    <3>1. flag_init' = 0
      BY <2>2, <1>6
    <3> QED
      BY <3>1, <2>3 DEF InitOnce
  <2> QED
    BY <2>1, <2>4
<1> QED
  BY <1>8, <1>9

\* The steps of the commands, and of a packet.
LEMMA StreamsMessage ==
  ASSUME LoopInv,
         \/ InitResponse \/ CrashResponse \/ OtherResponse
         \/ SendfileResponse \/ DataRecvHook
  PROVE  Streams' /\ InitOnce'
<1> USE DEF sockets, lists, arrivals
<1>0. /\ Shape /\ Reception /\ task.at = "recv"
      /\ control_conn_list' = control_conn_list /\ data_conn_list' = data_conn_list
  BY DEF LoopInv, InitResponse, CrashResponse, OtherResponse, SendfileResponse, DataRecvHook,
         Complete
<1>1. task.fd \in Fds
  BY <1>0, Receives
<1>2. /\ {"init", "crash", "sendfile"} \subseteq Commands /\ "packet" \notin Commands
      /\ "packet" # "init" /\ "crash" # "init" /\ "sendfile" # "init"
  BY SizeAssumption
<1>3. CASE CrashResponse \/ SendfileResponse \/ DataRecvHook
  <2>1. PICK c \in {"crash", "sendfile", "packet"} : Complete(c)
    BY <1>3 DEF CrashResponse, SendfileResponse, DataRecvHook
  <2>2. c \in Commands \cup {"packet"} /\ c # "init"
    BY <1>2
  <2>3. task'.at # "recv" /\ flag_init' = flag_init /\ conn' = conn
    <3>1. flag_init' = flag_init /\ conn' = conn
      BY <1>3 DEF CrashResponse, SendfileResponse, DataRecvHook
    <3>2. CASE CrashResponse
      BY <3>1, <3>2 DEF CrashResponse
    <3>3. CASE SendfileResponse \/ DataRecvHook
      BY <3>1, <3>3, <1>0, SendingProperty DEF SendfileResponse, DataRecvHook
    <3> QED
      BY <3>2, <3>3, <1>3
  <2>4. conn[task.fd].end \in {"open", "fin", "rst"}
    BY <1>0, <1>1, ConnProperty
  <2>5. Updated(task.fd, [unread |-> conn[task.fd].unread, rest |-> conn[task.fd].rest,
                          end |-> conn[task.fd].end])
    <3>1. conn[task.fd] = [unread |-> conn[task.fd].unread, rest |-> conn[task.fd].rest,
                           end |-> conn[task.fd].end]
      BY <1>0, <1>1, ConnProperty
    <3>2. conn \in [Fds -> Connection]
      BY <1>0 DEF Shape
    <3> QED
      BY <3>1, <3>2, <2>3 DEF Updated
  <2> QED
    BY <2>1, <2>2, <2>3, <2>4, <2>5, <1>0, StreamsAfter
<1>4. CASE InitResponse \/ OtherResponse
  <2>1. PICK c \in Commands : /\ Complete(c)
                              /\ flag_init' = IF c = "init" THEN 1 ELSE flag_init
    BY <1>2, <1>4 DEF InitResponse, OtherResponse
  <2>2. Reply
    BY <1>4 DEF InitResponse, OtherResponse
  <2>3. PICK e \in {"open", "fin", "rst"} :
          /\ (e = "open") <=> (conn[task.fd].end = "open")
          /\ Updated(task.fd, [unread |-> conn[task.fd].unread,
                               rest |-> conn[task.fd].rest, end |-> e])
    BY <2>2, <1>0, <1>1, ReplyEffect
  <2>4. task'.at # "recv"
    <3>1. task' \in {Passing, [at |-> "exited"]}
      BY <2>2, <1>0, <1>1, ReplyEffect
    <3> QED
      BY <3>1 DEF Passing
  <2> QED
    BY <2>1, <2>3, <2>4, <1>0, StreamsAfter
<1> QED
  BY <1>3, <1>4

\* The reply to SENDFILE, at its end.
LEMMA StreamsSent ==
  ASSUME LoopInv, Sent
  PROVE  Streams' /\ InitOnce'
<1> USE DEF sockets, lists
<1>1. /\ Shape /\ Reception /\ Streams /\ InitOnce /\ task.at = "send"
      /\ flag_init' = flag_init
      /\ control_conn_list' = control_conn_list /\ data_conn_list' = data_conn_list
  BY DEF LoopInv, Sent
<1>2. PICK g \in Fds : g = task.fd
  BY <1>1 DEF Reception, Selecting, Passing
<1>3. /\ conn'[g].unread = conn[g].unread /\ conn'[g].rest = conn[g].rest
      /\ (conn'[g].end = "open") <=> (conn[g].end = "open")
      /\ \A fd \in Fds : fd # g => conn'[fd] = conn[fd]
      /\ task'.at # "recv"
  <2>1. CASE Reply
    <3>1. PICK e \in {"open", "fin", "rst"} :
            /\ (e = "open") <=> (conn[g].end = "open")
            /\ Updated(g, [unread |-> conn[g].unread, rest |-> conn[g].rest, end |-> e])
      BY <1>1, <1>2, <2>1, ReplyEffect
    <3>2. task' \in {Passing, [at |-> "exited"]}
      BY <1>1, <1>2, <2>1, ReplyEffect
    <3> QED
      BY <3>1, <3>2 DEF Updated, Passing
  <2>2. CASE task' = Passing /\ UNCHANGED conn
    BY <2>2 DEF Passing
  <2> QED
    BY <2>1, <2>2 DEF Sent
<1>4. Connections' = Connections /\ Connections \in SUBSET Fds
  BY <1>1 DEF Connections, Shape
<1>5. ASSUME NEW fd \in Connections', fd # g
      PROVE  Still(fd)
  BY <1>1, <1>3, <1>4, <1>5, StillProperty DEF On
<1>6. Stream(g)' = Stream(g) /\ Awaited(g)' = Awaited(g) /\ Kinds(g)' = Kinds(g)
  BY <1>1, <1>3 DEF Stream, Awaited, Kinds
<1>7. g \in Connections' =>
        /\ StreamOK(Stream(g)', Kinds(g)', Awaited(g)', conn'[g].end = "open")
        /\ conn'[g].end # "open" => conn'[g].rest = << >>
  BY <1>1, <1>3, <1>4, <1>6 DEF Streams
<1>8. PICK d \in Int : d = 0
  OBVIOUS
<1>9. \A b \in Int : g \in Connections' /\ InitIn(Stream(g)', Awaited(g)', b) =>
                       g \in Connections /\ InitIn(Stream(g), Awaited(g), b - d)
  <2>1. \A b \in Int : b - d = b
    BY <1>8
  <2> QED
    BY <2>1, <1>4, <1>6
<1> QED
  BY <1>1, <1>5, <1>7, <1>9, StreamsKept

-----------------------------------------------------------------------------
(* The theorems *)

LEMMA InitInv == Init => LoopInv
<1> SUFFICES ASSUME Init PROVE LoopInv
  OBVIOUS
<1>1. /\ MaxFd \in Nat /\ MaxConns \in Nat /\ NbrCount \in Nat /\ MaxDatagrams \in Nat
      /\ Interval \in Nat
  BY LoopAssumption
<1>2. Connections = {} /\ 0 \in Fds /\ NoFd \notin Fds
  BY <1>1 DEF Init, Connections, Fds, NoFd
<1>3. Quiet \in Connection
  <2> DEFINE n == << >>
  <2>1. n \in Seq(Piece)
    BY EmptySeq
  <2> HIDE DEF n
  <2>2. [unread |-> n, rest |-> n, end |-> "open"] \in Connection
    BY <2>1 DEF Connection
  <2> QED
    BY <2>2 DEF Quiet, n
<1>4. Shape
  <2>1. conn \in [Fds -> Connection]
    BY <1>3 DEF Init
  <2>2. pending \in [{"control", "data"} -> Nat]
    BY DEF Init
  <2>3. /\ datagrams \in 0 .. MaxDatagrams /\ left \in 0 .. Interval /\ until \in 0 .. left
    BY <1>1 DEF Init
  <2> QED
    BY <2>1, <2>2, <2>3, <1>2 DEF Init, Shape, control_socket
<1>5. Sockets
  BY DEF Init, Sockets
<1>6. Registered
  <2>1. {control_socket, data_socket, router_socket} \cap Fds = {control_socket}
    BY <1>2 DEF Init, control_socket
  <2> QED
    BY <2>1, <1>2 DEF Init, Registered, Connections, control_socket
<1>7. StillReady /\ Reception
  BY DEF Init, StillReady, Reception
<1>8. Counted
  <2>1. Cardinality({}) = 0
    BY FS_EmptySet
  <2>2. pending.control = 0 /\ pending.data = 0
    BY DEF Init
  <2> QED
    BY <2>1, <2>2, <1>1, <1>2 DEF Init, Counted
<1>9. Streams /\ InitOnce
  BY <1>2 DEF Streams, InitOnce
<1> QED
  BY <1>4, <1>5, <1>6, <1>7, <1>8, <1>9 DEF LoopInv

\* Each step of the router keeps the descriptors and the lists right ...
LEMMA StructureStep ==
  ASSUME LoopInv, RouterStep \/ Environment
  PROVE  Structure'
<1>0. Structure
  BY DEF LoopInv, Structure
<1>1. ASSUME PayloadNext \/ CrashResponse \/ DataRecvHook
      PROVE  Structure'
  <2>1. PayloadNext => Command \in Commands
    BY CommandProperty DEF PayloadNext
  <2> QED
    BY <1>0, <1>1, <2>1, StructureMessage
<1>2. ASSUME InitResponse
      PROVE  Structure'
  <2>1. flag_init = 0
    BY <1>2, InitIsFirst DEF InitResponse
  <2> QED
    BY <1>0, <1>2, <2>1, StructureInit
<1>3. CASE Environment
  BY <1>0, <1>3, StructureEnvironment
<1>4. CASE RouterStep
  <2>1. ASSUME \/ Select \/ Timeout \/ EndPass \/ RouterRecvHook
               \/ \E i \in Fds : ExistingConnection(i)
        PROVE  Structure'
    BY <1>0, <2>1, StructureLoop
  <2>2. ASSUME NewControlConn \/ NewDataConn
        PROVE  Structure'
    BY <1>0, <2>2, StructureAccept
  <2>3. ASSUME Recv \/ Hang
        PROVE  Structure'
    BY <1>0, <2>3, StructureReceive
  <2>4. ASSUME RemoveConn
        PROVE  Structure'
    BY <1>0, <2>4, StructureRemove
  <2>5. ASSUME OtherResponse \/ SendfileResponse
        PROVE  Structure'
    BY <1>0, <2>5, StructureOther, StructureSendfile
  <2> QED
    BY <1>1, <1>2, <1>4, <2>1, <2>2, <2>3, <2>4, <2>5, Zenon DEF RouterStep
<1> QED
  BY <1>3, <1>4

\* ... and the streams, and INIT in them.
LEMMA StreamsStep ==
  ASSUME LoopInv, RouterStep \/ Environment
  PROVE  Streams' /\ InitOnce'
<1>1. ASSUME \/ Select \/ Timeout \/ EndPass \/ RouterRecvHook
             \/ \E i \in Fds : ExistingConnection(i)
             \/ \E kind \in {"control", "data"} : Connect(kind)
             \/ Datagram \/ Tick \/ BrokenPipe
      PROVE  Streams' /\ InitOnce'
  BY <1>1, StreamsLoop, Zenon
<1>2. ASSUME NewControlConn \/ NewDataConn
      PROVE  Streams' /\ InitOnce'
  BY <1>2, StreamsAccept
<1>3. ASSUME Recv
      PROVE  Streams' /\ InitOnce'
  BY <1>3, StreamsRecv
<1>4. ASSUME RemoveConn
      PROVE  Streams' /\ InitOnce'
  BY <1>4, StreamsRemove
<1>5. ASSUME Hang
      PROVE  Streams' /\ InitOnce'
  BY <1>5, StreamsHang
<1>6. ASSUME PayloadNext
      PROVE  Streams' /\ InitOnce'
  BY <1>6, StreamsPayload
<1>7. ASSUME \/ InitResponse \/ CrashResponse \/ OtherResponse
             \/ SendfileResponse \/ DataRecvHook
      PROVE  Streams' /\ InitOnce'
  BY <1>7, StreamsMessage
<1>8. ASSUME NEW fd \in Fds, Begin(fd) \/ Continue(fd) \/ End(fd, "fin") \/ End(fd, "rst")
      PROVE  Streams' /\ InitOnce'
  BY <1>8, StreamsBegin, StreamsContinue, StreamsEnd
<1>9. ASSUME Sent
      PROVE  Streams' /\ InitOnce'
  BY <1>9, StreamsSent
<1>10. CASE Environment
  BY <1>1, <1>8, <1>9, <1>10, Zenon DEF Environment
<1>11. CASE RouterStep
  BY <1>1, <1>2, <1>3, <1>4, <1>5, <1>6, <1>7, <1>11, Zenon DEF RouterStep
<1> QED
  BY <1>10, <1>11

\* A step that changes nothing.
LEMMA StutterInv ==
  ASSUME LoopInv, UNCHANGED vars
  PROVE  LoopInv'
<1> USE DEF vars, sockets, lists, arrivals, clock
<1>1. Shape' /\ Sockets' /\ Registered' /\ Reception' /\ Counted'
  BY DEF LoopInv, Shape, Sockets, Registered, Reception, Counted, Connections
<1>2. StillReady'
  BY DEF LoopInv, StillReady, Ready, Connections
<1>3. Streams'
  BY DEF LoopInv, Streams, Stream, Awaited, Kinds, Connections
<1>4. InitOnce'
  BY DEF LoopInv, InitOnce, Stream, Awaited, Connections
<1> QED
  BY <1>1, <1>2, <1>3, <1>4 DEF LoopInv

LEMMA StepInv == LoopInv /\ [Next]_vars => LoopInv'
<1>1. ASSUME LoopInv, UNCHANGED vars PROVE LoopInv'
  BY <1>1, StutterInv
<1>2. ASSUME LoopInv, RouterStep \/ Environment PROVE LoopInv'
  BY <1>2, StructureStep, StreamsStep DEF Structure, LoopInv
<1> QED
  BY <1>1, <1>2 DEF Next

\* The inductive invariant holds.
LEMMA SpecInv == Spec => []LoopInv
BY InitInv, StepInv, PTL DEF Spec

\* The type invariant of the loop: among others, select's time-out never ends after
\* the deadline set last, and no more connections wait than the bound allows.
THEOREM TypeCorrect == Spec => []TypeOK
<1>1. ASSUME LoopInv PROVE TypeOK
  <2>1. Shape /\ Registered /\ Reception /\ Counted
    BY <1>1 DEF LoopInv
  <2>2. \A fd \in Fds : conn[fd].end \in {"open", "fin", "rst"}
    BY <2>1, ConnProperty
  <2>3. task.at \in {"select", "pass", "recv", "send", "hung", "exited"}
    BY <2>1 DEF Reception, Selecting, Passing
  <2>4. pending \in [{"control", "data"} -> 0 .. MaxConns]
    <3>1. Cardinality(Connections) \in Nat
      BY <2>1, FdsFinite DEF Shape, Connections
    <3>2. pending \in [{"control", "data"} -> Nat]
      BY <2>1 DEF Shape
    <3>3. pending.control \in Nat /\ pending.data \in Nat
      BY <3>2
    <3>4. pending.control \in 0 .. MaxConns /\ pending.data \in 0 .. MaxConns
      BY <2>1, <3>1, <3>3, LoopAssumption DEF Counted
    <3> QED
      BY <3>2, <3>4
  <2>5. master_list \subseteq Fds
    BY <2>1 DEF Registered, Shape, Connections
  <2> QED
    BY <2>1, <2>2, <2>3, <2>4, <2>5 DEF TypeOK, Shape
<1> QED
  BY <1>1, SpecInv, PTL

\* main_loop never reaches "Unknown socket": a descriptor that is watched is a
\* listening socket, a control connection or a data connection, and only one of these,
\* however the numbers of closed ones come back.
THEOREM AlwaysRegistered == Spec => []Registered
<1>1. LoopInv => Registered
  BY DEF LoopInv
<1> QED
  BY <1>1, SpecInv, PTL

\* A descriptor select has returned stays ready until the pass of main_loop reaches it.
THEOREM AlwaysReady == Spec => []StillReady
<1>1. LoopInv => StillReady
  BY DEF LoopInv
<1> QED
  BY <1>1, SpecInv, PTL

\* What has been received and is unread begins like the stream.
LEMMA StreamBegins ==
  ASSUME NEW q \in Seq(Piece), NEW u \in Seq(Piece), NEW z \in Seq(Piece)
  PROVE  LET w == q \o (u \o z)
             s == q \o u
         IN  s # << >> => w \in Seq(Piece) /\ w # << >> /\ 1 \in 1 .. Len(w) /\ w[1] = s[1]
<1> DEFINE s == q \o u
           w == s \o z
<1>1. s \in Seq(Piece)
  BY ConcatProperties
<1>2. q \o (u \o z) = w
  BY ConcatPieces
<1> HIDE DEF s
<1>3. SUFFICES ASSUME s # << >>
               PROVE  w \in Seq(Piece) /\ w # << >> /\ 1 \in 1 .. Len(w) /\ w[1] = s[1]
  BY <1>2 DEF s
<1>4. /\ w \in Seq(Piece) /\ Len(w) = Len(s) + Len(z)
      /\ \A i \in 1 .. Len(s) + Len(z) : w[i] = IF i <= Len(s) THEN s[i] ELSE z[i - Len(s)]
  BY <1>1, ConcatProperties
<1>5. Len(s) \in Nat \ {0} /\ Len(z) \in Nat
  BY <1>1, <1>3, EmptySeq
<1> HIDE DEF w
<1>6. 1 \in 1 .. Len(w) /\ w[1] = s[1]
  BY <1>4, <1>5
<1>7. w # << >>
  BY <1>6, EmptySeq
<1> QED
  BY <1>4, <1>6, <1>7

\* control_recv_hook and data_recv_hook receive whole messages, in whatever portions
\* they come: what recvALL receives next is where the last message ended.
THEOREM AlwaysFramed == Spec => []Framed
<1>1. ASSUME LoopInv, NEW fd \in Connections,
             NEW q \in Seq(Piece), q = (IF On(fd) THEN task.got ELSE << >>),
             q \o conn[fd].unread # << >>
      PROVE  LET s == q \o conn[fd].unread
             IN  IF On(fd) /\ task.part \in Commands
                 THEN s[1] = <<task.part, HeaderSize + 1>>
                 ELSE s[1] \in Kinds(fd) \X {1}
  <2> DEFINE s == q \o conn[fd].unread
             w == Stream(fd)
  <2>1. Shape /\ Reception /\ Streams /\ fd \in Fds
    BY <1>1 DEF LoopInv, Shape, Connections
  <2>2. conn[fd].unread \in Seq(Piece) /\ conn[fd].rest \in Seq(Piece)
    BY <2>1, ConnProperty
  <2>3. w = q \o (conn[fd].unread \o conn[fd].rest)
    BY <1>1 DEF Stream, On
  <2>4. w \in Seq(Piece) /\ w # << >> /\ 1 \in 1 .. Len(w) /\ w[1] = s[1]
    <3> DEFINE u == conn[fd].unread
               z == conn[fd].rest
    <3>1. u \in Seq(Piece) /\ z \in Seq(Piece) /\ s = q \o u /\ w = q \o (u \o z)
      BY <2>2, <2>3
    <3>2. s # << >>
      BY <1>1
    <3> HIDE DEF u, z, s, w
    <3> QED
      BY <3>1, <3>2, StreamBegins
  <2>5. StreamOK(w, Kinds(fd), Awaited(fd), conn[fd].end = "open")
    BY <2>1 DEF Streams
  <2> HIDE DEF w, s
  <2>6. CASE On(fd) /\ task.part \in Commands
    <3>1. Awaited(fd) = task.part /\ task.part # "header"
      BY <2>6, SizeAssumption DEF Awaited, On
    <3>2. s[1] = <<task.part, HeaderSize + 1>>
      BY <2>4, <2>5, <3>1 DEF StreamOK
    <3> QED
      BY <2>6, <3>2 DEF s
  <2>7. CASE ~ (On(fd) /\ task.part \in Commands)
    <3>1. Awaited(fd) = "header"
      BY <2>7 DEF Awaited, On
    <3>2. w[1][1] \in Kinds(fd) /\ w[1][2] = 1
      BY <2>4, <2>5, <3>1 DEF StreamOK
    <3>3. w[1] = <<w[1][1], w[1][2]>>
      BY <2>4, PieceProperty
    <3>4. w[1] \in Kinds(fd) \X {1}
      BY <3>2, <3>3
    <3> QED
      BY <3>4, <2>4, <2>7 DEF s
  <2> QED
    BY <2>6, <2>7
<1>2. ASSUME LoopInv PROVE Framed
  <2> SUFFICES ASSUME NEW fd \in Connections,
                      (IF On(fd) THEN task.got \o conn[fd].unread ELSE conn[fd].unread) # << >>
               PROVE  LET s == IF On(fd) THEN task.got \o conn[fd].unread
                                         ELSE conn[fd].unread
                      IN  IF On(fd) /\ task.part \in Commands
                          THEN s[1] = <<task.part, HeaderSize + 1>>
                          ELSE s[1] \in Kinds(fd) \X {1}
    BY Zenon DEF Framed, On, Kinds
  <2>1. Shape /\ Reception /\ fd \in Fds
    BY <1>2 DEF LoopInv, Shape, Connections
  <2>2. PICK q \in Seq(Piece) : q = IF On(fd) THEN task.got ELSE << >>
    BY <2>1, Receives, EmptySeq DEF On
  <2> DEFINE u == conn[fd].unread
  <2>3. << >> \o u = u
    <3>1. u \in Seq(Piece)
      BY <2>1, ConnProperty
    <3> QED
      BY <3>1, ConcatEmptySeq
  <2> HIDE DEF u
  <2>4. q \o u = IF On(fd) THEN task.got \o u ELSE u
    BY <2>2, <2>3
  <2> QED
    BY <1>1, <1>2, <2>2, <2>4 DEF u
<1> QED
  BY <1>2, SpecInv, PTL

\* main_loop runs the timer never before the deadline that was set last.
THEOREM TimerOnTime == Spec => TimerNotEarly
<1>1. ASSUME LoopInv, [Next]_vars PROVE [Timeout => until = 0]_vars
  <2>1. until \in 0 .. left
    BY <1>1 DEF LoopInv, Shape
  <2>2. Timeout => until = 0
    BY <2>1 DEF Timeout
  <2> QED
    BY <2>2
<1> QED
  BY <1>1, SpecInv, PTL DEF Spec, TimerNotEarly
=============================================================================
