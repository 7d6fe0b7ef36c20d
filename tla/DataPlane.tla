----------------------------- MODULE DataPlane -----------------------------
(***************************************************************************)
(* File transfers between routers: SENDFILE at the source                  *)
(* (src/src/sendfile.c), the data connections opened by INIT               *)
(* (src/src/init.c), and the routers that forward or receive the packets   *)
(* (data_recv_hook and file_data_received, src/src/control_handler.c).     *)
(*                                                                         *)
(* A router is single-threaded and its sends block, so between two calls   *)
(* of select it may be held in a handler: task says in which.  A packet is *)
(* sent in one step when the connection has room for it; a router whose    *)
(* connection has none, or no connection, takes no step.                   *)
(*                                                                         *)
(* CRASH, or a send to a router that is gone, ends the process: its kernel *)
(* closes the connections, still delivers what was sent on them, and       *)
(* answers what comes in with a reset.                                     *)
(*                                                                         *)
(* Routes may change at any time.  A transfer reads next_hop once, when it *)
(* starts, and a forwarder does not read it.  So it is enough to choose,   *)
(* at SENDFILE, any next hop the entry may have.  Data is abstracted to    *)
(* the number of the 1024-byte block a packet carries.                     *)
(***************************************************************************)
EXTENDS Integers, Sequences, SequencesExt

CONSTANTS
  Routers,
  Nbrs,        \* router_neighbour_list of every router
  NextHop,     \* the values next_hop may have, of every entry of every router
  Transfers,   \* the SENDFILE commands: [from, dest, transfer_id, ttl, seq,
               \* exists, full, tail]: the file, if it exists, has full whole
               \* blocks and, if tail, more
  Mortal,      \* the routers the controller may send CRASH to
  SeqSpace,    \* 2^16: sequence numbers are 16 bits wide
  CountSpace,  \* 2^8: SENDFILE-STATS counts records in 8 bits
  Room         \* bound: packets the buffers of a connection hold

\* The controller names a destination that has a route, and does not use a
\* transfer_id twice: files and records are told apart by it alone.
ASSUME TransferAssumption ==
  /\ \A q \in Transfers : /\ NextHop[q.from][q.dest] \in (SUBSET Routers) \ {{}}
                          /\ q.from \in Routers /\ q.dest \in Routers
                          /\ q.ttl \in Nat /\ q.seq \in Nat /\ q.full \in Nat
                          /\ {q.exists, q.tail} \subseteq BOOLEAN
  /\ \A p, q \in Transfers : p.transfer_id = q.transfer_id => p = q

\* The entry of a router for itself has itself as next hop; that for another router
\* has a neighbour (init.c:239, routing.c:229).
ASSUME HopAssumption ==
  \A q \in Transfers : IF q.dest = q.from THEN NextHop[q.from][q.dest] = {q.from}
                       ELSE q.from \notin NextHop[q.from][q.dest]

ASSUME NumberAssumption ==
  SeqSpace \in Nat \ {0} /\ CountSpace \in Nat \ {0} /\ Room \in Nat \ {0}
ASSUME MortalAssumption == Mortal \subseteq Routers

VARIABLES
  up,       \* the routers that have processed INIT and run
  dead,     \* the routers whose process has ended
  sock,     \* dest_data_sockets: "none" (0), "failed" (-1) or a descriptor:
            \* "open", "closed" by the other end, or "reset" by it
  chan,     \* chan[a][b]: packets on the connection from a to b, oldest first
  task,     \* the handler a router is held in
  stats,    \* sendfile_stats_list, newest first
  files,    \* file_handle_list: transfer_id -> [contents, isopen]
  issued    \* history: the commands given, and the next hop each one found

vars == <<up, dead, sock, chan, task, stats, files, issued>>

Idle == [at |-> "select"]

Init ==
  /\ up = {} /\ dead = {}
  /\ sock = [a \in Routers |-> [b \in Routers |-> "none"]]
  /\ chan = [a \in Routers |-> [b \in Routers |-> << >>]]
  /\ task = [r \in Routers |-> Idle]
  /\ stats = [r \in Routers |-> << >>]
  /\ files = [r \in Routers |-> << >>]
  /\ issued = << >>

\* Mutant: the result of connect is not looked at.
Connect_Unchecked(b) == "open"

\* create_tcp_conn: refused unless the other end listens.
Connect(b) == IF b \in up THEN "open" ELSE "failed"

\* Mutant: added at the tail.
Record_Last(s, p) == Append(s, [transfer_id |-> p.transfer_id, ttl |-> p.ttl, seq |-> p.seq])

\* struct sendfileStats, added at the head of the list.
Record(s, p) == <<[transfer_id |-> p.transfer_id, ttl |-> p.ttl, seq |-> p.seq]>> \o s

-----------------------------------------------------------------------------
\* INIT listens on the data port and connects to the neighbours.
InitResponse(r) ==
  /\ r \notin up \cup dead
  /\ up' = up \cup {r}
  /\ sock' = [sock EXCEPT ![r] =
                [b \in Routers |-> IF b \in Nbrs[r] THEN Connect(b) ELSE "none"]]
  /\ UNCHANGED <<dead, chan, task, stats, files, issued>>

-----------------------------------------------------------------------------
(* sendALL of a packet, and the end of a process *)

\* What is sent to a router that is gone is lost; its kernel answers with a reset,
\* which may take a while to arrive.
SendAll(r, to, p) ==
  \/ /\ sock[r][to] = "open"
     /\ Len(chan[r][to]) < Room
     /\ chan' = [chan EXCEPT ![r][to] = Append(@, p)]
     /\ UNCHANGED sock
  \/ /\ sock[r][to] = "closed"
     /\ \E s \in {"closed", "reset"} : sock' = [sock EXCEPT ![r][to] = s]
     /\ UNCHANGED chan

\* The process of r ends.  Packets it has not read are lost, and reset the
\* connection they came on (unless the reset is still on its way).
Exit(r) ==
  /\ up' = up \ {r}
  /\ dead' = dead \cup {r}
  /\ task' = [task EXCEPT ![r] = Idle]
  /\ chan' = [a \in Routers |-> [chan[a] EXCEPT ![r] = << >>]]
  /\ \E R \in SUBSET {a \in Routers : chan[a][r] # << >>} :
       sock' = [a \in Routers |->
                 IF a = r THEN [b \in Routers |-> "none"]
                 ELSE [sock[a] EXCEPT ![r] =
                         IF @ # "open" THEN @
                         ELSE IF a \in R THEN "reset" ELSE "closed"]]
  /\ UNCHANGED <<stats, files, issued>>

\* Mutant: CRASH ends a router in the middle of a handler.
CrashResponse_Anytime(r) == r \in Mortal \cap up /\ Exit(r)

\* CRASH is read between two handlers.
CrashResponse(r) ==
  /\ r \in Mortal \cap up
  /\ task[r] = Idle
  /\ Exit(r)

-----------------------------------------------------------------------------
(* sendfile_response *)

\* The connection to the next hop is made if there is none.  A file that cannot
\* be opened is not sent, and the controller gets no answer.
SendFile(q, to) ==
  LET r == q.from
  IN  /\ r \in up
      /\ task[r] = Idle
      /\ q \notin DOMAIN issued
      /\ issued' = [p \in DOMAIN issued \cup {q} |-> IF p = q THEN to ELSE issued[p]]
      /\ sock' = [sock EXCEPT ![r][to] =
                    IF @ \in {"none", "failed"} THEN Connect(to) ELSE @]
      /\ task' = IF q.exists
                 THEN [task EXCEPT ![r] = [at |-> "sendfile", q |-> q, to |-> to, k |-> 1]]
                 ELSE task
      /\ UNCHANGED <<up, dead, chan, stats, files>>

\* Mutant: the last whole block is left out, too.
LastPacket_Early(q, k) == k + 1 >= q.full

\* The next fread did not fill the buffer: what it read is not sent any more.
LastPacket(q, k) == k + 1 > q.full

PacketOf(q, k) ==
  [dest |-> q.dest, transfer_id |-> q.transfer_id, ttl |-> q.ttl,
   seq |-> (q.seq + k - 1) % SeqSpace, fin |-> LastPacket(q, k), block |-> k]

SendPacket(r) ==
  /\ task[r].at = "sendfile"
  /\ LET q == task[r].q
         k == task[r].k
     IN  /\ SendAll(r, task[r].to, PacketOf(q, k))
         /\ stats' = [stats EXCEPT ![r] = Record(@, PacketOf(q, k))]
         /\ task' = [task EXCEPT ![r] =
                       IF LastPacket(q, k) THEN Idle ELSE [@ EXCEPT !.k = k + 1]]
  /\ UNCHANGED <<up, dead, files, issued>>

-----------------------------------------------------------------------------
(* data_recv_hook *)

\* file_data_received: the handle is made by the first packet of a transfer_id,
\* and closed by the one with the FIN bit.
FileData(f, p) ==
  [t \in DOMAIN f \cup {p.transfer_id} |->
     IF t # p.transfer_id THEN f[t]
     ELSE [contents |-> IF t \in DOMAIN f THEN Append(f[t].contents, p.block)
                        ELSE <<p.block>>,
           isopen |-> (t \in DOMAIN f => f[t].isopen) /\ ~ p.fin]]

\* Mutant: counted down on arrival and once more for the hop.
Aged_Twice(p) == IF p.ttl <= 1 THEN [p EXCEPT !.ttl = 0] ELSE [p EXCEPT !.ttl = @ - 2]

\* The packet p with its ttl counted down.
Aged(p) == IF p.ttl = 0 THEN p ELSE [p EXCEPT !.ttl = @ - 1]

\* The socket a packet for d is forwarded on.
ForwardTo(r, d) == d

Receive(s, r) ==
  LET p == Aged(Head(chan[s][r]))
  IN  /\ chan[s][r] # << >>
      /\ task[r] = Idle
      /\ chan' = [chan EXCEPT ![s][r] = Tail(@)]
      /\ stats' = [stats EXCEPT ![r] =
                     IF Head(chan[s][r]).ttl = 0 THEN @ ELSE Record(@, p)]
      /\ \/ /\ p.dest = r
            /\ files' = [files EXCEPT ![r] = FileData(@, p)]
            /\ UNCHANGED task
         \/ /\ p.dest # r
            /\ p.ttl = 0
            /\ UNCHANGED <<files, task>>
         \/ /\ p.dest # r
            /\ p.ttl # 0
            /\ task' = [task EXCEPT ![r] = [at |-> "forward", p |-> p]]
            /\ UNCHANGED files
      /\ UNCHANGED <<up, dead, sock, issued>>

Forward(r) ==
  /\ task[r].at = "forward"
  /\ LET p == task[r].p
     IN  SendAll(r, ForwardTo(r, p.dest), p)
  /\ task' = [task EXCEPT ![r] = Idle]
  /\ UNCHANGED <<up, dead, stats, files, issued>>

-----------------------------------------------------------------------------
\* A send on a connection that has been reset raises SIGPIPE, which nobody handles.
BrokenPipe(r) ==
  /\ \/ task[r].at = "sendfile" /\ sock[r][task[r].to] = "reset"
     \/ task[r].at = "forward" /\ sock[r][ForwardTo(r, task[r].p.dest)] = "reset"
  /\ Exit(r)

-----------------------------------------------------------------------------
\* The elements of s, records or packets, of transfer t.
Only(s, t) ==
  LET picked[i \in 0 .. Len(s)] ==
        IF i = 0 THEN << >>
        ELSE IF s[i].transfer_id = t THEN Append(picked[i-1], s[i]) ELSE picked[i-1]
  IN  picked[Len(s)]

\* The answer to SENDFILE-STATS: the ttl of the oldest record, and the sequence
\* numbers, newest first.  Both their count and their index are 8 bits wide: from
\* CountSpace records on, later ones overwrite earlier ones of the answer.
SendfileStats(r, t) ==
  LET s == Only(stats[r], t)
      wrapped == CountSpace * (Len(s) \div CountSpace)
  IN  [ttl |-> IF s = << >> THEN 0 ELSE Last(s).ttl,
       seqs |-> [i \in 1 .. Len(s) - wrapped |-> s[wrapped + i].seq]]

-----------------------------------------------------------------------------
Next ==
  \/ \E r \in Routers : \/ InitResponse(r) \/ CrashResponse(r)
                         \/ SendPacket(r) \/ Forward(r) \/ BrokenPipe(r)
  \/ \E q \in Transfers : \E to \in NextHop[q.from][q.dest] : SendFile(q, to)
  \/ \E s, r \in Routers : Receive(s, r)

Spec == Init /\ [][Next]_vars

\* INIT reaches every router.  A handler that can go on does, and a router that comes
\* back to select again and again receives packets; nothing is assumed of which.
Fairness ==
  /\ \A r \in Routers : /\ WF_vars(InitResponse(r))
                        /\ WF_vars(SendPacket(r) \/ Forward(r) \/ BrokenPipe(r))
  /\ \A r \in Routers : SF_vars(\E s \in Routers : Receive(s, r))

LiveSpec == Spec /\ Fairness

-----------------------------------------------------------------------------
(* Properties *)

PacketSet ==
  [dest : Routers, transfer_id : {q.transfer_id : q \in Transfers}, ttl : Nat,
   seq : 0 .. SeqSpace-1, fin : BOOLEAN, block : Nat]

\* Every variable has its type.
TypeOK ==
  /\ up \subseteq Routers /\ dead \subseteq Routers \ up
  /\ sock \in [Routers -> [Routers -> {"none", "failed", "open", "closed", "reset"}]]
  /\ \A a, b \in Routers : /\ chan[a][b] \in Seq(PacketSet)
                           /\ Len(chan[a][b]) <= Room
                           /\ chan[a][b] # << >> =>
                                b \in up /\ (sock[a][b] = "open" \/ a \in dead)
  /\ \A r \in Routers : task[r] # Idle => r \in up
  /\ DOMAIN issued \subseteq Transfers
  /\ \A q \in DOMAIN issued : issued[q] \in NextHop[q.from][q.dest]

Content(q) ==
  IF q.transfer_id \in DOMAIN files[q.dest]
  THEN files[q.dest][q.transfer_id].contents ELSE << >>

Closed(q) ==
  /\ q.transfer_id \in DOMAIN files[q.dest]
  /\ ~ files[q.dest][q.transfer_id].isopen

\* The whole blocks; a file without any is sent as the start of one.
PacketCount(q) == IF q.full = 0 THEN 1 ELSE q.full

Delivery == INSTANCE FileDelivery WITH
  Packets <- PacketCount,
  content <- [q \in Transfers |-> Content(q)],
  closed <- {q \in Transfers : Closed(q)}

\* Transfers that share connections, forwarders and receivers, in whatever order
\* they are served, keep the promise of FileDelivery: each file grows in order and
\* is closed once, by its last packet.  A crash on the way leaves it open, but never
\* with a gap.
ImplementsDelivery == Delivery!Spec

\* Of what has been sent of transfer q from a to n and not been recorded at n, the
\* sequence numbers, newest first.
OnTheWay(a, n, q) ==
  LET Numbers(c) == [i \in DOMAIN c |-> c[i].seq]
      held == task[a].at = "forward" /\ task[a].p.transfer_id = q.transfer_id
  IN  (IF held THEN <<task[a].p.seq>> ELSE << >>)
        \o Numbers(Reverse(Only(chan[a][n], q.transfer_id)))

\* On every hop of a path, what the one router answers to SENDFILE-STATS is what the
\* next one answers, with a ttl one lower, preceded by what is on the way between
\* them: the answers of two routers never contradict each other, whichever transfers
\* share them.  (With CountSpace packets and more, the count wraps.)
HopsRecorded ==
  \A q \in DOMAIN issued, a \in up :
    LET n == IF a = q.from THEN issued[q] ELSE ForwardTo(a, q.dest)
        sent == SendfileStats(a, q.transfer_id)
        here == SendfileStats(n, q.transfer_id)
    IN  (a # q.dest /\ n \in up /\ sent.ttl > 0 /\ PacketCount(q) < CountSpace) =>
          /\ sent.seqs = OnTheWay(a, n, q) \o here.seqs
          /\ here.seqs # << >> => here.ttl = sent.ttl - 1

\* The router the send of r is to.
SendsTo(r) ==
  IF task[r].at = "sendfile" THEN task[r].to ELSE ForwardTo(r, task[r].p.dest)

\* r sends on a connection that was never made: sendALL does not return.
Unconnected(r) == task[r] # Idle /\ sock[r][SendsTo(r)] \in {"none", "failed"}

\* r waits for b to read.
WaitsFor(r, b) ==
  /\ task[r] # Idle /\ SendsTo(r) = b
  /\ sock[r][b] = "open" /\ Len(chan[r][b]) = Room

\* The router r is one of some that all wait for one another, in a ring of any length
\* or at the end of a chain, or for one that has no connection.
Held(r) ==
  \E H \in SUBSET Routers :
    /\ r \in H
    /\ \A a \in H : Unconnected(a) \/ \E b \in H : WaitsFor(a, b)

\* Such routers never go on, whatever the others do and whoever else crashes: CRASH is
\* read by a router that is not held only.
HeldForEver == [][\A r \in Routers : Held(r) => Held(r)']_vars

\* The routers transfer q goes through.
Path(q) == {q.from, q.dest} \cup {issued[p] : p \in {q} \cap DOMAIN issued}

\* Nothing else keeps a transfer whose ttl suffices from being completed: the file is
\* closed, or a router on its path has crashed, or one is held.  Crashes and held
\* routers elsewhere do not matter.
Completes ==
  \A q \in Transfers :
    (q \in DOMAIN issued /\ q.exists /\ (issued[q] = q.dest \/ q.ttl > 1))
      ~> (Closed(q) \/ \E r \in Path(q) : r \in dead \/ Held(r))

\* What the comment in sendfile_response says: "Keep sending data till there is no
\* data left to be sent".  Violated: the rest of a file after its last whole block
\* is read, but not sent.
AllDataSent ==
  \A q \in {t \in DOMAIN issued : t.exists} :
    (\A r \in Routers : task[r].at = "sendfile" => task[r].q # q) =>
       Len(SendfileStats(q.from, q.transfer_id).seqs) = q.full + (IF q.tail THEN 1 ELSE 0)

\* What the comment in data_recv_hook says: "Find next hop".  Violated: the router
\* looked up is the destination itself, to which there may be no connection.
ForwardsToNextHop ==
  \A r \in Routers :
    task[r].at = "forward" =>
      ForwardTo(r, task[r].p.dest) \in NextHop[r][task[r].p.dest]
=============================================================================
