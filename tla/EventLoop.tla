----------------------------- MODULE EventLoop -----------------------------
(***************************************************************************)
(* The event loop of one router (main_loop, src/src/connection_manager.c), *)
(* the connections it watches and the commands and packets it reads from   *)
(* them (src/src/control_handler.c), with recvALL                          *)
(* (src/src/network_util.c).                                               *)
(*                                                                         *)
(* What arrives on a connection is a sequence of pieces: a message is      *)
(* received in whatever portions TCP makes of it.  Descriptors are         *)
(* numbers, and a new one is the lowest that is free, as in POSIX: the     *)
(* number of a closed connection comes back for another one.               *)
(*                                                                         *)
(* What the handlers do with a message is in Router and DataPlane.  Here   *)
(* it is what it does to the loop: descriptors, the time-out, and the end  *)
(* of the process.                                                         *)
(***************************************************************************)
EXTENDS Integers, Sequences, FiniteSetsExt

CONSTANTS
  Commands,      \* the commands the controller sends
  HeaderSize,    \* pieces of a command's header
  PayloadSize,   \* pieces of a command's payload, 0 if it has none
  PacketSize,    \* pieces of a data packet
  Interval,      \* updates_periodic_interval
  NbrCount,      \* length of router_neighbour_list
  MaxFd,         \* bound: descriptors
  MaxConns,      \* bound: connections at once, accepted or not
  MaxControl,    \* bound: control connections among them
  MaxUnread,     \* bound: pieces unread on all connections (see Fits)
  MaxDatagrams   \* bound: datagrams unread

ASSUME SizeAssumption ==
  /\ HeaderSize \in Nat \ {0} /\ PacketSize \in Nat \ {0}
  /\ PayloadSize \in [Commands -> Nat]
  /\ {"init", "crash", "sendfile"} \subseteq Commands
  /\ "header" \notin Commands /\ "packet" \notin Commands
ASSUME LoopAssumption ==
  /\ Interval \in Nat \ {0} /\ NbrCount \in Nat
  /\ MaxFd \in Nat /\ MaxConns \in Nat /\ MaxControl \in Nat /\ MaxUnread \in Nat /\ MaxDatagrams \in Nat
  /\ MaxFd >= 2 + NbrCount + MaxConns

VARIABLES
  flag_init,      \* has INIT been processed?
  data_socket, router_socket,
  control_conn_list, data_conn_list,
  dest_data_sockets,   \* the data connections the router has made
  master_list, head_fd,
  watch_list,     \* the descriptors select returned and the pass has not reached
  task,           \* what the router is doing
  conn,           \* per descriptor: unread pieces, the rest of the message the
                  \* peer is sending, and how its end of the connection is
  pending,        \* connections not accepted yet
  datagrams,      \* routing packets not received yet
  left,           \* the time select has left in timeout
  until           \* time until the deadline set last, 0 when it is past

sockets == <<flag_init, data_socket, router_socket, dest_data_sockets>>
lists == <<control_conn_list, data_conn_list, master_list, head_fd>>
arrivals == <<conn, pending, datagrams>>
clock == <<left, until>>
vars == <<sockets, lists, watch_list, task, arrivals, clock>>

Fds == 0 .. MaxFd
NoFd == MaxFd + 1
control_socket == 0

Quiet == [unread |-> << >>, rest |-> << >>, end |-> "open"]
Selecting == [at |-> "select"]
Passing == [at |-> "pass"]

\* The packets of a SENDFILE, or one to forward, that came on fd are being sent.
Sending(fd, part) == [at |-> "send", fd |-> fd, part |-> part]

\* recvALL is called for the next message, or part of one, on fd.
Receiving(fd, part, size) ==
  [at |-> "recv", fd |-> fd, part |-> part, size |-> size, got |-> << >>]

Init ==
  /\ flag_init = 0
  /\ data_socket = NoFd /\ router_socket = NoFd
  /\ control_conn_list = {} /\ data_conn_list = {}
  /\ dest_data_sockets = {}
  /\ master_list = {control_socket}
  /\ head_fd = control_socket
  /\ watch_list = {}
  /\ task = Selecting
  /\ conn = [fd \in Fds |-> Quiet]
  /\ pending = [control |-> 0, data |-> 0]
  /\ datagrams = 0
  /\ left = 0 /\ until = 0

-----------------------------------------------------------------------------
(* Descriptors *)

Connections == control_conn_list \cup data_conn_list
OpenFds ==
  ({control_socket, data_socket, router_socket} \cup Connections \cup dest_data_sockets)
    \cap Fds
FreeFds == Fds \ OpenFds

\* The lowest k free descriptors.
Lowest(k) == {fd \in FreeFds : Cardinality({f \in FreeFds : f < fd}) < k}

\* What select finds ready among the descriptors up to head_fd.
Ready ==
  {fd \in master_list :
     /\ fd <= head_fd
     /\ \/ fd = control_socket /\ pending.control > 0
        \/ fd = data_socket /\ pending.data > 0
        \/ fd = router_socket /\ datagrams > 0
        \/ fd \in Connections /\ (conn[fd].unread # << >> \/ conn[fd].end # "open")}

-----------------------------------------------------------------------------
(* main_loop *)

Select_AllWatched ==    \* Mutant: FD_ISSET is asked of master_list.
  /\ task = Selecting
  /\ Ready # {}
  /\ task' = Passing
  /\ watch_list' = master_list
  /\ UNCHANGED <<sockets, lists, arrivals, clock>>

Select ==
  /\ task = Selecting
  /\ Ready # {}
  /\ task' = Passing
  /\ watch_list' = Ready
  /\ UNCHANGED <<sockets, lists, arrivals, clock>>

\* set_new_timeout sets timeout to the time until the next deadline (Router).
SetNewTimeout ==
  /\ until' \in 1 .. Interval
  /\ left' = until'

\* select waits for the rest of timeout; after INIT the timer runs when it ends.
Timeout ==
  /\ task = Selecting
  /\ Ready = {}
  /\ left = 0
  /\ flag_init = 1
  /\ SetNewTimeout
  /\ UNCHANGED <<sockets, lists, watch_list, task, arrivals>>

\* The pass is at descriptor i.
At(i) == task = Passing /\ i \in watch_list /\ i = Min(watch_list)

NextIndex_First(i) == {}     \* Mutant: back to select after the first one.

\* The descriptors of the pass after i.
NextIndex(i) == watch_list \ {i}

EndPass ==
  /\ task = Passing
  /\ watch_list = {}
  /\ task' = Selecting
  /\ UNCHANGED <<sockets, lists, watch_list, arrivals, clock>>

\* A connection is accepted, put on its list and watched.
Accept(i, kind) ==
  LET fd == Min(FreeFds)
  IN  /\ At(i)
      /\ pending[kind] > 0
      /\ pending' = [pending EXCEPT ![kind] = @ - 1]
      /\ master_list' = master_list \cup {fd}
      /\ head_fd' = Max({head_fd, fd})
      /\ watch_list' = NextIndex(i)
      /\ conn' = [conn EXCEPT ![fd] = Quiet]
      /\ UNCHANGED <<sockets, task, datagrams, clock>>

NewControlConn ==
  /\ Accept(control_socket, "control")
  /\ control_conn_list' = control_conn_list \cup {Min(FreeFds)}
  /\ UNCHANGED data_conn_list

NewDataConn ==
  /\ Accept(data_socket, "data")
  /\ data_conn_list' = data_conn_list \cup {Min(FreeFds)}
  /\ UNCHANGED control_conn_list

RouterRecvHook_KeepTimeout ==    \* Mutant: the time-out is not updated.
  /\ At(router_socket)
  /\ datagrams > 0
  /\ datagrams' = datagrams - 1
  /\ until' \in 1 .. Interval
  /\ watch_list' = NextIndex(router_socket)
  /\ UNCHANGED <<sockets, lists, task, conn, pending, left>>

\* A routing packet: it sets the time-out, too.
RouterRecvHook ==
  /\ At(router_socket)
  /\ datagrams > 0
  /\ datagrams' = datagrams - 1
  /\ SetNewTimeout
  /\ watch_list' = NextIndex(router_socket)
  /\ UNCHANGED <<sockets, lists, task, conn, pending>>

\* isControl is asked before isData.
ExistingConnection(i) ==
  /\ At(i)
  /\ i \in Connections
  /\ task' = IF i \in control_conn_list
             THEN Receiving(i, "header", HeaderSize)
             ELSE Receiving(i, "packet", PacketSize)
  /\ watch_list' = NextIndex(i)
  /\ UNCHANGED <<sockets, lists, arrivals, clock>>

-----------------------------------------------------------------------------
(* recvALL *)

\* The pieces of message m of s pieces.
Pieces(m, s) == [k \in 1 .. s |-> <<m, k>>]

Got_FirstPortion == task.got # << >>     \* Mutant: one recv is taken for all.

\* nbytes have been received.
Got == Len(task.got) = task.size

\* One call of recv: what is there, but no more than is missing.
Recv ==
  /\ task.at = "recv"
  /\ ~ Got
  /\ LET s == conn[task.fd].unread
         k == Min({Len(s), task.size - Len(task.got)})
     IN  /\ k > 0
         /\ task' = [task EXCEPT !.got = @ \o SubSeq(s, 1, k)]
         /\ conn' = [conn EXCEPT ![task.fd].unread = SubSeq(s, k + 1, Len(s))]
  /\ UNCHANGED <<sockets, lists, watch_list, pending, datagrams, clock>>

\* The connection has ended and all its pieces have been read.
AtEnd == task.at = "recv" /\ ~ Got /\ conn[task.fd].unread = << >>

Unlisted_KeepListed(l) == l      \* Mutant: the entry stays in its list.

\* remove_control_conn and remove_data_conn unlink the entry of a descriptor.
Unlisted(l) == l \ {task.fd}

\* The first recv returns 0: recvALL returns -1, the connection is closed.
RemoveConn ==
  /\ AtEnd
  /\ task.got = << >>
  /\ conn[task.fd].end = "fin"
  /\ control_conn_list' = Unlisted(control_conn_list)
  /\ data_conn_list' = Unlisted(data_conn_list)
  /\ master_list' = master_list \ {task.fd}
  /\ conn' = [conn EXCEPT ![task.fd] = Quiet]
  /\ task' = Passing
  /\ UNCHANGED <<sockets, head_fd, watch_list, pending, datagrams, clock>>

\* A later recv returns 0, or any returns -1: the count moves away from nbytes, or
\* stays, and recv is called for ever.
Hang ==
  /\ AtEnd
  /\ \/ conn[task.fd].end = "rst"
     \/ conn[task.fd].end = "fin" /\ task.got # << >>
  /\ task' = [at |-> "hung"]
  /\ UNCHANGED <<sockets, lists, watch_list, arrivals, clock>>

-----------------------------------------------------------------------------
(* control_recv_hook and data_recv_hook, with a message *)

Command == task.got[1][1]

PayloadNext ==
  /\ task.at = "recv" /\ Got
  /\ task.part = "header"
  /\ PayloadSize[Command] > 0
  /\ task' = Receiving(task.fd, Command, PayloadSize[Command])
  /\ UNCHANGED <<sockets, lists, watch_list, arrivals, clock>>

\* The command whose header and payload are there.
Complete(c) ==
  /\ task.at = "recv" /\ Got
  /\ \/ task.part = "header" /\ Command = c /\ PayloadSize[c] = 0
     \/ task.part = c

\* sendALL of a reply: to a peer that has closed, the first one is answered by a
\* reset (unless it only stopped sending), the next raises SIGPIPE.
Reply ==
  LET end == conn[task.fd].end
  IN  /\ \E e \in IF end = "fin" THEN {"fin", "rst"} ELSE {end} :
           conn' = [conn EXCEPT ![task.fd].end = e]
      /\ task' = IF end = "rst" THEN [at |-> "exited"] ELSE Passing

\* init_response: the sockets get the lowest descriptors; then the connections to
\* the neighbours, of which some may fail.
InitResponse ==
  /\ Complete("init")
  /\ Reply
  /\ flag_init' = 1
  /\ data_socket' = Min(FreeFds)
  /\ router_socket' = Max(Lowest(2))
  /\ \E k \in 0 .. NbrCount : dest_data_sockets' = Lowest(k + 2) \ Lowest(2)
  /\ master_list' = master_list \cup Lowest(2)
  /\ head_fd' = Max({head_fd} \cup Lowest(2))
  /\ left' = Interval /\ until' = Interval
  /\ UNCHANGED <<control_conn_list, data_conn_list, watch_list, pending, datagrams>>

CrashResponse ==
  /\ Complete("crash")
  /\ task' = [at |-> "exited"]
  /\ UNCHANGED <<sockets, lists, watch_list, arrivals, clock>>

\* The others only reply.
OtherResponse ==
  /\ \E c \in Commands \ {"init", "crash", "sendfile"} : Complete(c)
  /\ Reply
  /\ UNCHANGED <<sockets, lists, watch_list, pending, datagrams, clock>>

\* SENDFILE connects to the next hop if INIT could not.  If there is no such file, it
\* is done, without a reply.
SendfileResponse ==
  /\ Complete("sendfile")
  /\ \/ UNCHANGED dest_data_sockets
     \/ /\ Cardinality(dest_data_sockets) < NbrCount
        /\ dest_data_sockets' = dest_data_sockets \cup Lowest(1)
  /\ task' \in {Passing, Sending(task.fd, "sendfile")}
  /\ UNCHANGED <<flag_init, data_socket, router_socket, lists, watch_list, arrivals, clock>>

\* A packet is for this router, or dropped, or has to be forwarded.
DataRecvHook ==
  /\ Complete("packet")
  /\ task' \in {Passing, Sending(task.fd, "packet")}
  /\ UNCHANGED <<sockets, lists, watch_list, arrivals, clock>>

\* sendALL of the packets returns because another router has made room for them; the
\* controller gets the reply to SENDFILE then.
Sent ==
  /\ task.at = "send"
  /\ IF task.part = "sendfile" THEN Reply ELSE task' = Passing /\ UNCHANGED conn
  /\ UNCHANGED <<sockets, lists, watch_list, pending, datagrams, clock>>

\* Or the other router is gone, and a reset has come from it: SIGPIPE.
BrokenPipe ==
  /\ task.at = "send"
  /\ task' = [at |-> "exited"]
  /\ UNCHANGED <<sockets, lists, watch_list, arrivals, clock>>

RouterStep ==
  \/ Select \/ Timeout \/ EndPass
  \/ NewControlConn \/ NewDataConn \/ RouterRecvHook
  \/ \E i \in Fds : ExistingConnection(i)
  \/ Recv \/ RemoveConn \/ Hang
  \/ PayloadNext \/ InitResponse \/ CrashResponse \/ OtherResponse
  \/ SendfileResponse \/ DataRecvHook

-----------------------------------------------------------------------------
(* The controller, the other routers, and time *)

Connect(kind) ==
  /\ kind = "data" => data_socket # NoFd
  /\ kind = "control" => pending.control + Cardinality(control_conn_list) < MaxControl
  /\ Cardinality(Connections) + pending.control + pending.data < MaxConns
  /\ pending' = [pending EXCEPT ![kind] = @ + 1]
  /\ UNCHANGED <<sockets, lists, watch_list, task, conn, datagrams, clock>>

\* The controller sends INIT once.
InitSent ==
  \/ flag_init = 1
  \/ \E fd \in Connections : \E p \in {<<"init", k>> : k \in 1 .. HeaderSize + PayloadSize["init"]} :
       \E s \in {conn[fd].unread, conn[fd].rest} : p \in {s[k] : k \in DOMAIN s}
  \/ task.at = "recv" /\ (task.part = "init" \/ (task.got # << >> /\ Command = "init"))

\* The commands the controller may send next; SENDFILE needs the routes.
Sendable == {c \in Commands : (c = "init" => ~ InitSent) /\ (c = "sendfile" => flag_init = 1)}

\* What the peer of fd may send next, in pieces.
Messages(fd) ==
  IF fd \in data_conn_list THEN {Pieces("packet", PacketSize)}
  ELSE {Pieces(c, HeaderSize + PayloadSize[c]) : c \in Sendable}

\* Bound: fewer than MaxUnread pieces wait, on all connections together, or recvALL
\* waits for this one.
Fits(fd) ==
  \/ MapThenSumSet(LAMBDA f : Len(conn[f].unread), Connections) < MaxUnread
  \/ task.at = "recv" /\ task.fd = fd /\ conn[fd].unread = << >>

Begin(fd) ==
  /\ fd \in Connections
  /\ conn[fd].end = "open" /\ conn[fd].rest = << >>
  /\ Fits(fd)
  /\ \E m \in Messages(fd) :
       conn' = [conn EXCEPT ![fd].unread = Append(@, Head(m)), ![fd].rest = Tail(m)]
  /\ UNCHANGED <<sockets, lists, watch_list, task, pending, datagrams, clock>>

Continue(fd) ==
  /\ fd \in Connections
  /\ conn[fd].rest # << >>
  /\ Fits(fd)
  /\ conn' = [conn EXCEPT ![fd].unread = Append(@, Head(conn[fd].rest)),
                          ![fd].rest = Tail(@)]
  /\ UNCHANGED <<sockets, lists, watch_list, task, pending, datagrams, clock>>

\* The peer closes ("fin"), or closes with replies unread or is killed ("rst").
End(fd, how) ==
  /\ fd \in Connections
  /\ conn[fd].end = "open"
  /\ conn' = [conn EXCEPT ![fd].end = how, ![fd].rest = << >>]
  /\ UNCHANGED <<sockets, lists, watch_list, task, pending, datagrams, clock>>

Datagram ==
  /\ router_socket # NoFd
  /\ datagrams < MaxDatagrams
  /\ datagrams' = datagrams + 1
  /\ UNCHANGED <<sockets, lists, watch_list, task, conn, pending, clock>>

\* The time-out shrinks only while select waits.
Tick ==
  /\ flag_init = 1
  /\ until' = Max({until - 1, 0})
  /\ left' = IF task = Selecting /\ Ready = {} THEN Max({left - 1, 0}) ELSE left
  /\ UNCHANGED <<sockets, lists, watch_list, task, arrivals>>

\* The router exits, or recvALL never returns.
Stuck == task.at \in {"hung", "exited"}

\* What happens around a router that is stuck is left out.
Environment ==
  /\ ~ Stuck
  /\ \/ \E kind \in {"control", "data"} : Connect(kind)
     \/ \E fd \in Fds : Begin(fd) \/ Continue(fd) \/ End(fd, "fin") \/ End(fd, "rst")
     \/ Datagram
     \/ Tick
     \/ Sent \/ BrokenPipe

Next == RouterStep \/ Environment

Spec == Init /\ [][Next]_vars

\* The process runs, and a peer whose message recvALL waits for goes on with it (or
\* its connection ends).  Nothing says that sendALL of a packet ever returns: other
\* routers may make no room, and a socket that was never connected never has any.
Fairness ==
  /\ WF_vars(RouterStep)
  /\ WF_vars(task.at = "recv" /\ Continue(task.fd))

LiveSpec == Spec /\ Fairness

-----------------------------------------------------------------------------
(* Properties *)

\* Every variable has its type; the time-out never ends after the deadline set last.
TypeOK ==
  /\ flag_init \in {0, 1}
  /\ data_socket \in Fds \cup {NoFd} /\ router_socket \in Fds \cup {NoFd}
  /\ \A s \in {control_conn_list, data_conn_list, dest_data_sockets, master_list,
               watch_list} : s \subseteq Fds
  /\ head_fd \in Fds
  /\ task.at \in {"select", "pass", "recv", "send", "hung", "exited"}
  /\ \A fd \in Fds : conn[fd].end \in {"open", "fin", "rst"}
  /\ pending \in [{"control", "data"} -> 0 .. MaxConns]
  /\ datagrams \in 0 .. MaxDatagrams
  /\ left \in 0 .. Interval /\ until \in 0 .. left

\* However descriptors are closed, reused and opened within a pass, each one that
\* is watched is exactly one of: a listening socket, a control connection, a data
\* connection; all of these are watched, and the data connections the router has
\* made are not.  (main_loop's "Unknown socket" is never reached.)
Registered ==
  LET listeners == {control_socket, data_socket, router_socket} \cap Fds
  IN  /\ master_list = listeners \cup Connections
      /\ control_conn_list \cap data_conn_list = {}
      /\ Connections \cap (listeners \cup dest_data_sockets) = {}
      /\ dest_data_sockets \cap listeners = {}
      /\ master_list \subseteq 0 .. head_fd

\* A descriptor select has returned is still ready when the pass reaches it,
\* although handlers before it have closed and opened descriptors: no accept,
\* recvfrom or first recv of a pass blocks.
StillReady == watch_list \subseteq Ready

\* Messages are received whole: at every point, what has been received and what is
\* unread on a connection goes on where the last message ended, whatever portions
\* it came in.
Framed ==
  \A fd \in Connections :
    LET here == task.at = "recv" /\ task.fd = fd
        s == IF here THEN task.got \o conn[fd].unread ELSE conn[fd].unread
    IN  s # << >> =>
          IF here /\ task.part \in Commands
          THEN s[1] = <<task.part, HeaderSize + 1>>
          ELSE s[1] \in (IF fd \in data_conn_list THEN {"packet"} ELSE Commands) \X {1}

\* select never times out before the deadline that was set last: time the handlers
\* take only makes the timer late.
TimerNotEarly == [][Timeout => until = 0]_vars

Serve(fd) ==
  \/ ExistingConnection(fd)
  \/ fd = control_socket /\ NewControlConn
  \/ fd = data_socket /\ NewDataConn
  \/ fd = router_socket /\ RouterRecvHook

\* A descriptor that stays ready is served again and again, however much arrives on
\* the others, unless the router is for ever in one call: a recvALL that hangs, a
\* sendALL that does not return, or none because it has exited.
NobodyStarved ==
  \A fd \in Fds :
    <>[](fd \in Ready) => []<><<Serve(fd)>>_vars \/ <>[](Stuck \/ task.at = "send")

\* What the comments in data_recv_hook say: "Socket closed", "Remove socket".
\* Violated: recvALL does not return if the connection ends within a packet, or
\* with an error.
ClosedIsRemoved ==
  \A fd \in Fds :
    (fd \in data_conn_list /\ conn[fd].end # "open")
      ~> (fd \notin data_conn_list \/ task.at \in {"send", "exited"})
=============================================================================
