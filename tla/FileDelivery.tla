---------------------------- MODULE FileDelivery ----------------------------
(***************************************************************************)
(* What the data plane promises of the transfers SENDFILE starts: at the   *)
(* destination each file grows packet by packet in the order of sending,   *)
(* and is closed with its last packet, never earlier and never again.      *)
(* Transfers are independent of one another.                               *)
(***************************************************************************)
EXTENDS Integers, Sequences

CONSTANTS
  Transfers,    \* the transfers
  Packets(_)    \* how many packets a transfer sends

VARIABLES
  content,      \* the packets in each file, by their numbers
  closed        \* the files closed

Init ==
  /\ content = [q \in Transfers |-> << >>]
  /\ closed = {}

Deliver(q) ==
  LET k == Len(content[q]) + 1
  IN  /\ q \notin closed
      /\ content' = [content EXCEPT ![q] = Append(@, k)]
      /\ closed' = IF k = Packets(q) THEN closed \cup {q} ELSE closed

Next == \E q \in Transfers : Deliver(q)

Spec == Init /\ [][Next]_<<content, closed>>
=============================================================================
