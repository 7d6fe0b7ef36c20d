--------------------------- MODULE RoutingPacket ---------------------------
(***************************************************************************)
(* The routing packet: written from the tables of one router               *)
(* (populate_update_routing_packet, src/src/routing.c, and                 *)
(* send_initial_routing_packet, src/src/init.c), read into those of        *)
(* another (router_recv_hook, src/src/control_handler.c, and               *)
(* update_routing_table).                                                  *)
(*                                                                         *)
(* A router_list is the sequence of the entries, by ascending table_id.    *)
(* An INIT payload may list the routers in any order, so two routers may   *)
(* number them differently; what a packet names a router by is its         *)
(* router_id, and its sender by the address.                               *)
(***************************************************************************)
EXTENDS Integers, Sequences, FiniteSetsExt

CONSTANT Short     \* 2^16: every field of a packet but an address is a short

ASSUME ShortAssumption == Short \in Nat \ {0}

TableIds(list) == 0 .. Len(list) - 1
Entry(list, t) == list[t + 1]

\* The packet of the router with table_id self, whose cost column is c.
Packet(list, self, c) ==
  [num_update_fields |-> Len(list) % Short,
   source_ip |-> Entry(list, self).router_ip,
   fields |-> [i \in 1 .. Len(list) |->
                 [router_id |-> list[i].router_id % Short, cost |-> c[i - 1] % Short]]]

\* The sender: the first entry with its address.
Sender(list, p) == Min({t \in TableIds(list) : Entry(list, t).router_ip = p.source_ip})

\* Mutant: the router_id is taken for the table_id.
TableIdOf_Position(list, f) == f.router_id % Len(list)

\* The entry a field is about: the first one with its router_id.
TableIdOf(list, f) == Min({t \in TableIds(list) : Entry(list, t).router_id = f.router_id})

\* The row of the sender after its packet: a later field for an entry overwrites an
\* earlier one, and an entry without a field keeps its cost.
Row(list, p, row) ==
  [t \in TableIds(list) |->
     LET F == {i \in 1 .. p.num_update_fields : TableIdOf(list, p.fields[i]) = t}
     IN  IF F = {} THEN row[t] ELSE p.fields[Max(F)].cost]
=============================================================================
