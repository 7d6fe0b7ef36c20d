---------------------------- MODULE TimeoutScan ----------------------------
(***************************************************************************)
(* One call of set_new_timeout (src/src/routing.c), entry by entry.        *)
(*                                                                         *)
(* Router and DVNetwork take the call as one step, and say what it does to *)
(* the tables by CostAfterLoss, HopAfterLoss, GivenUp and ExtraDelay: all  *)
(* the neighbours at once.  The code walks track_update_list and, inside   *)
(* the walk, unlinks entries, recomputes the routes and announces them, so *)
(* that a later entry of the list sees what an earlier one did.  This      *)
(* module is the walk; its properties are that the two agree.              *)
(*                                                                         *)
(* The call starts from arbitrary tables: whatever an UPDATE, a packet or  *)
(* an earlier call has left there.                                         *)
(***************************************************************************)
EXTENDS DistanceVector, RoutingPacket

CONSTANTS
  router_list,  \* by table_id: [router_id, router_ip]
  me,         \* this router's table_id
  nbrs,       \* router_neighbour_list
  Interval,   \* updates_periodic_interval
  StartTables,  \* orig_route_table at the start of the call
  StartCosts,   \* the cost column at the start of the call
  StartMisses   \* the miss counters at the start of the call

ASSUME ListAssumption ==
  /\ Len(router_list) = N /\ N < Short /\ Inf < Short
  /\ \A i, j \in 1 .. N :
       /\ router_list[i].router_id \in 0 .. Short-1
       /\ router_list[i].router_id = router_list[j].router_id => i = j
       /\ router_list[i].router_ip = router_list[j].router_ip => i = j
ASSUME MeAssumption == me \in Routers
ASSUME NbrsAssumption == nbrs \subseteq Routers \ {me}
ASSUME IntervalAssumption == Interval \in Nat \ {0}
ASSUME StartAssumption ==
  /\ StartTables \subseteq [Routers -> CostVector]
  /\ StartCosts \subseteq CostVector
  /\ StartMisses \subseteq [Routers -> 0 .. MissLimit-1]

NotSent == [fields |-> << >>]   \* no announcement yet

VARIABLES
  list,       \* the entries of track_update_list the walk has not reached
  tracked,    \* track_update_list
  orig, cost, hop, missed,
  late,       \* is the deadline of an entry in the past?
  next_time,  \* next_time, in seconds after now
  delay,      \* delay
  rearmed,    \* the new deadline of an entry, in seconds after now
  sent,       \* the packet sent by this call
  start       \* history: the tables at the start of the call

tables == <<orig, cost, hop>>
vars == <<list, tracked, tables, missed, late, next_time, delay, rearmed, sent, start>>

Init ==
  /\ tracked \in {T \cup {me} : T \in SUBSET nbrs}
  /\ list = tracked
  /\ orig \in StartTables
  /\ cost \in StartCosts
  /\ hop = [i \in Routers |-> i]
  /\ missed \in StartMisses
  /\ late \in {[r \in Routers |-> r \in E] : E \in SUBSET tracked}
  /\ next_time = Interval
  /\ delay = 0
  /\ rearmed = [i \in Routers |-> 0]
  /\ sent = NotSent
  /\ start = [orig |-> orig, cost |-> cost, hop |-> hop, missed |-> missed,
              tracked |-> tracked]

\* The entry the walk is at.
Here == Min(list)

Rearm_Early ==          \* Mutant: delay is increased before it is added.
  /\ next_time' = next_time + delay + 2
  /\ delay' = delay + 2
  /\ rearmed' = [rearmed EXCEPT ![Here] = next_time + delay + 2]

\* next_time.tv_sec += delay; delay += 2; the entry is re-armed.
Rearm ==
  /\ next_time' = next_time + delay
  /\ delay' = delay + 2
  /\ rearmed' = [rearmed EXCEPT ![Here] = next_time + delay]

InTime ==
  /\ ~ late[Here]
  /\ UNCHANGED <<tracked, tables, missed, next_time, delay, rearmed, sent>>

AnnounceSelf_Old ==     \* Mutant: the losses found so far are not announced.
  /\ late[Here]
  /\ Here = me
  /\ Rearm
  /\ sent' = Packet(router_list, me, start.cost)
  /\ UNCHANGED <<tracked, tables, missed>>

AnnounceSelf ==
  /\ late[Here]
  /\ Here = me
  /\ Rearm
  /\ sent' = Packet(router_list, me, cost)
  /\ UNCHANGED <<tracked, tables, missed>>

Miss ==
  /\ late[Here]
  /\ Here # me
  /\ missed[Here] + 1 < MissLimit
  /\ Rearm
  /\ missed' = [missed EXCEPT ![Here] = @ + 1]
  /\ UNCHANGED <<tracked, tables, sent>>

\* Mutant: the routes are not recomputed.
GiveUp_NoRecalculation ==
  /\ late[Here]
  /\ Here # me
  /\ missed[Here] + 1 >= MissLimit
  /\ Rearm
  /\ missed' = [missed EXCEPT ![Here] = @ + 1]
  /\ tracked' = tracked \ {Here}
  /\ orig' = [orig EXCEPT ![me][Here] = Inf]
  /\ hop' = [hop EXCEPT ![Here] = NoHop]
  /\ UNCHANGED <<cost, sent>>

\* The third miss: the link is gone, and the routes are recomputed at once.
GiveUp ==
  LET o == [orig EXCEPT ![me][Here] = Inf]
  IN  /\ late[Here]
      /\ Here # me
      /\ missed[Here] + 1 >= MissLimit
      /\ Rearm
      /\ missed' = [missed EXCEPT ![Here] = @ + 1]
      /\ tracked' = tracked \ {Here}
      /\ orig' = o
      /\ cost' = RecalculatedCost(me, nbrs, o, cost)
      /\ hop' = RecalculatedHop(me, nbrs, o, [hop EXCEPT ![Here] = NoHop])
      /\ UNCHANGED sent

Next ==
  /\ list # {}
  /\ list' = list \ {Here}
  /\ InTime \/ AnnounceSelf \/ Miss \/ GiveUp
  /\ UNCHANGED <<late, start>>

Spec == Init /\ [][Next]_vars

-----------------------------------------------------------------------------
(* Properties *)

\* The entries the walk has reached that had expired.
Reached == {r \in start.tracked \ list : late[r]}
Dropped == GivenUp(me, Reached, start.missed)

\* At every point of the walk the tables are what Router and DVNetwork say they
\* are after giving up on all the neighbours dropped so far.
TablesAgree ==
  /\ orig = WithoutLinks(me, start.orig, Dropped)
  /\ cost = CostAfterLoss(me, nbrs, start.orig, start.cost, Dropped)
  /\ hop = HopAfterLoss(me, nbrs, start.orig, start.hop, Dropped)

\* The misses, the list and the new deadlines are what Router says they are.
TimersAgree ==
  /\ missed = MissedAfter(me, Reached, start.missed)
  /\ tracked = start.tracked \ Dropped
  /\ \A r \in Reached : rearmed[r] = Interval + ExtraDelay(Reached, r)

\* The router lists other routers may have: the same entries in any order.
OtherLists ==
  {[i \in 1 .. N |-> router_list[p[i]]] :
     p \in {p \in [1 .. N -> 1 .. N] : \A i, j \in 1 .. N : p[i] = p[j] => i = j}}

\* What a receiver reads from the packet is the vector DVNetwork announces, each cost
\* in the entry of the right router, however its own list is ordered: the losses of
\* the neighbours listed before this router are in it, the later ones are not.
AnnouncementAgrees ==
  IF me \notin Reached THEN sent = NotSent
  ELSE LET vec == CostAfterLoss(me, nbrs, start.orig, start.cost, {d \in Dropped : d < me})
       IN  \A theirs \in OtherLists :
             /\ Entry(theirs, Sender(theirs, sent)) = Entry(router_list, me)
             /\ \A t, r \in Routers :
                  Entry(theirs, t) = Entry(router_list, r)
                    => Row(theirs, sent, [i \in Routers |-> Inf])[t] = vec[r]
=============================================================================
