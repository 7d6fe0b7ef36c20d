------------------------ MODULE RouterTimers_proofs ------------------------
(***************************************************************************)
(* Theorems about the timer of Router: how late an announcement may be,    *)
(* how long a silent neighbour may stay in the list, and that select is    *)
(* never given a time-out of zero, for any number of routers, any interval *)
(* and any lateness of the loop.                                           *)
(***************************************************************************)
EXTENDS Router_proofs

-----------------------------------------------------------------------------
(* The bounds *)

\* How far ahead a deadline lies at most, with k misses since second l.  A miss
\* is noticed at most Lag seconds after select's time-out, and sets the next
\* deadline an interval and an extra delay later.
DueBound(l, k, r) == l + (k + 2) * Interval + k * (Lag + MaxDelay(r))

\* MaxDelay is the extra delay when every entry of the list has expired.
LEMMA MaxDelayProperty ==
  ASSUME TypeOK, NEW X \in SUBSET tracked, NEW r \in Routers
  PROVE  /\ MaxDelay(r) \in Nat
         /\ ExtraDelay(X, r) \in Nat
         /\ ExtraDelay(X, r) <= MaxDelay(r)
<1> DEFINE Y == nbrs \cup {me}
<1>1. Y \in SUBSET Routers /\ X \in SUBSET Y /\ X \in SUBSET Routers
  BY MeAssumption DEF TypeOK
<1>2. MaxDelay(r) = ExtraDelay(Y, r)
  BY DEF MaxDelay, ExtraDelay, Rank
<1> HIDE DEF Y
<1> QED
  BY <1>1, <1>2, ExtraDelayType, ExtraDelayMonotone

\* One more miss moves the bound by what one expiry can cost.
LEMMA DueBoundStep ==
  ASSUME NEW l \in Int, NEW k \in 0 .. 1, NEW r, MaxDelay(r) \in Nat
  PROVE  /\ DueBound(l, k, r) \in Int
         /\ DueBound(l, k + 1, r)
              = DueBound(l, k, r) + Interval + Lag + MaxDelay(r)
<1> DEFINE e == MaxDelay(r)
<1>1. Interval \in Nat /\ Lag \in Nat
  BY IntervalAssumption, ClockAssumption
<1>2. /\ DueBound(l, 0, r) = l + 2 * Interval
      /\ DueBound(l, 1, r) = l + 3 * Interval + (Lag + e)
      /\ DueBound(l, 2, r) = l + 4 * Interval + 2 * (Lag + e)
  BY <1>1 DEF DueBound
<1> HIDE DEF e
<1>3. CASE k = 0
  BY <1>1, <1>2, <1>3 DEF e
<1>4. CASE k = 1
  BY <1>1, <1>2, <1>4 DEF e
<1> QED
  BY <1>3, <1>4

-----------------------------------------------------------------------------
(* The inductive invariant: the loop is at most Lag seconds behind select's *)
(* time-out, which is never later than the deadline of the router itself    *)
(* nor than the bound of any neighbour still tracked.                       *)

\* With k misses since second l, neighbour r is checked in time.
CheckedInTime(r) ==
  /\ missed[r] \in 0 .. 2
  /\ due[r].sec <= DueBound(lastHeard[r], missed[r], r)
  /\ wake.sec <= DueBound(lastHeard[r], missed[r], r)

TimerInv ==
  flag_init = 1 =>
    /\ me \in tracked
    /\ now.sec <= wake.sec + Lag
    /\ wake.sec <= due[me].sec
    /\ due[me].sec <= lastSent + Interval + MaxDelay(me)
    /\ \A r \in tracked \ {me} : CheckedInTime(r)

\* Within the bound of its misses, a tracked neighbour is not silent for long.
LEMMA TimerInvBounds ==
  TypeOK /\ TimerInv => AnnouncedInTime /\ SilentNeighbourDropped
<1> SUFFICES ASSUME TypeOK, TimerInv, flag_init = 1
             PROVE  /\ now.sec <= lastSent + Interval + MaxDelay(me) + Lag
                    /\ \A r \in tracked \ {me} :
                         now.sec <= lastHeard[r] + 4 * Interval
                                      + 2 * MaxDelay(r) + 3 * Lag
  BY DEF AnnouncedInTime, SilentNeighbourDropped
<1>1. now.sec \in Nat /\ wake.sec \in Nat /\ lastSent \in Nat
  BY DEF TypeOK, Time
<1>2. Interval \in Nat /\ Lag \in Nat
  BY IntervalAssumption, ClockAssumption
<1>3. now.sec <= wake.sec + Lag
  BY DEF TimerInv
<1>4. now.sec <= lastSent + Interval + MaxDelay(me) + Lag
  <2>1. due[me].sec \in Nat /\ MaxDelay(me) \in Nat
    BY MeAssumption, MaxDelayProperty DEF TypeOK, Time
  <2>2. wake.sec <= due[me].sec /\ due[me].sec <= lastSent + Interval + MaxDelay(me)
    BY DEF TimerInv
  <2> QED
    BY <1>1, <1>2, <1>3, <2>1, <2>2
<1>5. ASSUME NEW r \in tracked \ {me}
      PROVE  now.sec <= lastHeard[r] + 4 * Interval + 2 * MaxDelay(r) + 3 * Lag
  <2> DEFINE e == MaxDelay(r)
             l == lastHeard[r]
             k == missed[r]
  <2>1. r \in Routers
    BY DEF TypeOK
  <2>2. e \in Nat /\ l \in Int
    BY <2>1, MaxDelayProperty DEF TypeOK
  <2>3. k \in 0 .. 2 /\ wake.sec <= DueBound(l, k, r)
    BY DEF TimerInv, CheckedInTime
  <2>4. /\ DueBound(l, 0, r) = l + 2 * Interval
        /\ DueBound(l, 1, r) = l + 3 * Interval + (Lag + e)
        /\ DueBound(l, 2, r) = l + 4 * Interval + 2 * (Lag + e)
    BY <1>2, <2>2 DEF DueBound
  <2> HIDE DEF e, l, k
  <2>5. k = 0 \/ k = 1 \/ k = 2
    BY <2>3
  <2>6. wake.sec <= l + 4 * Interval + 2 * (Lag + e)
    BY <1>1, <1>2, <2>2, <2>3, <2>4, <2>5
  <2>7. now.sec <= l + 4 * Interval + 2 * e + 3 * Lag
    BY <1>1, <1>2, <1>3, <2>2, <2>6
  <2> QED
    BY <2>7 DEF e, l
<1> QED
  BY <1>4, <1>5

-----------------------------------------------------------------------------
(* set_new_timeout *)

\* The time-out it computes is that of some entry still tracked, none of which
\* has an earlier one, and lies in the future: an expired entry is re-armed an
\* interval ahead.
LEMMA NewTimeoutIsNext ==
  ASSUME TypeOK, NEW d \in [Routers -> Time], NEW m \in [Routers -> Nat],
         SetNewTimeout(d, m)
  PROVE  /\ \A r \in tracked' : wake'.sec <= due'[r].sec
         /\ now.sec < wake'.sec
<1>1. tracked' \subseteq tracked /\ tracked \subseteq Routers
  BY MeAssumption DEF TypeOK, SetNewTimeout
<1>2. /\ due' \in [Routers -> Time] /\ now.sec \in Nat
      /\ Interval \in Nat \ {0}
  BY SetNewTimeoutType, IntervalAssumption DEF TypeOK, Time
<1>3. PICK r \in tracked' :
        /\ \A q \in tracked' : ~ Earlier(due'[q], due'[r])
        /\ wake' = due'[r]
  BY DEF SetNewTimeout
<1>4. ASSUME NEW q \in tracked' PROVE wake'.sec <= due'[q].sec
  <2>1. ~ Earlier(due'[q], due'[r])
    BY <1>3
  <2>2. due'[q] \in Time /\ due'[r] \in Time
    BY <1>1, <1>2, <1>3
  <2> QED
    BY <1>3, <2>1, <2>2 DEF Earlier, Time
<1>5. now.sec < due'[r].sec
  <2>1. r \in Routers /\ due'[r] = NextDue(d, r)
    BY <1>1, <1>3 DEF SetNewTimeout
  <2>2. CASE r \in Expired(d)
    <3>1. ExtraDelay(Expired(d), r) \in Nat
      BY <2>1, MaxDelayProperty DEF Expired
    <3>2. due'[r].sec = now.sec + (Interval + ExtraDelay(Expired(d), r))
      BY <2>1, <2>2 DEF NextDue, After, TypeOK, Time
    <3> QED
      BY <1>2, <3>1, <3>2
  <2>3. CASE r \notin Expired(d)
    <3>1. due'[r] = d[r] /\ d[r].sec \in Nat
      BY <2>1, <2>3 DEF NextDue, Time
    <3>2. ~ (d[r].sec <= now.sec)
      BY <1>1, <1>3, <2>3 DEF Expired
    <3> QED
      BY <1>2, <3>1, <3>2
  <2> QED
    BY <2>2, <2>3
<1> QED
  BY <1>3, <1>4, <1>5

\* It establishes the timer invariant from deadlines within their bounds, if the
\* loop is not late by more than Lag.
LEMMA SetNewTimeoutTimers ==
  ASSUME TypeOK, NEW d \in [Routers -> Time], NEW m \in [Routers -> Nat],
         NEW l \in [Routers -> Int],
         SetNewTimeout(d, m), UNCHANGED <<flag_init, nbrs, now>>, lastHeard' = l,
         me \in tracked, now.sec <= wake.sec + Lag,
         d[me].sec <= lastSent + Interval + MaxDelay(me),
         \A r \in tracked \ {me} :
           /\ m[r] \in 0 .. 2
           /\ d[r].sec <= DueBound(l[r], m[r], r)
           /\ r \in Expired(d) => wake.sec <= DueBound(l[r], m[r], r)
  PROVE  TimerInv'
<1> DEFINE X == Expired(d)
<1>1. X \in SUBSET tracked /\ tracked \in SUBSET Routers /\ me \in Routers
  BY MeAssumption DEF Expired, TypeOK
<1>2. /\ now.sec \in Nat /\ wake.sec \in Nat /\ Interval \in Nat /\ Lag \in Nat
      /\ lastSent \in Nat
  BY IntervalAssumption, ClockAssumption DEF TypeOK, Time
<1>3. /\ \A r \in tracked' : wake'.sec <= due'[r].sec
      /\ now.sec < wake'.sec
  BY NewTimeoutIsNext
<1>4. due' \in [Routers -> Time] /\ wake' \in Time /\ tracked' \subseteq tracked
  BY SetNewTimeoutType
<1>5. \A r \in Routers : /\ MaxDelay(r)' = MaxDelay(r)
                         /\ MaxDelay(r) \in Nat
                         /\ ExtraDelay(X, r) \in Nat
                         /\ ExtraDelay(X, r) <= MaxDelay(r)
  <2> TAKE r \in Routers
  <2>1. MaxDelay(r)' = MaxDelay(r)
    BY DEF MaxDelay
  <2> QED
    BY <1>1, <2>1, MaxDelayProperty
<1>6. ASSUME NEW r \in Routers
      PROVE  /\ r \in X => due'[r].sec = now.sec + Interval + ExtraDelay(X, r)
             /\ r \notin X => due'[r] = d[r]
  <2>1. due'[r] = NextDue(d, r)
    BY DEF SetNewTimeout
  <2>2. CASE r \in X
    <3>1. due'[r].sec = now.sec + (Interval + ExtraDelay(X, r))
      BY <2>1, <2>2 DEF NextDue, After, TypeOK, Time
    <3> QED
      BY <1>2, <1>5, <2>2, <3>1
  <2> QED
    BY <2>1, <2>2 DEF NextDue
<1>7. me \in tracked'
  BY DEF SetNewTimeout, GivenUp
<1>8. now'.sec <= wake'.sec + Lag
  BY <1>2, <1>3, <1>4 DEF Time
<1>9. due'[me].sec <= lastSent' + Interval + MaxDelay(me)'
  <2>1. CASE me \in X
    <3>1. lastSent' = now.sec
      BY <2>1 DEF SetNewTimeout
    <3> HIDE DEF X
    <3> QED
      BY <1>1, <1>2, <1>5, <1>6, <2>1, <3>1
  <2>2. CASE me \notin X
    <3>1. lastSent' = lastSent
      BY <2>2 DEF SetNewTimeout
    <3> QED
      BY <1>1, <1>5, <1>6, <2>2, <3>1
  <2> QED
    BY <2>1, <2>2
<1>10. ASSUME NEW r \in tracked' \ {me}
       PROVE  CheckedInTime(r)'
  <2>1. r \in Routers /\ r \in tracked \ {me}
    BY <1>1, <1>4
  <2>2. /\ m[r] \in 0 .. 2
        /\ d[r].sec <= DueBound(l[r], m[r], r)
        /\ r \in X => wake.sec <= DueBound(l[r], m[r], r)
    BY <2>1
  <2>4. wake'.sec <= due'[r].sec /\ wake'.sec \in Nat /\ due'[r].sec \in Nat
    BY <1>3, <1>4, <2>1 DEF Time
  <2>5. SUFFICES /\ missed'[r] \in 0 .. 2
                 /\ due'[r].sec <= DueBound(l[r], missed'[r], r)
                 /\ DueBound(l[r], missed'[r], r) \in Int
    BY <1>5, <2>1, <2>4 DEF CheckedInTime, DueBound
  <2>6. CASE r \notin X
    <3>1. missed'[r] = m[r] /\ due'[r] = d[r]
      BY <1>6, <2>1, <2>6 DEF SetNewTimeout, MissedAfter
    <3>2. DueBound(l[r], m[r], r) \in Int
      BY <1>2, <1>5, <2>1, <2>2 DEF DueBound
    <3> QED
      BY <2>2, <3>1, <3>2
  <2>7. CASE r \in X
    <3>1. missed'[r] = m[r] + 1
      BY <2>1, <2>7 DEF SetNewTimeout, MissedAfter
    <3>2. m[r] \in 0 .. 1
      BY <2>1, <2>2, <2>7 DEF SetNewTimeout, GivenUp, MissLimit
    <3>3. /\ DueBound(l[r], m[r], r) \in Int
          /\ DueBound(l[r], m[r] + 1, r)
               = DueBound(l[r], m[r], r) + Interval + Lag + MaxDelay(r)
      BY <1>5, <2>1, <3>2, DueBoundStep
    <3>4. due'[r].sec = now.sec + Interval + ExtraDelay(X, r)
      BY <1>6, <2>1, <2>7
    <3>5. now.sec <= DueBound(l[r], m[r], r) + Lag
      BY <1>2, <2>2, <2>7, <3>3
    <3>6. /\ ExtraDelay(X, r) \in Nat /\ MaxDelay(r) \in Nat
          /\ ExtraDelay(X, r) <= MaxDelay(r)
      BY <1>5, <2>1
    <3> HIDE DEF X
    <3>7. due'[r].sec <= DueBound(l[r], m[r] + 1, r)
      BY <1>2, <3>3, <3>4, <3>5, <3>6
    <3>8. DueBound(l[r], m[r] + 1, r) \in Int
      BY <1>2, <3>3, <3>6
    <3> QED
      BY <3>1, <3>2, <3>7, <3>8
  <2> QED
    BY <2>6, <2>7
<1> QED
  BY <1>3, <1>7, <1>8, <1>9, <1>10 DEF TimerInv

-----------------------------------------------------------------------------
(* The actions *)

\* INIT arms the timer one interval ahead.
LEMMA InitResponseTimers == TypeOK /\ InitResponse => TimerInv'
<1> SUFFICES ASSUME TypeOK, InitResponse PROVE TimerInv'
  OBVIOUS
<1>1. now.sec \in Nat /\ Interval \in Nat /\ Lag \in Nat /\ me \in Routers
  BY IntervalAssumption, ClockAssumption, MeAssumption DEF TypeOK, Time
<1>2. /\ now' = now /\ lastSent' = now.sec
      /\ wake' = After(now, Interval) /\ wake'.sec = now.sec + Interval
      /\ due'[me] = wake'
  BY <1>1 DEF InitResponse, After, TypeOK, Time
<1>3. TypeOK'
  BY InitResponseTypeOK
<1>4. me \in tracked'
  BY <1>1, InitCostsAssumption, InfAssumption DEF InitResponse, Watched
<1>5. MaxDelay(me)' \in Nat
  <2>1. /\ nbrs' \cup {me} \in SUBSET Routers
        /\ MaxDelay(me)' = ExtraDelay(nbrs' \cup {me}, me)
    BY <1>1, <1>3 DEF TypeOK, MaxDelay, ExtraDelay, Rank
  <2> QED
    BY <1>1, <2>1, ExtraDelayType
<1>6. ASSUME NEW r \in tracked' \ {me}
      PROVE  CheckedInTime(r)'
  <2>1. r \in Routers
    BY <1>1, <1>3 DEF TypeOK
  <2>2. missed'[r] = 0 /\ lastHeard'[r] = now.sec - Interval /\ due'[r] = Zero
    BY <2>1 DEF InitResponse
  <2>3. MaxDelay(r)' \in Nat
    <3>1. /\ nbrs' \cup {me} \in SUBSET Routers
          /\ MaxDelay(r)' = ExtraDelay(nbrs' \cup {me}, r)
      BY <1>1, <1>3 DEF TypeOK, MaxDelay, ExtraDelay, Rank
    <3> QED
      BY <2>1, <3>1, ExtraDelayType
  <2>4. DueBound(lastHeard[r], missed[r], r)' = now.sec + Interval
    BY <1>1, <2>2, <2>3 DEF DueBound
  <2> QED
    BY <1>1, <1>2, <2>2, <2>4 DEF CheckedInTime, Zero
<1> QED
  BY <1>1, <1>2, <1>4, <1>5, <1>6 DEF TimerInv

\* The timer itself.
LEMMA TimeoutTimers == TypeOK /\ TimerInv /\ Timeout => TimerInv'
<1> SUFFICES ASSUME TypeOK, TimerInv, Timeout PROVE TimerInv'
  OBVIOUS
<1>1. /\ due \in [Routers -> Time] /\ missed \in [Routers -> Nat]
      /\ lastHeard \in [Routers -> Int] /\ wake.sec \in Nat
      /\ flag_init = 1 /\ SetNewTimeout(due, missed)
      /\ UNCHANGED <<flag_init, nbrs, now>> /\ lastHeard' = lastHeard
  BY DEF TypeOK, Timeout, Time
<1>2. /\ me \in tracked
      /\ now.sec <= wake.sec + Lag
      /\ due[me].sec <= lastSent + Interval + MaxDelay(me)
      /\ \A r \in tracked \ {me} :
           /\ missed[r] \in 0 .. 2
           /\ due[r].sec <= DueBound(lastHeard[r], missed[r], r)
           /\ wake.sec <= DueBound(lastHeard[r], missed[r], r)
  BY <1>1 DEF TimerInv, CheckedInTime
<1> QED
  BY <1>1, <1>2, SetNewTimeoutTimers

\* A packet re-arms its sender two intervals before it would be missed.
LEMMA UpdateRoutingTableTimers ==
  ASSUME TypeOK, TimerInv, NEW s \in nbrs, NEW vec \in Vectors[s],
         UpdateRoutingTable(s, vec)
  PROVE  TimerInv'
<1> DEFINE d == [due EXCEPT ![s] = After(now, Interval)]
           m == [missed EXCEPT ![s] = 0]
           l == [lastHeard EXCEPT ![s] = now.sec]
<1>1. /\ flag_init = 1 /\ SetNewTimeout(d, m)
      /\ UNCHANGED <<flag_init, nbrs, now>> /\ lastHeard' = l
  BY DEF UpdateRoutingTable
<1>2. /\ s \in Routers /\ s # me /\ now.sec \in Nat /\ Interval \in Nat \ {0}
      /\ me \in Routers
  BY IntervalAssumption, MeAssumption DEF TypeOK, Time
<1>3. /\ d \in [Routers -> Time]
      /\ m \in [Routers -> Nat]
      /\ l \in [Routers -> Int]
  BY <1>2, AfterType DEF TypeOK
<1>4. /\ me \in tracked
      /\ now.sec <= wake.sec + Lag
      /\ due[me].sec <= lastSent + Interval + MaxDelay(me)
      /\ \A r \in tracked \ {me} : CheckedInTime(r)
  BY <1>1 DEF TimerInv
<1>5. d[me] = due[me]
  BY <1>2 DEF TypeOK
<1>6. ASSUME NEW r \in tracked \ {me}
      PROVE  /\ m[r] \in 0 .. 2
             /\ d[r].sec <= DueBound(l[r], m[r], r)
             /\ r \in Expired(d) => wake.sec <= DueBound(l[r], m[r], r)
  <2>1. r \in Routers /\ CheckedInTime(r)
    BY <1>4 DEF TypeOK
  <2>2. CASE r # s
    <3>1. m[r] = missed[r] /\ l[r] = lastHeard[r] /\ d[r] = due[r]
      BY <2>1, <2>2 DEF TypeOK
    <3> QED
      BY <2>1, <3>1 DEF CheckedInTime
  <2>3. CASE r = s
    <3>1. m[r] = 0 /\ l[r] = now.sec /\ d[r] = After(now, Interval)
      BY <1>2, <2>3 DEF TypeOK
    <3>2. d[r].sec = now.sec + Interval
      BY <3>1 DEF After, TypeOK, Time
    <3>3. r \notin Expired(d)
      BY <1>2, <3>2 DEF Expired
    <3>4. DueBound(l[r], m[r], r) = now.sec + 2 * Interval
      <4>1. MaxDelay(r) \in Nat
        BY <2>1, MaxDelayProperty
      <4> QED
        BY <1>2, <3>1, <4>1, ClockAssumption DEF DueBound
    <3> QED
      BY <1>2, <3>1, <3>2, <3>3, <3>4
  <2> QED
    BY <2>2, <2>3
<1> HIDE DEF d, m, l
<1> QED
  BY <1>1, <1>3, <1>4, <1>5, <1>6, SetNewTimeoutTimers

\* The clock stops Lag seconds after the time-out: before the time-out, the next
\* second starts only when the time-out lies in it or later.
LEMMA TickTimers == TypeOK /\ TimerInv /\ Tick => TimerInv'
<1> SUFFICES ASSUME TypeOK, TimerInv, Tick, flag_init = 1 PROVE TimerInv'
  BY DEF Tick, TimerInv
<1>1. UNCHANGED <<flag_init, nbrs, tracked, missed, due, wake, lastHeard, lastSent>>
  BY DEF Tick, timers, history
<1>2. now'.sec <= wake.sec + Lag
  <2>1. /\ now \in Time /\ wake \in Time /\ USec \in Nat \ {0} /\ Lag \in Nat
    BY ClockAssumption DEF TypeOK
  <2>2. CASE now.usec + 1 < USec
    <3>1. now'.sec = now.sec
      BY <2>1, <2>2 DEF Tick, Time
    <3> QED
      BY <3>1 DEF TimerInv
  <2>3. CASE ~ (now.usec + 1 < USec)
    <3>1. now'.sec = now.sec + 1
      BY <2>3 DEF Tick
    <3>2. ~ (now.usec < wake.usec)
      BY <2>1, <2>3 DEF Time
    <3>3. now.sec < wake.sec \/ now.sec < wake.sec + Lag
      BY <3>2 DEF Tick, Earlier
    <3> QED
      BY <2>1, <3>1, <3>3 DEF Time
  <2> QED
    BY <2>2, <2>3
<1>3. \A r : MaxDelay(r)' = MaxDelay(r)
  BY <1>1 DEF MaxDelay
<1>4. \A r \in tracked \ {me} : CheckedInTime(r)'
  BY <1>1, <1>3 DEF TimerInv, CheckedInTime, DueBound
<1> QED
  BY <1>1, <1>2, <1>3, <1>4 DEF TimerInv

\* A step that leaves the clock and the timers alone.
LEMMA OtherTimers ==
  ASSUME TimerInv,
         UNCHANGED <<flag_init, nbrs, tracked, timers, now, history>>
  PROVE  TimerInv'
<1>1. UNCHANGED <<flag_init, nbrs, tracked, missed, due, wake, now,
                  lastHeard, lastSent>>
  BY DEF timers, history
<1>2. \A r : MaxDelay(r)' = MaxDelay(r)
  BY <1>1 DEF MaxDelay
<1>3. flag_init = 1 => \A r \in tracked \ {me} : CheckedInTime(r)'
  BY <1>1, <1>2 DEF TimerInv, CheckedInTime, DueBound
<1> QED
  BY <1>1, <1>2, <1>3 DEF TimerInv

\* Every step keeps the timers in time.
LEMMA NextTimers == TypeOK /\ TimerInv /\ [Next]_vars => TimerInv'
<1> SUFFICES ASSUME TypeOK, TimerInv, [Next]_vars PROVE TimerInv'
  OBVIOUS
<1>1. CASE InitResponse
  BY <1>1, InitResponseTimers
<1>2. CASE Timeout
  BY <1>2, TimeoutTimers
<1>3. ASSUME NEW s \in nbrs, NEW vec \in Vectors[s], UpdateRoutingTable(s, vec)
      PROVE  TimerInv'
  BY <1>3, UpdateRoutingTableTimers
<1>4. ASSUME NEW r \in nbrs, NEW c \in NewCosts, UpdateResponse(r, c)
      PROVE  TimerInv'
  BY <1>4, OtherTimers DEF UpdateResponse
<1>5. CASE Tick
  BY <1>5, TickTimers
<1>6. CASE UNCHANGED vars
  BY <1>6, OtherTimers DEF vars
<1> QED
  BY <1>1, <1>2, <1>3, <1>4, <1>5, <1>6 DEF Next

-----------------------------------------------------------------------------
(* The theorems *)

\* The timers are in time in every reachable state.
LEMMA TimersInTime == Spec => [](TypeOK /\ TimerInv)
<1>1. Init => TimerInv
  BY DEF Init, TimerInv
<1>2. TypeOK /\ TimerInv /\ [Next]_vars => TimerInv'
  BY NextTimers
<1> QED
  BY TypeCorrect, <1>1, <1>2, PTL DEF Spec

\* The router announces its vector in bounded time, however the expiries of its
\* neighbours, their packets and the controller's commands fall: no packet
\* postpones an announcement for ever.
THEOREM AlwaysAnnouncedInTime == Spec => []AnnouncedInTime
BY TimersInTime, TimerInvBounds, PTL

\* A neighbour from which nothing comes is given up on in bounded time, even when
\* other neighbours' packets reset the timer again and again.
THEOREM SilentNeighboursDropped == Spec => []SilentNeighbourDropped
BY TimersInTime, TimerInvBounds, PTL

\* What TimeoutPositive says of one step.
NewTimeoutPositive == wake' # wake => Earlier(now', wake')

\* Every new time-out lies in the future.
LEMMA NextTimeoutPositive == TypeOK /\ [Next]_vars => NewTimeoutPositive
<1> SUFFICES ASSUME TypeOK, [Next]_vars, wake' # wake
             PROVE  Earlier(now', wake')
  BY DEF NewTimeoutPositive
<1>1. CASE InitResponse
  <2>1. wake'.sec = now.sec + Interval /\ now' = now
    BY <1>1 DEF InitResponse, After, TypeOK, Time
  <2> QED
    BY <2>1, IntervalAssumption DEF Earlier, TypeOK, Time
<1>2. CASE Timeout
  <2>1. SetNewTimeout(due, missed) /\ now' = now
    BY <1>2 DEF Timeout
  <2>2. now.sec < wake'.sec
    BY <2>1, NewTimeoutIsNext DEF TypeOK
  <2> QED
    BY <2>1, <2>2 DEF Earlier
<1>3. ASSUME NEW s \in nbrs, NEW vec \in Vectors[s], UpdateRoutingTable(s, vec)
      PROVE  Earlier(now', wake')
  <2> DEFINE d == [due EXCEPT ![s] = After(now, Interval)]
             m == [missed EXCEPT ![s] = 0]
  <2>1. SetNewTimeout(d, m) /\ now' = now
    BY <1>3 DEF UpdateRoutingTable
  <2>2. d \in [Routers -> Time] /\ m \in [Routers -> Nat]
    BY AfterType, IntervalAssumption DEF TypeOK
  <2>3. now.sec < wake'.sec
    BY <2>1, <2>2, NewTimeoutIsNext
  <2> QED
    BY <2>1, <2>3 DEF Earlier
<1>4. CASE UNCHANGED wake
  BY <1>4
<1>5. ASSUME NEW r \in nbrs, NEW c \in NewCosts, UpdateResponse(r, c)
      PROVE  UNCHANGED wake
  BY <1>5 DEF UpdateResponse, timers
<1>6. CASE Tick
  BY <1>6 DEF Tick, timers
<1>7. CASE UNCHANGED vars
  BY <1>7 DEF vars, timers
<1> QED
  BY <1>1, <1>2, <1>3, <1>4, <1>5, <1>6, <1>7 DEF Next

\* The time-out handed to select is never zero or past: the unsigned arithmetic
\* of set_new_timeout, whose tests for a negative time never fire, does not wrap.
THEOREM TimeoutsPositive == Spec => TimeoutPositive
<1>1. TypeOK /\ [Next]_vars => [NewTimeoutPositive]_vars
  BY NextTimeoutPositive
<1>2. [NewTimeoutPositive]_vars <=> [wake' # wake => Earlier(now', wake')]_vars
  BY DEF NewTimeoutPositive
<1> QED
  BY TypeCorrect, <1>1, <1>2, PTL DEF Spec, TimeoutPositive
=============================================================================
