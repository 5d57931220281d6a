---------------------------- MODULE Cover_proofs ----------------------------
(***************************************************************************)
(* Safety of the cover cluster, for every travel time, deadzone, pause and *)
(* resolution of the position; then of the cluster in manual mode, against *)
(* MotorProtection, and of the cluster with its shade, CoverPlant.         *)
(*                                                                         *)
(* The inductive invariant IInv is a predicate on one cluster state, so    *)
(* each C function has one lemma: it takes cluster states in the invariant *)
(* to cluster states in it.  Within a function the supervision of the      *)
(* motor is broken for a while (its tasks are cancelled first), so the     *)
(* lemmas on the inner functions rest on the part of it named Core.        *)
(*                                                                         *)
(* What is said of the cluster alone uses ConstantsAssumption only; the    *)
(* theorems on its use name what they need of the travel times: KeptManual *)
(* that there are none, CalibrationKept that they stay those of the shade. *)
(***************************************************************************)
EXTENDS CoverManual, CoverPlant, TLAPS

\* The arithmetic facts about the derived constants that the provers need by name.
LEMMA ConstantTypes ==
  /\ MaxPct \in Nat /\ MaxPct > 0
  /\ MaxMotorPosition \in Nat /\ MaxMotorPosition > 0
  /\ Off = -1
  /\ ActionStop = MaxMotorPosition + 1 /\ ActionNone = MaxMotorPosition + 2
<1>1. MaxPct \in Nat /\ MaxPct > 0 /\ BpPerPct \in Nat /\ BpPerPct > 0
  BY ConstantsAssumption
<1>2. \A m, n \in Nat : m > 0 /\ n > 0 => m * n \in Nat /\ m * n > 0
  OBVIOUS
<1> QED
  BY <1>1, <1>2 DEF MaxMotorPosition, Off, ActionStop, ActionNone

\* A quotient of natural numbers is a natural number.
LEMMA DivNat ==
  ASSUME NEW m \in Nat, NEW n \in Nat, n > 0
  PROVE  m \div n \in Nat
OBVIOUS

\* Scaling by a ratio of at most one, as the position conversions do, never exceeds
\* the range it scales into.
LEMMA DivBound ==
  ASSUME NEW x \in Nat, NEW y \in Nat, NEW m \in Nat, y > 0, x <= y
  PROVE  (x * m) \div y \in 0 .. m
<1> DEFINE q == (x * m) \div y
<1>1. x * m \in Nat /\ x * m <= y * m /\ y * m \in Nat
  OBVIOUS
<1>2. q \in Nat /\ q * y <= x * m
  BY <1>1
<1>3. q * y <= m * y
  BY <1>1, <1>2
<1>4. q <= m
  <2> SUFFICES ASSUME q > m PROVE FALSE
    BY <1>2
  <2>1. q >= m + 1
    BY <1>2
  <2>2. q * y >= (m + 1) * y
    BY <2>1, <1>2
  <2>3. (m + 1) * y = m * y + y
    OBVIOUS
  <2> QED
    BY <2>2, <2>3, <1>3, <1>2
<1> QED
  BY <1>2, <1>4

-----------------------------------------------------------------------------
(* The inductive invariant, on any cluster state.                          *)

Core(k) ==
  /\ k \in ClusterState
  /\ ~(k.open_relay /\ k.close_relay)
  /\ (k.open_relay \/ k.close_relay) <=> (k.moving # Stopped)
  /\ k.pending_action # ActionNone <=> k.delay_task # Off
  /\ k.delay_task # Off => k.delay_task + k.since_switch <= RelayMinSwitch
  /\ k.reported = [moving |-> k.moving, position |-> k.position]

Supervised(k) ==
  /\ k.moving # Stopped <=> k.stop_task # Off
  /\ k.update_task # Off => k.moving # Stopped

IInv(k) == Core(k) /\ Supervised(k)

\* What a refresh of the position leaves alone.
SameMotion(k, u) ==
  /\ u.moving = k.moving /\ u.motor_reversal = k.motor_reversal
  /\ u.open_time = k.open_time /\ u.close_time = k.close_time
  /\ u.target_motor_position = k.target_motor_position
  /\ u.pending_action = k.pending_action /\ u.delay_task = k.delay_task
  /\ u.since_switch = k.since_switch
  /\ u.stop_task = k.stop_task /\ u.update_task = k.update_task
  /\ u.open_relay = k.open_relay /\ u.close_relay = k.close_relay

\* The capped deadzones never cross each other: the effective range is not negative.
LEMMA Edges ==
  ASSUME NEW k, k.open_deadzone \in 0 .. MaxDeadzone,
         k.closed_deadzone \in 0 .. MaxDeadzone
  PROVE  /\ ClosedEdge(k) \in Nat /\ OpenEdge(k) \in Nat
         /\ ClosedEdge(k) <= OpenEdge(k) /\ OpenEdge(k) <= MaxMotorPosition
<1> DEFINE a == k.open_deadzone
           b == k.closed_deadzone
<1>1. /\ a \in Nat /\ b \in Nat /\ a + b <= MaxPct
      /\ MaxPct \in Nat /\ BpPerPct \in Nat /\ a <= MaxPct /\ b <= MaxPct
  BY ConstantsAssumption
<1> HIDE DEF a, b
<1>2. /\ a * BpPerPct \in Nat /\ b * BpPerPct \in Nat /\ MaxPct * BpPerPct \in Nat
      /\ (a + b) * BpPerPct <= MaxPct * BpPerPct
      /\ (a + b) * BpPerPct = a * BpPerPct + b * BpPerPct
  BY <1>1
<1> QED
  BY <1>2 DEF ClosedEdge, OpenEdge, MaxMotorPosition, a, b

\* motor_to_cover_position returns a percentage, whatever the deadzones.
LEMMA CoverPositionInRange ==
  ASSUME NEW k, k.open_deadzone \in 0 .. MaxDeadzone,
         k.closed_deadzone \in 0 .. MaxDeadzone, k.motor_position \in MotorPosition
  PROVE  MotorToCoverPosition(k) \in 0 .. MaxPct
<1> DEFINE mp == k.motor_position
           lo == ClosedEdge(k)
           hi == OpenEdge(k)
<1>1. lo \in Nat /\ hi \in Nat /\ mp \in Nat /\ MaxPct \in Nat
  BY Edges, ConstantTypes DEF MotorPosition
<1>2. CASE mp < hi /\ mp > lo
  <2>1. mp - lo \in Nat /\ hi - lo \in Nat /\ hi - lo > 0 /\ mp - lo <= hi - lo
    BY <1>1, <1>2
  <2>2. ((mp - lo) * MaxPct) \div (hi - lo) \in 0 .. MaxPct
    BY <2>1, <1>1, DivBound
  <2> QED
    BY <1>1, <1>2, <2>2 DEF MotorToCoverPosition
<1>3. CASE ~(mp < hi /\ mp > lo)
  BY <1>1, <1>3 DEF MotorToCoverPosition
<1> QED
  BY <1>2, <1>3

\* cover_to_motor_position returns a motor position, even for an argument above 100 %.
LEMMA MotorTargetInRange ==
  ASSUME NEW k, k.open_deadzone \in 0 .. MaxDeadzone,
         k.closed_deadzone \in 0 .. MaxDeadzone, NEW lift \in Nat
  PROVE  CoverToMotorPosition(k, lift) \in MotorPosition
<1> DEFINE lo == ClosedEdge(k)
           span == OpenEdge(k) - lo
<1>1. /\ lo \in Nat /\ span \in Nat /\ lo + span <= MaxMotorPosition
      /\ MaxPct \in Nat /\ MaxPct > 0 /\ MaxMotorPosition \in Nat
  BY Edges, ConstantTypes
<1>2. CASE lift < MaxPct
  <2>1. (lift * span) \div MaxPct \in 0 .. span
    BY <1>1, <1>2, DivBound
  <2> QED
    BY <1>1, <1>2, <2>1 DEF CoverToMotorPosition, MotorPosition
<1>3. CASE lift >= MaxPct
  BY <1>1, <1>3 DEF CoverToMotorPosition, MotorPosition
<1> QED
  BY <1>1, <1>2, <1>3

\* Setting the motor position keeps the core invariant and the motion.
LEMMA SetPositionCore ==
  ASSUME NEW k, Core(k), NEW mp \in MotorPosition
  PROVE  /\ Core(SetPosition(k, mp)) /\ SameMotion(k, SetPosition(k, mp))
         /\ SetPosition(k, mp).motor_position = mp
<1> DEFINE moved == [k EXCEPT !.motor_position = mp]
           pos == MotorToCoverPosition(moved)
<1>1. /\ moved \in ClusterState /\ moved.motor_position = mp
      /\ moved.open_deadzone = k.open_deadzone
      /\ moved.closed_deadzone = k.closed_deadzone
  BY DEF Core, ClusterState
<1>2. pos \in 0 .. MaxPct
  <2>1. /\ moved.open_deadzone \in 0 .. MaxDeadzone
        /\ moved.closed_deadzone \in 0 .. MaxDeadzone
    BY <1>1 DEF ClusterState
  <2> QED
    BY <1>1, <2>1, CoverPositionInRange
<1> HIDE DEF pos
<1>3. SetPosition(k, mp) = IF pos = k.position THEN moved
      ELSE [moved EXCEPT !.position = pos, !.reported.position = pos]
  BY DEF SetPosition, pos
<1>4. CASE pos = k.position
  BY <1>3, <1>4 DEF Core, ClusterState, SameMotion
<1>5. CASE pos # k.position
  <2> DEFINE v == [moved EXCEPT !.position = pos, !.reported.position = pos]
  <2>1. v.reported = [k.reported EXCEPT !.position = pos]
    BY DEF Core, ClusterState
  <2>2. v.reported = [moving |-> k.moving, position |-> pos]
    BY <2>1 DEF Core
  <2>3. v \in ClusterState
    BY <1>2, <2>2 DEF Core, ClusterState
  <2>4. v.position = pos /\ SameMotion(k, v) /\ v.motor_position = mp
    BY DEF Core, ClusterState, SameMotion
  <2>5. Core(v)
    BY <2>2, <2>3, <2>4 DEF Core, SameMotion
  <2> QED
    BY <1>3, <1>5, <2>4, <2>5
<1> QED
  BY <1>4, <1>5

\* Dead reckoning is clamped to the ends of the travel, in both directions.
LEMMA EstimateInRange ==
  ASSUME NEW k \in ClusterState
  PROVE  EstimatedPosition(k) \in MotorPosition
<1> DEFINE d == TravelledDistance(k)
<1>1. d \in Nat
  <2>1. TravelTime(k, k.moving) \in Nat
    BY DEF TravelTime, ClusterState
  <2>2. k.elapsed * MaxMotorPosition \in Nat
    BY ConstantTypes DEF ClusterState
  <2> QED
    BY <2>1, <2>2, ConstantTypes DEF TravelledDistance
<1> HIDE DEF d
<1>2. k.start_motor_position \in MotorPosition
  BY DEF ClusterState
<1> QED
  BY <1>1, <1>2, ConstantTypes DEF EstimatedPosition, MotorPosition, d

\* cover_update_position keeps the core invariant and changes positions only.
LEMMA UpdatePositionCore ==
  ASSUME NEW k, Core(k)
  PROVE  /\ Core(UpdatePosition(k)) /\ SameMotion(k, UpdatePosition(k))
         /\ k.moving # Stopped => UpdatePosition(k).motor_position = EstimatedPosition(k)
<1>1. CASE k.moving = Stopped
  BY <1>1 DEF UpdatePosition, SameMotion
<1>2. CASE k.moving # Stopped
  BY <1>2, EstimateInRange, SetPositionCore DEF UpdatePosition, Core
<1> QED
  BY <1>1, <1>2

\* cover_schedule_next_update schedules a delay the task can represent.
LEMMA IntervalNat ==
  ASSUME NEW k, k.open_time \in Nat, k.close_time \in Nat, NEW dir
  PROVE  UpdateInterval(k, dir) \in Nat
<1>1. TravelTime(k, dir) \in Nat
  BY DEF TravelTime
<1>2. UpdateShare \in Nat /\ UpdateShare > 0 /\ MinUpdate \in Nat
  BY ConstantsAssumption
<1>3. TravelTime(k, dir) \div UpdateShare \in Nat
  BY <1>1, <1>2
<1> QED
  BY <1>2, <1>3 DEF UpdateInterval

\* SetMoving written without the nested update, as the SMT solver wants it.
LEMMA SetMovingFlat ==
  ASSUME NEW k, k.reported = [moving |-> k.reported.moving, position |-> k.position],
         NEW dir
  PROVE  SetMoving(k, dir) =
           [k EXCEPT !.moving = dir, !.since_switch = 0,
                     !.reported = [moving |-> dir, position |-> k.position]]
<1>1. [k.reported EXCEPT !.moving = dir] = [moving |-> dir, position |-> k.position]
  OBVIOUS
<1>2. SetMoving(k, dir) =
        [k EXCEPT !.moving = dir, !.since_switch = 0,
                  !.reported = [k.reported EXCEPT !.moving = dir]]
  BY DEF SetMoving
<1> QED
  BY <1>1, <1>2

\* Once its tasks are cancelled, halting the motor re-establishes the invariant.
LEMMA HaltMotorInv ==
  ASSUME NEW k, Core(k), k.stop_task = Off, k.update_task = Off
  PROVE  /\ IInv(HaltMotor(k))
         /\ HaltMotor(k).pending_action = k.pending_action
         /\ HaltMotor(k).delay_task = k.delay_task
         /\ HaltMotor(k).moving = Stopped /\ HaltMotor(k).since_switch = 0
         /\ HaltMotor(k).target_motor_position = k.target_motor_position
<1> DEFINE r == [k EXCEPT !.open_relay = FALSE, !.close_relay = FALSE]
           rep == [moving |-> Stopped, position |-> k.position]
<1>1. /\ r.position = k.position
      /\ r.reported = [moving |-> r.reported.moving, position |-> r.position]
  BY DEF Core, ClusterState
<1>2. HaltMotor(k) = [r EXCEPT !.moving = Stopped, !.since_switch = 0, !.reported = rep]
  BY <1>1, SetMovingFlat DEF HaltMotor
<1>3. rep \in [moving: {Stopped, Opening, Closing}, position: 0 .. MaxPct]
  BY DEF Core, ClusterState
<1> HIDE DEF rep
<1>4. RelayMinSwitch \in Nat
  BY ConstantsAssumption
<1>5. HaltMotor(k) \in ClusterState
  <2>1. r \in ClusterState
    BY DEF Core, ClusterState
  <2> HIDE DEF r
  <2>2. Stopped \in {Stopped, Opening, Closing} /\ 0 \in 0 .. RelayMinSwitch
    BY <1>4
  <2> QED
    BY <1>2, <1>3, <2>1, <2>2 DEF ClusterState
<1> QED
  BY <1>2, <1>4, <1>5 DEF Core, IInv, Supervised, ClusterState, Timer, rep, Off

\* Switching the relays to a direction keeps the core invariant for either wiring.
LEMMA SwitchRelaysCore ==
  ASSUME NEW k, Core(k), NEW dir \in {Opening, Closing}
  PROVE  LET s == SwitchRelays(k, dir)
         IN  /\ Core(s) /\ s.moving = dir
             /\ s.motor_position = k.motor_position
             /\ s.pending_action = k.pending_action /\ s.delay_task = k.delay_task
             /\ s.open_time = k.open_time /\ s.close_time = k.close_time
<1>1. CASE dir = k.moving
  BY <1>1 DEF SwitchRelays
<1>2. CASE dir # k.moving
  <2> DEFINE opens == (dir = Opening) # k.motor_reversal
             closes == ~opens
             r == [k EXCEPT !.open_relay = opens, !.close_relay = closes]
             rep == [moving |-> dir, position |-> k.position]
             s == [r EXCEPT !.moving = dir, !.since_switch = 0, !.reported = rep]
  <2>1. opens \in BOOLEAN /\ closes \in BOOLEAN /\ ~(opens /\ closes) /\ (opens \/ closes)
    OBVIOUS
  <2>2. SwitchRelays(k, dir) = SetMoving(r, dir)
    BY <1>2, Zenon DEF SwitchRelays
  <2> HIDE DEF opens, closes
  <2>3. /\ r \in ClusterState
        /\ r.reported = [moving |-> r.reported.moving, position |-> r.position]
        /\ r.position = k.position
    <3>1. opens \in BOOLEAN /\ closes \in BOOLEAN
      BY <2>1
    <3>2. r \in ClusterState
      BY <3>1 DEF Core, ClusterState
    <3>3. r.reported = k.reported /\ r.position = k.position
      BY DEF Core, ClusterState
    <3> QED
      BY <3>2, <3>3 DEF Core
  <2>4. SwitchRelays(k, dir) = s
    BY <2>2, <2>3, SetMovingFlat
  <2>5. rep \in [moving: {Stopped, Opening, Closing}, position: 0 .. MaxPct]
    BY DEF Core, ClusterState
  <2>6. RelayMinSwitch \in Nat /\ dir \in {Stopped, Opening, Closing} /\ dir # Stopped
    BY ConstantsAssumption DEF Stopped, Opening, Closing
  <2>7. s \in ClusterState
    <3> HIDE DEF r, rep
    <3>1. 0 \in 0 .. RelayMinSwitch
      BY <2>6
    <3> QED
      BY <2>3, <2>5, <2>6, <3>1 DEF ClusterState
  <2>8. /\ s.open_relay = opens /\ s.close_relay = closes /\ s.moving = dir
        /\ s.since_switch = 0 /\ s.reported = rep /\ s.position = k.position
        /\ s.pending_action = k.pending_action /\ s.delay_task = k.delay_task
        /\ s.motor_position = k.motor_position
        /\ s.open_time = k.open_time /\ s.close_time = k.close_time
    BY DEF Core, ClusterState
  <2> HIDE DEF s
  <2>9. k.delay_task # Off => k.delay_task + 0 <= RelayMinSwitch
    BY <2>6 DEF Core, ClusterState, Timer, Off
  <2>10. Core(s)
    BY <2>1, <2>6, <2>7, <2>8, <2>9 DEF Core
  <2> QED
    BY <2>4, <2>8, <2>10
<1> QED
  BY <1>1, <1>2

\* The duration of a move is not negative: its direction is chosen from its target.
LEMMA DurationNat ==
  ASSUME NEW k \in ClusterState, NEW action \in MotorPosition,
         NEW dir, dir = DirectionTo(k, action)
  PROVE  MoveDuration(k, dir, action) \in Nat
<1> DEFINE delta == IF dir = Opening THEN action - k.motor_position
                    ELSE k.motor_position - action
<1>1. delta \in Nat
  BY ConstantTypes DEF DirectionTo, MotorPosition, ClusterState, Opening, Closing
<1>2. TravelTime(k, dir) \in Nat
  BY DEF TravelTime, ClusterState
<1> HIDE DEF delta
<1>3. delta * TravelTime(k, dir) \in Nat
  BY <1>1, <1>2
<1>4. (delta * TravelTime(k, dir)) \div MaxMotorPosition \in Nat
  BY <1>3, ConstantTypes
<1>5. (IF IsEndPosition(action) THEN Overrun ELSE 0) \in Nat
  BY ConstantsAssumption
<1> QED
  BY <1>4, <1>5 DEF MoveDuration, delta

\* Starting the motor schedules its stop, timed or manual.
LEMMA StartMotorInv ==
  ASSUME NEW k, Core(k), NEW action \in MotorPosition
  PROVE  /\ IInv(StartMotor(k, action))
         /\ StartMotor(k, action).moving = DirectionTo(k, action)
         /\ StartMotor(k, action).target_motor_position = action
<1> DEFINE dir == DirectionTo(k, action)
           w == SwitchRelays(k, dir)
           s == [w EXCEPT !.target_motor_position = action]
<1>1. dir \in {Opening, Closing}
  BY DEF DirectionTo
<1>2. /\ Core(w) /\ w.moving = dir /\ w.motor_position = k.motor_position
  BY <1>1, SwitchRelaysCore
<1>3. /\ Core(s) /\ s.moving = dir /\ s.motor_position = k.motor_position
      /\ s.target_motor_position = action
  <2> HIDE DEF w
  <2> QED
    BY <1>2 DEF Core, ClusterState
<1>4. dir # Stopped
  BY <1>1 DEF Stopped, Opening, Closing
<1> HIDE DEF s
<1>5. CASE IsManualMode(k)
  <2> DEFINE mp == IF dir = Opening THEN MaxMotorPosition ELSE 0
             pos == IF dir = Opening THEN MaxPct ELSE 0
             v == [s EXCEPT !.motor_position = mp, !.position = pos,
                            !.reported.position = pos, !.stop_task = ManualTimeout]
  <2>1. StartMotor(k, action) = v
    BY <1>5 DEF StartMotor, SnapToEnd, s
  <2>2. mp \in MotorPosition /\ pos \in 0 .. MaxPct
    BY ConstantTypes DEF MotorPosition
  <2> HIDE DEF mp, pos
  <2>3. v.reported = [moving |-> dir, position |-> pos]
    <3>1. v.reported = [s.reported EXCEPT !.position = pos]
      BY <1>3 DEF Core, ClusterState
    <3> QED
      BY <1>3, <3>1 DEF Core
  <2>4. ManualTimeout \in Nat /\ Off \notin Nat
    BY ConstantsAssumption DEF Off
  <2>5. v \in ClusterState
    BY <1>1, <1>3, <2>2, <2>3, <2>4 DEF Core, ClusterState
  <2> QED
    BY <1>3, <1>4, <2>1, <2>3, <2>4, <2>5 DEF Core, IInv, Supervised, ClusterState
<1>6. CASE ~IsManualMode(k)
  <2> DEFINE dur == MoveDuration(s, dir, action)
             upd == UpdateInterval(s, dir)
             v == [s EXCEPT !.start_motor_position = s.motor_position, !.elapsed = 0,
                            !.stop_task = dur, !.update_task = upd]
  <2>1. StartMotor(k, action) = v
    BY <1>6 DEF StartMotor, s
  <2>2. dur \in Nat
    BY <1>3, DurationNat DEF Core, DirectionTo
  <2>3. upd \in Nat
    BY <1>3, IntervalNat DEF Core, ClusterState
  <2>4. 0 \in 0 .. MaxTravel /\ Off \notin Nat
    BY ConstantsAssumption DEF Off
  <2> HIDE DEF dur, upd
  <2>5. v \in ClusterState
    BY <1>3, <2>2, <2>3, <2>4 DEF Core, ClusterState
  <2> QED
    BY <1>3, <1>4, <2>1, <2>2, <2>3, <2>4, <2>5 DEF Core, IInv, Supervised, ClusterState
<1> QED
  BY <1>5, <1>6

\* cover_cancel_movement_tasks and cover_update_position, at the head of
\* cover_execute_action.
Refreshed(k) == IF k.moving = Stopped THEN k ELSE UpdatePosition(CancelMovementTasks(k))

\* The cancel-and-update that precedes every action leaves no task scheduled.
LEMMA RefreshedCore ==
  ASSUME NEW k, Core(k), k.moving = Stopped => k.stop_task = Off /\ k.update_task = Off
  PROVE  LET u == Refreshed(k)
         IN  /\ Core(u) /\ u.stop_task = Off /\ u.update_task = Off
             /\ u.moving = k.moving /\ u.motor_reversal = k.motor_reversal
             /\ u.target_motor_position = k.target_motor_position
             /\ u.pending_action = k.pending_action /\ u.delay_task = k.delay_task
             /\ u.since_switch = k.since_switch
             /\ u.open_relay = k.open_relay /\ u.close_relay = k.close_relay
             /\ k.moving # Stopped => u.motor_position = EstimatedPosition(k)
<1>1. CASE k.moving = Stopped
  BY <1>1 DEF Refreshed
<1>2. CASE k.moving # Stopped
  <2> DEFINE x == CancelMovementTasks(k)
  <2>1. x \in ClusterState
    BY DEF Core, ClusterState, CancelMovementTasks
  <2>2. /\ Core(x) /\ x.stop_task = Off /\ x.update_task = Off /\ x.moving = k.moving
        /\ x.motor_reversal = k.motor_reversal
        /\ x.target_motor_position = k.target_motor_position
        /\ x.pending_action = k.pending_action /\ x.delay_task = k.delay_task
        /\ x.since_switch = k.since_switch
        /\ x.open_relay = k.open_relay /\ x.close_relay = k.close_relay
        /\ x.open_time = k.open_time /\ x.close_time = k.close_time
        /\ x.elapsed = k.elapsed /\ x.start_motor_position = k.start_motor_position
    BY <2>1 DEF Core, ClusterState, CancelMovementTasks
  <2>3. EstimatedPosition(x) = EstimatedPosition(k)
    BY <2>2 DEF EstimatedPosition, TravelledDistance, TravelTime
  <2> HIDE DEF x
  <2> QED
    BY <1>2, <2>2, <2>3, UpdatePositionCore DEF Refreshed, SameMotion, x
<1> QED
  BY <1>1, <1>2

\* cover_execute_action as three cases.
LEMMA ExecuteActionCases ==
  ASSUME NEW k, NEW action
  PROVE  ExecuteAction(k, action) =
           IF NothingToExecute(k, action) THEN k
           ELSE IF action = ActionStop THEN HaltMotor(Refreshed(k))
           ELSE StartMotor(Refreshed(k), action)
BY Zenon DEF ExecuteAction, Refreshed

\* A stop that is not met by an early return.
LEMMA StopMoving ==
  ASSUME NEW k, Core(k), k.moving # Stopped
  PROVE  LET h == ExecuteAction(k, ActionStop)
         IN  /\ IInv(h) /\ h.moving = Stopped /\ h.since_switch = 0
             /\ h.target_motor_position = k.target_motor_position
<1>1. ~NothingToExecute(k, ActionStop)
  BY ConstantTypes DEF NothingToExecute, Core, ClusterState, MotorPosition
<1>2. ExecuteAction(k, ActionStop) = HaltMotor(Refreshed(k))
  BY <1>1, ExecuteActionCases
<1> QED
  BY <1>2, RefreshedCore, HaltMotorInv

\* Starting the motor leaves the deferred action alone.
LEMMA StartMotorFrame ==
  ASSUME NEW k, Core(k), NEW action \in MotorPosition
  PROVE  /\ StartMotor(k, action).pending_action = k.pending_action
         /\ StartMotor(k, action).delay_task = k.delay_task
<1> DEFINE w == SwitchRelays(k, DirectionTo(k, action))
<1>1. w \in ClusterState /\ w.pending_action = k.pending_action /\ w.delay_task = k.delay_task
  BY SwitchRelaysCore DEF DirectionTo, Core
<1> HIDE DEF w
<1> QED
  BY <1>1 DEF StartMotor, SnapToEnd, ClusterState, w

\* cover_execute_action keeps the invariant for every action.
LEMMA ExecuteActionInv ==
  ASSUME NEW k, IInv(k), NEW action \in Action
  PROVE  /\ IInv(ExecuteAction(k, action))
         /\ ExecuteAction(k, action).pending_action = k.pending_action
         /\ ExecuteAction(k, action).delay_task = k.delay_task
<1> DEFINE u == Refreshed(k)
<1>1. /\ Core(u) /\ u.stop_task = Off /\ u.update_task = Off
      /\ u.pending_action = k.pending_action /\ u.delay_task = k.delay_task
  BY RefreshedCore DEF IInv, Supervised
<1> HIDE DEF u
<1>2. CASE NothingToExecute(k, action)
  BY <1>2, ExecuteActionCases
<1>3. CASE ~NothingToExecute(k, action) /\ action = ActionStop
  BY <1>1, <1>3, ExecuteActionCases, HaltMotorInv DEF u
<1>4. CASE ~NothingToExecute(k, action) /\ action # ActionStop
  <2>1. action \in MotorPosition
    BY <1>4, ConstantTypes DEF Action, MotorPosition, NothingToExecute
  <2> QED
    BY <1>1, <1>4, <2>1, ExecuteActionCases, StartMotorInv, StartMotorFrame DEF u
<1> QED
  BY <1>2, <1>3, <1>4

\* Cancelling the deferred action also removes its task.
LEMMA CancelPendingInv ==
  ASSUME NEW k, IInv(k)
  PROVE  /\ IInv(CancelPending(k)) /\ CancelPending(k).moving = k.moving
         /\ CancelPending(k).pending_action = ActionNone
         /\ CancelPending(k).delay_task = Off
<1>1. ActionNone \in Action /\ Off \in Timer(RelayMinSwitch)
  BY ConstantTypes, ConstantsAssumption DEF Action, Timer, Off
<1>2. CancelPending(k) \in ClusterState
  BY <1>1 DEF CancelPending, IInv, Core, ClusterState
<1> QED
  BY <1>2 DEF CancelPending, IInv, Core, Supervised, ClusterState

\* Deferring an action keeps the invariant if the delay ends with the rest period.
LEMMA DeferActionInv ==
  ASSUME NEW k, IInv(k), NEW action \in Action, action # ActionNone,
         NEW delay \in Nat, delay + k.since_switch <= RelayMinSwitch
  PROVE  IInv(DeferAction(k, action, delay))
<1>1. delay \in Timer(RelayMinSwitch) /\ delay # Off
  BY ConstantsAssumption DEF Timer, Off, IInv, Core, ClusterState
<1>2. DeferAction(k, action, delay) \in ClusterState
  BY <1>1 DEF DeferAction, IInv, Core, ClusterState
<1> QED
  BY <1>1, <1>2 DEF DeferAction, IInv, Core, Supervised, ClusterState

\* The delay computed by cover_dispatch_action ends with the rest period.
LEMMA DeferToSafeTimeInv ==
  ASSUME NEW k, IInv(k), NEW action \in Action, action # ActionNone
  PROVE  IInv(DeferToSafeTime(k, action))
<1>1. /\ RelayMinSwitch - k.since_switch \in Nat
      /\ (RelayMinSwitch - k.since_switch) + k.since_switch <= RelayMinSwitch
  BY ConstantsAssumption DEF IInv, Core, ClusterState
<1> QED
  BY <1>1, DeferActionInv DEF DeferToSafeTime

\* A dispatched stop keeps the invariant.
LEMMA DispatchStopInv ==
  ASSUME NEW k, IInv(k)
  PROVE  IInv(DispatchStop(k))
<1>1. ActionStop \in Action /\ ActionStop # ActionNone
  BY ConstantTypes DEF Action
<1> QED
  BY <1>1, CancelPendingInv, DeferToSafeTimeInv, ExecuteActionInv DEF DispatchStop

\* A dispatched move keeps the invariant in each of its four cases.
LEMMA DispatchMoveInv ==
  ASSUME NEW k, IInv(k), NEW action \in MotorPosition
  PROVE  IInv(DispatchMove(k, action))
<1> DEFINE x == ExecuteAction(k, ActionStop)
<1>1. /\ action \in Action /\ action # ActionNone
      /\ ActionStop \in Action /\ ActionStop # ActionNone
  BY ConstantTypes DEF Action, MotorPosition
<1>2. IInv(ExecuteAction(CancelPending(k), action))
  BY <1>1, CancelPendingInv, ExecuteActionInv
<1>3. IInv(ExecuteAction(k, action)) /\ IInv(DeferToSafeTime(k, action))
  BY <1>1, ExecuteActionInv, DeferToSafeTimeInv
<1>4. CASE k.moving # Stopped
  <2>1. IInv(x)
    BY <1>1, ExecuteActionInv
  <2>2. x.since_switch = 0
    BY <1>4, StopMoving DEF IInv
  <2>3. RelayMinSwitch \in Nat /\ RelayMinSwitch + x.since_switch <= RelayMinSwitch
    BY <2>2, ConstantsAssumption
  <2>4. IInv(DeferAction(x, action, RelayMinSwitch))
    BY <1>1, <2>1, <2>3, DeferActionInv
  <2> QED
    BY <1>2, <1>3, <2>4 DEF DispatchMove
<1>5. CASE k.moving = Stopped
  BY <1>2, <1>3, <1>5 DEF DispatchMove
<1> QED
  BY <1>4, <1>5

\* cover_dispatch_action keeps the invariant.
LEMMA DispatchActionInv ==
  ASSUME NEW k, IInv(k), NEW action \in Action
  PROVE  IInv(DispatchAction(k, action))
<1>1. action \notin {ActionNone, ActionStop} => action \in MotorPosition
  BY ConstantTypes DEF Action, MotorPosition
<1> QED
  BY <1>1, DispatchStopInv, DispatchMoveInv DEF DispatchAction

-----------------------------------------------------------------------------
(* Tasks, attribute writes, time and start-up.                             *)

\* The automatic stop keeps the invariant.
LEMMA AutoStopInv ==
  ASSUME NEW k, IInv(k), k.stop_task = 0
  PROVE  IInv(AutoStopHandler(k))
<1> DEFINE x == [k EXCEPT !.stop_task = Off]
           h == ExecuteAction(x, ActionStop)
<1>1. k.moving # Stopped /\ Off # 0
  BY DEF IInv, Supervised, Off
<1>2. Core(x) /\ x.moving # Stopped
  BY <1>1 DEF IInv, Core, ClusterState
<1>3. IInv(h) /\ h.moving = Stopped
  BY <1>2, StopMoving
<1> HIDE DEF h
<1>4. h.target_motor_position \in MotorPosition
  BY <1>3 DEF IInv, Core, ClusterState
<1>5. /\ Core(SetPosition(h, h.target_motor_position))
      /\ SameMotion(h, SetPosition(h, h.target_motor_position))
  BY <1>3, <1>4, SetPositionCore DEF IInv
<1> QED
  BY <1>3, <1>5 DEF AutoStopHandler, IInv, Supervised, SameMotion, h

\* The periodic position update keeps the invariant and schedules the next one.
LEMMA UpdateHandlerInv ==
  ASSUME NEW k, IInv(k), k.update_task = 0
  PROVE  IInv(UpdateHandler(k))
<1> DEFINE u == UpdatePosition(k)
           i == UpdateInterval(u, u.moving)
           v == [u EXCEPT !.update_task = i]
<1>1. Core(u) /\ SameMotion(k, u) /\ u.moving # Stopped
  BY UpdatePositionCore DEF IInv, Supervised, SameMotion, Off
<1> HIDE DEF u
<1>2. i \in Nat
  BY <1>1, IntervalNat DEF Core, ClusterState
<1> HIDE DEF i
<1>3. UpdateHandler(k) = v
  BY <1>1 DEF UpdateHandler, u, i
<1>4. Core(v) /\ v.moving = u.moving /\ v.stop_task = u.stop_task
  BY <1>1, <1>2 DEF Core, ClusterState
<1> QED
  BY <1>1, <1>3, <1>4 DEF IInv, Supervised, SameMotion

\* Executing the deferred action keeps the invariant.
LEMMA DelayHandlerInv ==
  ASSUME NEW k, IInv(k)
  PROVE  IInv(DelayHandler(k))
<1>1. k.pending_action \in Action
  BY DEF IInv, Core, ClusterState
<1> QED
  BY <1>1, CancelPendingInv, DispatchActionInv DEF DelayHandler

\* The passage of a tick keeps the invariant when no task is due.
LEMMA ElapseInv ==
  ASSUME NEW k, IInv(k), k.stop_task # 0, k.update_task # 0, k.delay_task # 0
  PROVE  IInv(Elapse(k))
<1> DEFINE v == Elapse(k)
<1>1. /\ v.stop_task = CountDown(k.stop_task) /\ v.update_task = CountDown(k.update_task)
      /\ v.delay_task = CountDown(k.delay_task)
      /\ v.since_switch = CountUp(k.since_switch, RelayMinSwitch)
      /\ v.elapsed = CountUp(k.elapsed, MaxTravel)
      /\ v.moving = k.moving /\ v.pending_action = k.pending_action
      /\ v.open_relay = k.open_relay /\ v.close_relay = k.close_relay
      /\ v.reported = k.reported /\ v.position = k.position
  BY DEF Elapse, IInv, Core, ClusterState
<1>2. \A t \in {Off} \cup Nat : t # 0 =>
         CountDown(t) \in {Off} \cup Nat /\ (CountDown(t) = Off <=> t = Off)
  BY DEF CountDown, Off
<1>3. /\ CountUp(k.since_switch, RelayMinSwitch) \in 0 .. RelayMinSwitch
      /\ CountUp(k.elapsed, MaxTravel) \in 0 .. MaxTravel
      /\ CountUp(k.since_switch, RelayMinSwitch) <= k.since_switch + 1
  BY ConstantsAssumption DEF CountUp, IInv, Core, ClusterState
<1>4. /\ k.delay_task \in {Off} \cup Nat /\ k.delay_task <= RelayMinSwitch
      /\ CountDown(k.delay_task) \in Timer(RelayMinSwitch)
      /\ CountDown(k.delay_task) # Off =>
           CountDown(k.delay_task) + v.since_switch <= RelayMinSwitch
  BY <1>1, <1>3, ConstantsAssumption DEF CountDown, Timer, Off, IInv, Core, ClusterState
<1>5. v \in ClusterState
  BY <1>2, <1>3, <1>4 DEF Elapse, IInv, Core, ClusterState
<1> HIDE DEF v
<1>6. Core(v)
  BY <1>1, <1>2, <1>4, <1>5 DEF IInv, Core
<1>7. Supervised(v)
  BY <1>1, <1>2 DEF IInv, Core, ClusterState, Supervised
<1> QED
  BY <1>6, <1>7 DEF IInv, v

\* An attribute write caps a deadzone of any size.
LEMMA CapDeadzonesInv ==
  ASSUME NEW k, IInv(k)
  PROVE  /\ IInv(CapDeadzones(k))
         /\ \A d \in Nat : IInv(CapDeadzones([k EXCEPT !.open_deadzone = d]))
         /\ \A d \in Nat : IInv(CapDeadzones([k EXCEPT !.closed_deadzone = d]))
<1> DEFINE Set(a, b) == [k EXCEPT !.open_deadzone = a, !.closed_deadzone = b]
<1>1. ASSUME NEW a \in 0 .. MaxDeadzone, NEW b \in 0 .. MaxDeadzone
      PROVE  IInv(Set(a, b))
  <2>1. Set(a, b) \in ClusterState
    BY DEF IInv, Core, ClusterState
  <2> QED
    BY <2>1 DEF IInv, Core, Supervised, ClusterState
<1>2. /\ k \in ClusterState
      /\ k.open_deadzone \in Nat /\ k.closed_deadzone \in Nat
  BY ConstantsAssumption DEF IInv, Core, ClusterState
<1>3. \A d \in Nat : CapDeadzone(d) \in 0 .. MaxDeadzone
  BY ConstantsAssumption DEF CapDeadzone
<1>4. CapDeadzones(k) = Set(CapDeadzone(k.open_deadzone), CapDeadzone(k.closed_deadzone))
  BY <1>2 DEF CapDeadzones, ClusterState
<1>5. \A d \in Nat : CapDeadzones([k EXCEPT !.open_deadzone = d])
                     = Set(CapDeadzone(d), CapDeadzone(k.closed_deadzone))
  BY <1>2 DEF CapDeadzones, ClusterState
<1>6. \A d \in Nat : CapDeadzones([k EXCEPT !.closed_deadzone = d])
                     = Set(CapDeadzone(k.open_deadzone), CapDeadzone(d))
  BY <1>2 DEF CapDeadzones, ClusterState
<1> HIDE DEF Set
<1> QED
  BY <1>1, <1>2, <1>3, <1>4, <1>5, <1>6

\* The cluster starts in the invariant from any stored configuration.
LEMMA ClusterInitInv ==
  ASSUME NEW cfg \in Config
  PROVE  IInv(ClusterInit(cfg))
<1> DEFINE pos == MotorToCoverPosition(cfg)
<1>1. pos \in 0 .. MaxPct
  BY CoverPositionInRange DEF Config
<1> HIDE DEF pos
<1>2. /\ 0 \in MotorPosition /\ ActionNone \in Action /\ 0 \in 0 .. RelayMinSwitch
      /\ 0 \in 0 .. MaxTravel /\ Off \in Timer(RelayMinSwitch)
  BY ConstantTypes, ConstantsAssumption DEF MotorPosition, Action, Timer
<1>3. ClusterInit(cfg) \in ClusterState
  BY <1>1, <1>2 DEF ClusterInit, Config, ClusterState, pos
<1> QED
  BY <1>3 DEF IInv, Core, Supervised, ClusterInit

\* A configuration that was stored, or the default one, is in range.
LEMMA LoadedConfigType ==
  ASSUME nv \in SUBSET Config
  PROVE  LoadedConfig \in Config
<1>1. DefaultConfig \in Config
  <2>1. MaxMotorPosition \div 2 \in 0 .. MaxMotorPosition
    BY ConstantTypes
  <2> QED
    BY <2>1, ConstantsAssumption DEF DefaultConfig, Config, MotorPosition
<1>2. CASE nv # {}
  BY <1>2 DEF LoadedConfig
<1> QED
  BY <1>1, <1>2 DEF LoadedConfig

-----------------------------------------------------------------------------
(* The specification keeps the invariant.                                  *)

Inv == IInv(c) /\ nv \in SUBSET Config

\* What is stored is in range.
LEMMA StoredConfigType ==
  ASSUME NEW k \in ClusterState
  PROVE  StoredConfig(k) \in Config
BY DEF StoredConfig, ClusterState, Config

\* The invariant holds at start-up.
LEMMA InitInv == Init => Inv
<1> SUFFICES ASSUME Init PROVE Inv
  OBVIOUS
<1>1. nv \in SUBSET Config
  <2>1. DefaultConfig \in Config
    <3>1. MaxMotorPosition \div 2 \in 0 .. MaxMotorPosition
      BY ConstantTypes
    <3> QED
      BY <3>1, ConstantsAssumption DEF DefaultConfig, Config, MotorPosition
  <2>2. ASSUME NEW t \in OpenTimes, NEW u \in CloseTimes, NEW r \in BOOLEAN
        PROVE  Configured(t, u, r) \in Config
    <3>1. t \in 0 .. MaxTravel /\ u \in 0 .. MaxTravel
      BY ConstantsAssumption
    <3> QED
      BY <2>1, <3>1 DEF Configured, Config
  <2> QED
    BY <2>2 DEF Init
<1>2. IInv(ClusterInit(LoadedConfig))
  BY <1>1, LoadedConfigType, ClusterInitInv
<1> QED
  BY <1>1, <1>2 DEF Init, Inv

\* A ZCL command keeps the invariant.
LEMMA CommandInv == Inv /\ Command => Inv'
<1> SUFFICES ASSUME Inv, Command PROVE Inv'
  OBVIOUS
<1>1. PICK action \in Action : Dispatch(action)
  <2>1. \A lift \in Lifts : CoverToMotorPosition(c, lift) \in MotorPosition
    BY MotorTargetInRange, ConstantsAssumption DEF Inv, IInv, Core, ClusterState
  <2>2. MotorPosition \subseteq Action /\ ActionStop \in Action /\ 0 \in Action
        /\ MaxMotorPosition \in Action
    BY ConstantTypes DEF MotorPosition, Action
  <2> QED
    BY <2>1, <2>2 DEF Command, CoverOpen, CoverClose, CoverStop, GoToLift
<1> QED
  BY <1>1, DispatchActionInv DEF Dispatch, Inv

\* Storing the written attributes keeps the invariant.
LEMMA OnWriteAttrInv ==
  ASSUME NEW k, IInv(CapDeadzones(k)), OnWriteAttr(k)
  PROVE  Inv'
<1>1. IInv(c')
  BY DEF OnWriteAttr
<1>2. StoredConfig(c') \in Config
  BY <1>1, StoredConfigType DEF IInv, Core
<1> QED
  BY <1>1, <1>2 DEF OnWriteAttr, Inv

\* Writing a travel time or a deadzone, moving or not, keeps the invariant.
LEMMA CalibrateInv == Inv /\ Calibrate => Inv'
<1> SUFFICES ASSUME Inv, Calibrate PROVE Inv'
  OBVIOUS
<1>1. IInv(c) /\ c \in ClusterState
  BY DEF Inv, IInv, Core
<1>2. ASSUME NEW t \in OpenTimes, WriteOpenTime(t) PROVE Inv'
  <2> DEFINE k == [c EXCEPT !.open_time = t]
  <2>1. k \in ClusterState
    BY <1>1, ConstantsAssumption DEF ClusterState
  <2>2. IInv(k)
    BY <1>1, <2>1 DEF IInv, Core, Supervised, ClusterState
  <2> QED
    BY <1>2, <2>2, CapDeadzonesInv, OnWriteAttrInv DEF WriteOpenTime
<1>3. ASSUME NEW t \in CloseTimes, WriteCloseTime(t) PROVE Inv'
  <2> DEFINE k == [c EXCEPT !.close_time = t]
  <2>1. k \in ClusterState
    BY <1>1, ConstantsAssumption DEF ClusterState
  <2>2. IInv(k)
    BY <1>1, <2>1 DEF IInv, Core, Supervised, ClusterState
  <2> QED
    BY <1>3, <2>2, CapDeadzonesInv, OnWriteAttrInv DEF WriteCloseTime
<1>4. ASSUME NEW d \in Deadzones, WriteOpenDeadzone(d) \/ WriteClosedDeadzone(d) PROVE Inv'
  <2>1. d \in Nat
    BY ConstantsAssumption
  <2> QED
    BY <1>1, <1>4, <2>1, CapDeadzonesInv, OnWriteAttrInv
    DEF WriteOpenDeadzone, WriteClosedDeadzone
<1> QED
  BY <1>2, <1>3, <1>4 DEF Calibrate

\* Writing motor_reversal, which stops the motor, keeps the invariant.
LEMMA ReverseMotorInv == Inv /\ ReverseMotor => Inv'
<1> SUFFICES ASSUME Inv, NEW r \in BOOLEAN, WriteMotorReversal(r) PROVE Inv'
  BY DEF ReverseMotor
<1> DEFINE k == [c EXCEPT !.motor_reversal = r]
<1>1. k \in ClusterState
  BY DEF Inv, IInv, Core, ClusterState
<1>2. IInv(k)
  BY <1>1 DEF Inv, IInv, Core, Supervised, ClusterState
<1>3. IInv(DispatchAction(k, ActionStop))
  BY <1>2, ConstantTypes, DispatchActionInv DEF Action
<1> QED
  BY <1>3, CapDeadzonesInv, OnWriteAttrInv DEF WriteMotorReversal

\* The three tasks keep the invariant.
LEMMA TasksInv == Inv /\ Tasks => Inv'
BY AutoStopInv, UpdateHandlerInv, DelayHandlerInv
DEF Tasks, StopTask, UpdateTask, DelayTask, Inv

\* Every step keeps the invariant.
LEMMA NextInv == Inv /\ [Next]_vars => Inv'
<1> SUFFICES ASSUME Inv, [Next]_vars PROVE Inv'
  OBVIOUS
<1>1. CASE Command
  BY <1>1, CommandInv
<1>2. CASE Calibrate
  BY <1>2, CalibrateInv
<1>3. CASE ReverseMotor
  BY <1>3, ReverseMotorInv
<1>4. CASE Tasks
  BY <1>4, TasksInv
<1>5. CASE Tick
  BY <1>5, ElapseInv DEF Tick, NoTaskDue, Inv
<1>6. CASE Reboot
  BY <1>6, LoadedConfigType, ClusterInitInv DEF Reboot, Inv
<1>7. CASE UNCHANGED vars
  BY <1>7 DEF vars, Inv
<1> QED
  BY <1>1, <1>2, <1>3, <1>4, <1>5, <1>6, <1>7 DEF Next

\* Inv is an invariant of the cover cluster for every value of the constants.
THEOREM InvariantCorrect == Spec => []Inv
BY InitInv, NextInv, PTL DEF Spec

\* No clock reading, deadzone or command takes a field of the cluster out of range.
THEOREM TypeCorrect == Spec => []TypeOK
<1>1. Inv => TypeOK
  BY DEF Inv, IInv, Core, TypeOK
<1> QED
  BY <1>1, InvariantCorrect, PTL

\* The relays are never energized together, and exactly one is while moving.
THEOREM RelaysCorrect == Spec => []RelaysMatchMoving
<1>1. Inv => RelaysMatchMoving
  BY DEF Inv, IInv, Core, RelaysMatchMoving
<1> QED
  BY <1>1, InvariantCorrect, PTL

\* Whatever the interleaving of callbacks, a moving motor has its stop scheduled.
THEOREM SupervisionCorrect == Spec => []MotorSupervised
<1>1. Inv => MotorSupervised
  BY DEF Inv, IInv, Supervised, MotorSupervised
<1> QED
  BY <1>1, InvariantCorrect, PTL

\* A deferred action is never forgotten nor held longer than the relays need.
THEOREM DeferralCorrect == Spec => []PendingTimed
<1>1. Inv => PendingTimed
  BY DEF Inv, IInv, Core, PendingTimed
<1> QED
  BY <1>1, InvariantCorrect, PTL

\* Every attribute change has been notified by the end of its callback.
THEOREM ReportsCorrect == Spec => []ReportsInSync
<1>1. Inv => ReportsInSync
  BY DEF Inv, IInv, Core, ReportsInSync
<1> QED
  BY <1>1, InvariantCorrect, PTL

-----------------------------------------------------------------------------
(* What a step may never do: the action properties, from the invariant.    *)

\* One relay released, the other energized.
SwappedFrom(k, n) == (k.open_relay /\ n.close_relay) \/ (k.close_relay /\ n.open_relay)

SameRelays(k, n) == n.open_relay = k.open_relay /\ n.close_relay = k.close_relay

NoRelay(k) == ~k.open_relay /\ ~k.close_relay

\* A halted motor has both relays released.
LEMMA HaltMotorRelays ==
  ASSUME NEW k, Core(k)
  PROVE  NoRelay(HaltMotor(k))
<1> DEFINE r == [k EXCEPT !.open_relay = FALSE, !.close_relay = FALSE]
<1>1. r \in ClusterState /\ ~r.open_relay /\ ~r.close_relay
  BY DEF Core, ClusterState
<1> HIDE DEF r
<1> QED
  BY <1>1 DEF HaltMotor, SetMoving, NoRelay, ClusterState, r

\* Re-targeting in the direction of travel leaves the relays alone.
LEMMA StartMotorRelays ==
  ASSUME NEW k, Core(k), NEW action \in MotorPosition, DirectionTo(k, action) = k.moving
  PROVE  SameRelays(k, StartMotor(k, action))
<1>1. SwitchRelays(k, DirectionTo(k, action)) = k
  BY DEF SwitchRelays
<1> QED
  BY <1>1 DEF StartMotor, SnapToEnd, SameRelays, Core, ClusterState

\* A cluster may change its relays now without breaking the spacing.
Rested(k) == k.since_switch >= RelayMinSwitch

\* What cover_dispatch_action may do to the relays.
Spaced(k, n) ==
  /\ SameRelays(k, n) \/ Rested(k) \/ SwappedFrom(k, n)
  /\ SwappedFrom(k, n) => Overtaken(k, n.target_motor_position)

\* A stop releases both relays.
LEMMA StopRelays ==
  ASSUME NEW k, Core(k), k.moving # Stopped
  PROVE  NoRelay(ExecuteAction(k, ActionStop))
<1>1. ~NothingToExecute(k, ActionStop)
  BY ConstantTypes DEF NothingToExecute, Core, ClusterState, MotorPosition
<1> QED
  BY <1>1, ExecuteActionCases, RefreshedCore, HaltMotorRelays

\* Deferring an action touches no relay.
LEMMA DeferRelays ==
  ASSUME NEW k, Core(k), NEW action, NEW delay
  PROVE  SameRelays(k, DeferAction(k, action, delay))
BY DEF DeferAction, SameRelays, Core, ClusterState

\* The only swap: a new target on course, overtaken by the refresh.
LEMMA OnCourseStep ==
  ASSUME NEW k, IInv(k), NEW action \in MotorPosition, k.moving = DirectionTo(k, action)
  PROVE  LET n == ExecuteAction(CancelPending(k), action)
         IN  /\ SameRelays(k, n) \/ SwappedFrom(k, n)
             /\ SwappedFrom(k, n) => Overtaken(k, n.target_motor_position)
<1> DEFINE x == CancelPending(k)
           u == Refreshed(x)
           n == ExecuteAction(x, action)
<1>1. k.moving \in {Opening, Closing} /\ k.moving # Stopped
  BY DEF DirectionTo, Stopped, Opening, Closing
<1>2. /\ IInv(x) /\ x.moving = k.moving /\ SameRelays(k, x)
      /\ x.motor_position = k.motor_position
      /\ EstimatedPosition(x) = EstimatedPosition(k)
  BY CancelPendingInv DEF CancelPending, SameRelays, EstimatedPosition, TravelledDistance,
     TravelTime, IInv, Core, ClusterState
<1> HIDE DEF x
<1>3. /\ Core(u) /\ u.moving = k.moving /\ SameRelays(k, u)
      /\ u.motor_position = EstimatedPosition(k)
  BY <1>1, <1>2, RefreshedCore DEF IInv, Supervised, SameRelays
<1> HIDE DEF u
<1>4. CASE NothingToExecute(x, action)
  <2>1. n = x
    BY <1>4, ExecuteActionCases
  <2>2. ~SwappedFrom(k, x)
    BY <1>2 DEF SwappedFrom, SameRelays, IInv, Core
  <2> QED
    BY <1>2, <2>1, <2>2 DEF x
<1>5. CASE ~NothingToExecute(x, action)
  <2>1. action # ActionStop
    BY ConstantTypes DEF MotorPosition
  <2>2. n = StartMotor(u, action)
    BY <1>5, <2>1, ExecuteActionCases DEF u
  <2>3. IInv(n) /\ n.moving = DirectionTo(u, action) /\ n.target_motor_position = action
    BY <1>3, <2>2, StartMotorInv
  <2>4. CASE DirectionTo(u, action) = u.moving
    <3>1. SameRelays(k, n)
      BY <1>3, <2>2, <2>4, StartMotorRelays DEF SameRelays
    <3>2. ~SwappedFrom(k, n)
      BY <3>1 DEF SwappedFrom, SameRelays, IInv, Core
    <3> QED
      BY <3>1, <3>2 DEF x
  <2>5. CASE DirectionTo(u, action) # u.moving
    <3>1. Overtaken(k, action)
      <4>1. /\ k.motor_position \in Int /\ u.motor_position \in Int /\ action \in Int
            /\ EstimatedPosition(k) = u.motor_position
        BY <1>3, ConstantTypes DEF IInv, Core, ClusterState, MotorPosition
      <4>2. DirectionTo(k, action) = k.moving /\ DirectionTo(u, action) # k.moving
        BY <1>3, <2>5
      <4>3. CASE k.moving = Opening
        <5>1. action > k.motor_position /\ ~(action > u.motor_position)
          BY <4>2, <4>3 DEF DirectionTo, Opening, Closing
        <5> QED
          BY <4>1, <4>3, <5>1 DEF Overtaken
      <4>4. CASE k.moving = Closing
        <5>1. ~(action > k.motor_position) /\ action > u.motor_position
          BY <4>2, <4>4 DEF DirectionTo, Opening, Closing
        <5> QED
          BY <4>1, <4>4, <5>1 DEF Overtaken
      <4> QED
        BY <1>1, <4>3, <4>4
    <3>2. SameRelays(k, n) \/ SwappedFrom(k, n)
      <4>1. /\ (k.open_relay \/ k.close_relay) /\ ~(k.open_relay /\ k.close_relay)
            /\ k.open_relay \in BOOLEAN /\ k.close_relay \in BOOLEAN
        BY <1>1 DEF IInv, Core, ClusterState
      <4>2. /\ (n.open_relay \/ n.close_relay) /\ ~(n.open_relay /\ n.close_relay)
            /\ n.open_relay \in BOOLEAN /\ n.close_relay \in BOOLEAN
        <5>1. n.moving # Stopped
          BY <2>3 DEF DirectionTo, Stopped, Opening, Closing
        <5> QED
          BY <2>3, <5>1 DEF IInv, Core, ClusterState
      <4> QED
        BY <4>1, <4>2 DEF SameRelays, SwappedFrom
    <3> QED
      BY <2>3, <3>1, <3>2 DEF x
  <2> QED
    BY <2>4, <2>5
<1> QED
  BY <1>4, <1>5

\* Any dispatched action: the relays rest long enough, or stay, or are swapped.
LEMMA DispatchStep ==
  ASSUME NEW k, IInv(k), NEW action \in Action
  PROVE  Spaced(k, DispatchAction(k, action))
<1> DEFINE n == DispatchAction(k, action)
           halted == ExecuteAction(k, ActionStop)
<1>1. ~(k.open_relay /\ k.close_relay) /\ Core(k)
  BY DEF IInv, Core
<1>2. ASSUME NEW m, SameRelays(k, m) PROVE ~SwappedFrom(k, m)
  BY <1>1, <1>2 DEF SameRelays, SwappedFrom
<1>3. ASSUME NEW m, NoRelay(m) PROVE ~SwappedFrom(k, m)
  BY <1>3 DEF NoRelay, SwappedFrom
<1>4. ASSUME NEW m, k.moving = Stopped PROVE ~SwappedFrom(k, m)
  BY <1>1, <1>4 DEF Core, SwappedFrom
<1>5. Rested(k) \/ SwitchedRecently(k)
  <2>1. k.since_switch \in Nat /\ RelayMinSwitch \in Nat
    BY <1>1, ConstantsAssumption DEF Core, ClusterState
  <2> QED
    BY <2>1 DEF Rested, SwitchedRecently
<1>6. CASE action = ActionNone
  <2>1. n = k
    BY <1>6, ConstantTypes DEF DispatchAction
  <2>2. SameRelays(k, n)
    BY <2>1 DEF SameRelays
  <2> QED
    BY <1>2, <2>2 DEF Spaced
<1>7. CASE action = ActionStop
  <2>1. n = DispatchStop(k)
    BY <1>7, ConstantTypes DEF DispatchAction
  <2>2. CASE k.moving = Stopped
    <3>1. n = CancelPending(k)
      BY <2>1, <2>2 DEF DispatchStop
    <3>2. SameRelays(k, n)
      BY <1>1, <3>1 DEF CancelPending, SameRelays, Core, ClusterState
    <3> QED
      BY <1>2, <3>2 DEF Spaced
  <2>3. CASE k.moving # Stopped /\ SwitchedRecently(k)
    <3>1. n = DeferToSafeTime(k, ActionStop)
      BY <2>1, <2>3 DEF DispatchStop
    <3>2. SameRelays(k, n)
      BY <1>1, <3>1, DeferRelays DEF DeferToSafeTime
    <3> QED
      BY <1>2, <3>2 DEF Spaced
  <2>4. CASE k.moving # Stopped /\ ~SwitchedRecently(k)
    <3>1. n = halted
      BY <2>1, <2>4 DEF DispatchStop
    <3> QED
      BY <1>1, <1>3, <1>5, <2>4, <3>1, StopRelays DEF Spaced
  <2> QED
    BY <2>2, <2>3, <2>4
<1>8. CASE action \notin {ActionNone, ActionStop}
  <2>1. action \in MotorPosition /\ n = DispatchMove(k, action)
    BY <1>8, ConstantTypes DEF DispatchAction, Action, MotorPosition
  <2>2. CASE k.moving = DirectionTo(k, action)
    <3>1. n = ExecuteAction(CancelPending(k), action)
      BY <2>1, <2>2 DEF DispatchMove
    <3> QED
      BY <2>1, <2>2, <3>1, OnCourseStep DEF Spaced
  <2>3. CASE k.moving # DirectionTo(k, action) /\ SwitchedRecently(k)
    <3>1. n = DeferToSafeTime(k, action)
      BY <2>1, <2>3 DEF DispatchMove
    <3>2. SameRelays(k, n)
      BY <1>1, <3>1, DeferRelays DEF DeferToSafeTime
    <3> QED
      BY <1>2, <3>2 DEF Spaced
  <2>4. CASE k.moving # DirectionTo(k, action) /\ ~SwitchedRecently(k) /\ k.moving = Stopped
    BY <1>4, <1>5, <2>4 DEF Spaced
  <2>5. CASE k.moving # DirectionTo(k, action) /\ ~SwitchedRecently(k) /\ k.moving # Stopped
    <3>1. n = DeferAction(halted, action, RelayMinSwitch)
      BY <2>1, <2>5 DEF DispatchMove
    <3>2. Core(halted) /\ NoRelay(halted)
      BY <1>1, <2>5, StopMoving, StopRelays DEF IInv
    <3>3. NoRelay(n)
      BY <3>1, <3>2, DeferRelays DEF SameRelays, NoRelay
    <3> QED
      BY <1>3, <1>5, <2>5, <3>3 DEF Spaced
  <2> QED
    BY <2>2, <2>3, <2>4, <2>5
<1>9. action = ActionNone \/ action = ActionStop \/ action \notin {ActionNone, ActionStop}
  OBVIOUS
<1> QED
  BY <1>6, <1>7, <1>8, <1>9

\* The deferred action is dispatched with the same care as a command.
LEMMA DelayStep ==
  ASSUME NEW k, IInv(k)
  PROVE  Spaced(k, DelayHandler(k))
<1> DEFINE x == CancelPending(k)
           n == DispatchAction(x, k.pending_action)
<1>1. /\ IInv(x) /\ x.moving = k.moving /\ SameRelays(k, x)
      /\ x.motor_position = k.motor_position /\ x.since_switch = k.since_switch
      /\ EstimatedPosition(x) = EstimatedPosition(k)
  BY CancelPendingInv DEF CancelPending, SameRelays, EstimatedPosition, TravelledDistance,
     TravelTime, IInv, Core, ClusterState
<1>2. k.pending_action \in Action
  BY DEF IInv, Core, ClusterState
<1>3. Spaced(x, n)
  BY <1>1, <1>2, DispatchStep
<1>4. DelayHandler(k) = n
  BY DEF DelayHandler
<1> HIDE DEF x, n
<1> QED
  BY <1>1, <1>3, <1>4 DEF Spaced, SameRelays, Rested, SwappedFrom, Overtaken

\* The automatic stop releases both relays and is then unscheduled.
LEMMA AutoStopRelays ==
  ASSUME NEW k, IInv(k), k.stop_task = 0
  PROVE  NoRelay(AutoStopHandler(k)) /\ AutoStopHandler(k).stop_task = Off
<1> DEFINE x == [k EXCEPT !.stop_task = Off]
           h == ExecuteAction(x, ActionStop)
<1>1. Core(x) /\ x.moving # Stopped
  BY DEF IInv, Supervised, Off, Core, ClusterState
<1>2. NoRelay(h) /\ IInv(h) /\ h.moving = Stopped
  BY <1>1, StopRelays, StopMoving
<1> HIDE DEF h
<1>3. h.target_motor_position \in MotorPosition
  BY <1>2 DEF IInv, Core, ClusterState
<1>4. SameMotion(h, SetPosition(h, h.target_motor_position))
  BY <1>2, <1>3, SetPositionCore DEF IInv
<1> QED
  BY <1>2, <1>4 DEF AutoStopHandler, NoRelay, SameMotion, IInv, Supervised, h

\* The periodic update touches no relay.
LEMMA UpdateRelays ==
  ASSUME NEW k, IInv(k), k.update_task = 0
  PROVE  SameRelays(k, UpdateHandler(k))
<1> DEFINE u == UpdatePosition(k)
<1>1. Core(u) /\ SameMotion(k, u) /\ u.moving # Stopped
  BY UpdatePositionCore DEF IInv, Supervised, SameMotion, Off
<1> HIDE DEF u
<1>2. UpdateHandler(k) = [u EXCEPT !.update_task = UpdateInterval(u, u.moving)]
  BY <1>1 DEF UpdateHandler, u
<1> QED
  BY <1>1, <1>2 DEF Core, ClusterState, SameRelays, SameMotion

\* Capping the deadzones touches neither the relays nor the target.
LEMMA CapRelays ==
  ASSUME NEW k \in ClusterState
  PROVE  SameRelays(k, CapDeadzones(k)) /\ CapDeadzones(k).target_motor_position = k.target_motor_position
BY DEF CapDeadzones, SameRelays, ClusterState

-----------------------------------------------------------------------------
(* The steps of the specification.                                         *)

\* Why the relays may change in this step.
Excused ==
  \/ Spaced(c, c')
  \/ c' = ClusterInit(LoadedConfig) /\ NoRelay(c')
  \/ c.stop_task = 0 /\ c'.stop_task = Off /\ NoRelay(c')

\* A step that keeps the relays needs no excuse.
LEMMA SameIsSpaced ==
  ASSUME Inv, SameRelays(c, c')
  PROVE  Spaced(c, c')
BY DEF Inv, IInv, Core, SameRelays, Spaced, SwappedFrom

\* A command changes the relays for a named reason only.
LEMMA CommandExcused == Inv /\ Command => Excused
<1> SUFFICES ASSUME Inv, Command PROVE Spaced(c, c')
  BY DEF Excused
<1>1. \A lift \in Lifts : CoverToMotorPosition(c, lift) \in MotorPosition
  BY MotorTargetInRange, ConstantsAssumption DEF Inv, IInv, Core, ClusterState
<1>2. MotorPosition \subseteq Action /\ ActionStop \in Action /\ 0 \in Action
      /\ MaxMotorPosition \in Action
  BY ConstantTypes DEF MotorPosition, Action
<1>3. PICK action \in Action : Dispatch(action)
  BY <1>1, <1>2 DEF Command, CoverOpen, CoverClose, CoverStop, GoToLift
<1> QED
  BY <1>3, DispatchStep DEF Dispatch, Inv

\* Writing a travel time or a deadzone keeps the relays.
LEMMA CalibrateExcused == Inv /\ Calibrate => Excused
<1> SUFFICES ASSUME Inv, Calibrate PROVE SameRelays(c, c')
  BY SameIsSpaced DEF Excused
<1>1. c \in ClusterState
  BY DEF Inv, IInv, Core
<1>2. \A t \in OpenTimes : WriteOpenTime(t) => SameRelays(c, c')
  BY <1>1 DEF WriteOpenTime, OnWriteAttr, CapDeadzones, SameRelays, ClusterState
<1>3. \A t \in CloseTimes : WriteCloseTime(t) => SameRelays(c, c')
  BY <1>1 DEF WriteCloseTime, OnWriteAttr, CapDeadzones, SameRelays, ClusterState
<1>4. \A d \in Deadzones : WriteOpenDeadzone(d) => SameRelays(c, c')
  BY <1>1 DEF WriteOpenDeadzone, OnWriteAttr, CapDeadzones, SameRelays, ClusterState
<1>5. \A d \in Deadzones : WriteClosedDeadzone(d) => SameRelays(c, c')
  BY <1>1 DEF WriteClosedDeadzone, OnWriteAttr, CapDeadzones, SameRelays, ClusterState
<1> QED
  BY <1>2, <1>3, <1>4, <1>5 DEF Calibrate

\* Writing motor_reversal stops the motor no sooner than a stop command would.
LEMMA ReverseMotorExcused == Inv /\ ReverseMotor => Excused
<1> SUFFICES ASSUME Inv, NEW r \in BOOLEAN, WriteMotorReversal(r) PROVE Spaced(c, c')
  BY DEF ReverseMotor, Excused
<1> DEFINE k == [c EXCEPT !.motor_reversal = r]
           n == DispatchAction(k, ActionStop)
<1>1. k \in ClusterState
  BY DEF Inv, IInv, Core, ClusterState
<1>2. IInv(k) /\ SameRelays(c, k) /\ k.since_switch = c.since_switch
  BY <1>1 DEF Inv, IInv, Core, Supervised, SameRelays, ClusterState
<1>3. Spaced(k, n) /\ IInv(n)
  BY <1>2, ConstantTypes, DispatchStep, DispatchActionInv DEF Action
<1>4. Overtaken(k, n.target_motor_position) => Overtaken(c, n.target_motor_position)
  BY DEF Inv, IInv, Core, ClusterState, Overtaken, EstimatedPosition, TravelledDistance,
     TravelTime
<1>5. c' = CapDeadzones(n)
  BY DEF WriteMotorReversal, OnWriteAttr
<1>6. SameRelays(n, c') /\ c'.target_motor_position = n.target_motor_position
  BY <1>3, <1>5, CapRelays DEF IInv, Core
<1> HIDE DEF k, n
<1> QED
  BY <1>2, <1>3, <1>4, <1>6 DEF Spaced, SameRelays, Rested, SwappedFrom

\* A task changes the relays for a named reason only.
LEMMA TasksExcused == Inv /\ Tasks => Excused
<1> SUFFICES ASSUME Inv, Tasks PROVE Excused
  OBVIOUS
<1>1. CASE StopTask
  BY <1>1, AutoStopRelays DEF StopTask, Inv, Excused
<1>2. CASE UpdateTask
  BY <1>2, UpdateRelays, SameIsSpaced DEF UpdateTask, Inv, Excused
<1>3. CASE DelayTask
  BY <1>3, DelayStep DEF DelayTask, Inv, Excused
<1> QED
  BY <1>1, <1>2, <1>3 DEF Tasks

\* Every step changes the relays for a named reason only.
LEMMA NextExcused == Inv /\ [Next]_vars => Excused
<1> SUFFICES ASSUME Inv, [Next]_vars PROVE Excused
  OBVIOUS
<1>1. CASE Tick
  <2>1. SameRelays(c, c')
    BY <1>1 DEF Tick, Elapse, SameRelays, Inv, IInv, Core, ClusterState
  <2> QED
    BY <2>1, SameIsSpaced DEF Excused
<1>2. CASE Reboot
  BY <1>2 DEF Reboot, ClusterInit, NoRelay, Excused
<1>3. CASE UNCHANGED vars
  <2>1. SameRelays(c, c')
    BY <1>3 DEF vars, SameRelays
  <2> QED
    BY <2>1, SameIsSpaced DEF Excused
<1> QED
  BY <1>1, <1>2, <1>3, CommandExcused, CalibrateExcused, ReverseMotorExcused, TasksExcused
  DEF Next

\* Only a refresh that finds the motor past its new target reverses it directly.
THEOREM SwapCorrect == Spec => SwapOnlyWhenOvertaken
<1>1. Excused /\ Swapped => Overtaken(c, c'.target_motor_position)
  BY DEF Excused, Swapped, SwappedFrom, Spaced, NoRelay
<1>2. Inv /\ [Next]_vars => [Swapped => Overtaken(c, c'.target_motor_position)]_vars
  BY <1>1, NextExcused
<1> QED
  BY <1>2, InvariantCorrect, PTL DEF Spec, SwapOnlyWhenOvertaken

\* But for the cases it names, the relays rest RELAY_MIN_SWITCH_TIME_MS between changes.
THEOREM SpacingCorrect == Spec => SwitchesSpaced
<1> DEFINE Allowed == \/ c.since_switch >= RelayMinSwitch
                      \/ c' = ClusterInit(LoadedConfig)
                      \/ c.stop_task = 0 /\ c'.stop_task = Off
                      \/ Swapped
<1>1. Excused => (Relays(c) # Relays(c') => Allowed)
  BY DEF Excused, Swapped, SwappedFrom, Spaced, SameRelays, Relays, Rested
<1>2. Inv /\ [Next]_vars => [Relays(c) # Relays(c') => Allowed]_vars
  BY <1>1, NextExcused
<1> QED
  BY <1>2, InvariantCorrect, PTL DEF Spec, SwitchesSpaced

-----------------------------------------------------------------------------
(* Manual mode.  The motor runs against an end of the position and carries *)
(* a fixed timeout, so a command in its direction finds it there already,  *)
(* and the timeout leaves it the rest that the relays need.                *)

TimesOf(k) == <<k.open_time, k.close_time>>

\* The functions of the motor leave the configured times alone.
LEMMA RefreshedTimes ==
  ASSUME NEW k, Core(k)
  PROVE  TimesOf(Refreshed(k)) = TimesOf(k)
<1>1. CASE k.moving = Stopped
  BY <1>1 DEF Refreshed
<1>2. CASE k.moving # Stopped
  <2> DEFINE x == CancelMovementTasks(k)
  <2>1. Core(x) /\ x.open_time = k.open_time /\ x.close_time = k.close_time
    BY DEF Core, ClusterState, CancelMovementTasks
  <2> HIDE DEF x
  <2> QED
    BY <1>2, <2>1, UpdatePositionCore DEF Refreshed, SameMotion, TimesOf, x
<1> QED
  BY <1>1, <1>2

LEMMA HaltMotorTimes ==
  ASSUME NEW k, Core(k)
  PROVE  TimesOf(HaltMotor(k)) = TimesOf(k)
<1> DEFINE r == [k EXCEPT !.open_relay = FALSE, !.close_relay = FALSE]
<1>1. r \in ClusterState /\ r.open_time = k.open_time /\ r.close_time = k.close_time
  BY DEF Core, ClusterState
<1> HIDE DEF r
<1> QED
  BY <1>1 DEF HaltMotor, SetMoving, TimesOf, ClusterState, r

\* Relays that are switched start their rest; no task is touched.
LEMMA SwitchRelaysFrame ==
  ASSUME NEW k, Core(k), NEW dir \in {Opening, Closing}, dir # k.moving
  PROVE  LET w == SwitchRelays(k, dir)
         IN  /\ w.since_switch = 0 /\ w.update_task = k.update_task
             /\ w.stop_task = k.stop_task
<1> DEFINE opens == (dir = Opening) # k.motor_reversal
           r == [k EXCEPT !.open_relay = opens, !.close_relay = ~opens]
<1>1. /\ r = [r EXCEPT !.open_relay = r.open_relay]
      /\ DOMAIN r = DOMAIN k /\ r.update_task = k.update_task /\ r.stop_task = k.stop_task
  BY DEF Core, ClusterState
<1>2. SwitchRelays(k, dir) = SetMoving(r, dir)
  BY Zenon DEF SwitchRelays
<1>3. {"since_switch", "update_task", "stop_task"} \subseteq DOMAIN k
  BY DEF Core, ClusterState
<1> HIDE DEF r
<1> QED
  BY <1>1, <1>2, <1>3 DEF SetMoving

\* The motor runs at an end of the position, and its timeout does not cut the rest
\* of the relays short.
ManualInv(k) ==
  /\ IInv(k) /\ TimesOf(k) = <<0, 0>> /\ k.update_task = Off
  /\ k.moving = Opening => k.motor_position = MaxMotorPosition
  /\ k.moving = Closing => k.motor_position = 0
  /\ k.moving # Stopped => k.stop_task + k.since_switch >= RelayMinSwitch

DriveOf(k) == IF k.open_relay THEN "open" ELSE IF k.close_relay THEN "close" ELSE "off"

LeftOf(k) == IF k.stop_task = Off THEN 0 ELSE k.stop_task

\* A callback that is none of the motor's business.
Unmoved(k, n) ==
  /\ SameRelays(k, n) /\ n.moving = k.moving /\ n.motor_position = k.motor_position
  /\ n.since_switch = k.since_switch /\ n.stop_task = k.stop_task
  /\ n.update_task = k.update_task /\ TimesOf(n) = TimesOf(k)

Starts(k, n) ==
  /\ DriveOf(k) = "off" /\ Rested(k)
  /\ DriveOf(n) \in {"open", "close"} /\ n.since_switch = 0 /\ LeftOf(n) = ManualTimeout

Halts(k, n) ==
  /\ DriveOf(k) # "off" /\ Rested(k)
  /\ DriveOf(n) = "off" /\ n.since_switch = 0 /\ LeftOf(n) = 0

MayBecome(k, n) == Unmoved(k, n) \/ Starts(k, n) \/ Halts(k, n)

LEMMA DriveIs ==
  ASSUME NEW k, IInv(k)
  PROVE  /\ DriveOf(k) = "off" <=> k.moving = Stopped
         /\ DriveOf(k) \in {"off", "open", "close"}
BY DEF IInv, Core, DriveOf

LEMMA UnmovedInv ==
  ASSUME NEW k, ManualInv(k), NEW n, IInv(n), Unmoved(k, n)
  PROVE  ManualInv(n)
BY DEF ManualInv, Unmoved

LEMMA ManualMode ==
  ASSUME NEW k, ManualInv(k)
  PROVE  IsManualMode(k) /\ IInv(k) /\ Core(k) /\ k \in ClusterState
BY DEF ManualInv, TimesOf, IsManualMode, IInv, Core

\* Cancelling and deferring.
LEMMA CancelManual ==
  ASSUME NEW k, ManualInv(k)
  PROVE  ManualInv(CancelPending(k)) /\ Unmoved(k, CancelPending(k))
<1>1. Unmoved(k, CancelPending(k))
  BY ManualMode DEF Unmoved, CancelPending, SameRelays, TimesOf, ClusterState
<1> QED
  BY <1>1, ManualMode, CancelPendingInv, UnmovedInv

LEMMA DeferUnmoved ==
  ASSUME NEW k \in ClusterState, NEW action, NEW delay
  PROVE  Unmoved(k, DeferAction(k, action, delay))
BY DEF Unmoved, DeferAction, SameRelays, TimesOf, ClusterState

LEMMA DeferManual ==
  ASSUME NEW k, ManualInv(k), NEW action \in Action, action # ActionNone
  PROVE  LET n == DeferToSafeTime(k, action) IN ManualInv(n) /\ Unmoved(k, n)
BY ManualMode, DeferToSafeTimeInv, DeferUnmoved, UnmovedInv DEF DeferToSafeTime

\* Stopping a motor whose relays have rested.
LEMMA HaltManual ==
  ASSUME NEW k, ManualInv(k), k.moving # Stopped, Rested(k)
  PROVE  LET n == ExecuteAction(k, ActionStop)
         IN  /\ ManualInv(n) /\ Halts(k, n) /\ n.moving = Stopped /\ n.since_switch = 0
<1> DEFINE n == ExecuteAction(k, ActionStop)
<1>1. IInv(k) /\ Core(k)
  BY ManualMode
<1>2. /\ IInv(n) /\ n.moving = Stopped /\ n.since_switch = 0 /\ NoRelay(n)
  BY <1>1, StopMoving, StopRelays
<1>3. TimesOf(n) = <<0, 0>>
  <2>1. ~NothingToExecute(k, ActionStop)
    BY <1>1, ConstantTypes DEF NothingToExecute, Core, ClusterState, MotorPosition
  <2>2. n = HaltMotor(Refreshed(k))
    BY <2>1, ExecuteActionCases
  <2>3. Core(Refreshed(k))
    BY <1>1, RefreshedCore
  <2> QED
    BY <1>1, <2>2, <2>3, RefreshedTimes, HaltMotorTimes DEF ManualInv
<1> HIDE DEF n
<1>4. n.stop_task = Off /\ n.update_task = Off
  BY <1>2 DEF IInv, Supervised
<1>5. ManualInv(n)
  BY <1>2, <1>3, <1>4 DEF ManualInv, Stopped, Opening, Closing
<1>6. DriveOf(k) # "off" /\ DriveOf(n) = "off"
  BY <1>1, <1>2, DriveIs
<1> QED
  BY <1>2, <1>4, <1>5, <1>6 DEF Halts, LeftOf, n

\* Starting a motor whose relays have rested.
LEMMA StartManual ==
  ASSUME NEW k, ManualInv(k), k.moving = Stopped, Rested(k), NEW action \in MotorPosition,
         ManualTimeout >= RelayMinSwitch
  PROVE  LET n == StartMotor(k, action) IN ManualInv(n) /\ Starts(k, n)
<1> DEFINE n == StartMotor(k, action)
           dir == DirectionTo(k, action)
           w == SwitchRelays(k, dir)
           s == [w EXCEPT !.target_motor_position = action]
<1>1. IInv(k) /\ Core(k) /\ IsManualMode(k)
  BY ManualMode
<1>2. dir \in {Opening, Closing} /\ dir # Stopped /\ dir # k.moving
  BY DEF DirectionTo, Stopped, Opening, Closing
<1>3. IInv(n) /\ n.moving = dir
  BY <1>1, StartMotorInv
<1>4. n = SnapToEnd(s, dir)
  BY <1>1 DEF StartMotor
<1>5. /\ Core(w) /\ w.since_switch = 0 /\ w.update_task = k.update_task
      /\ w.open_time = k.open_time /\ w.close_time = k.close_time
  BY <1>1, <1>2, SwitchRelaysCore, SwitchRelaysFrame
<1> HIDE DEF dir, w
<1>6. /\ s \in ClusterState /\ s.since_switch = 0 /\ s.update_task = Off
      /\ s.open_time = k.open_time /\ s.close_time = k.close_time
  <2>1. k.update_task = Off
    BY DEF ManualInv
  <2> QED
    BY <1>5, <2>1 DEF Core, ClusterState
<1> HIDE DEF n, s
<1>7. /\ n.since_switch = 0 /\ n.update_task = Off /\ TimesOf(n) = TimesOf(k)
      /\ n.stop_task = ManualTimeout
      /\ n.motor_position = IF dir = Opening THEN MaxMotorPosition ELSE 0
  BY <1>4, <1>6 DEF SnapToEnd, ClusterState, TimesOf
<1>8. /\ ManualTimeout # Off /\ ManualTimeout + 0 >= RelayMinSwitch
      /\ Opening # Closing
  BY ConstantsAssumption DEF Off, Opening, Closing
<1>9. ManualInv(n)
  BY <1>3, <1>7, <1>8 DEF ManualInv
<1>10. DriveOf(k) = "off" /\ DriveOf(n) \in {"open", "close"}
  BY <1>1, <1>2, <1>3, DriveIs
<1> QED
  BY <1>7, <1>8, <1>9, <1>10 DEF Starts, LeftOf, n

\* cover_dispatch_action in manual mode.
LEMMA DispatchManual ==
  ASSUME NEW k, ManualInv(k), NEW action \in Action, ManualTimeout >= RelayMinSwitch
  PROVE  LET n == DispatchAction(k, action) IN ManualInv(n) /\ MayBecome(k, n)
<1> DEFINE n == DispatchAction(k, action)
<1>1. IInv(k) /\ Core(k)
  BY ManualMode
<1>2. SwitchedRecently(k) \/ Rested(k)
  <2>1. k.since_switch \in Nat /\ RelayMinSwitch \in Nat
    BY <1>1, ConstantsAssumption DEF Core, ClusterState
  <2> QED
    BY <2>1 DEF Rested, SwitchedRecently
<1>3. ActionStop \in Action /\ ActionStop # ActionNone
  BY ConstantTypes DEF Action
<1>4. CASE action = ActionNone
  <2>1. n = k
    BY <1>4, ConstantTypes DEF DispatchAction
  <2> QED
    BY <2>1 DEF MayBecome, Unmoved, SameRelays
<1>5. CASE action = ActionStop
  <2>1. n = DispatchStop(k)
    BY <1>3, <1>5 DEF DispatchAction
  <2>2. CASE k.moving = Stopped
    <3>1. n = CancelPending(k)
      BY <2>1, <2>2 DEF DispatchStop
    <3> QED
      BY <3>1, CancelManual DEF MayBecome
  <2>3. CASE k.moving # Stopped /\ SwitchedRecently(k)
    <3>1. n = DeferToSafeTime(k, ActionStop)
      BY <2>1, <2>3 DEF DispatchStop
    <3> QED
      BY <1>3, <3>1, DeferManual DEF MayBecome
  <2>4. CASE k.moving # Stopped /\ ~SwitchedRecently(k)
    <3>1. n = ExecuteAction(k, ActionStop)
      BY <2>1, <2>4 DEF DispatchStop
    <3> QED
      BY <1>2, <2>4, <3>1, HaltManual DEF MayBecome
  <2> QED
    BY <2>2, <2>3, <2>4
<1>6. CASE action \notin {ActionNone, ActionStop}
  <2>1. action \in MotorPosition /\ n = DispatchMove(k, action)
    BY <1>6, ConstantTypes DEF DispatchAction, Action, MotorPosition
  <2>2. CASE k.moving = DirectionTo(k, action)
    <3> DEFINE x == CancelPending(k)
    <3>1. action = k.motor_position
      <4>1. action \in 0 .. MaxMotorPosition /\ MaxMotorPosition \in Nat
        BY <2>1, ConstantTypes DEF MotorPosition
      <4>2. CASE action > k.motor_position
        <5>1. k.moving = Opening
          BY <2>2, <4>2 DEF DirectionTo
        <5> QED
          BY <4>1, <4>2, <5>1 DEF ManualInv
      <4>3. CASE ~(action > k.motor_position)
        <5>1. k.moving = Closing
          BY <2>2, <4>3 DEF DirectionTo
        <5> QED
          BY <4>1, <4>3, <5>1 DEF ManualInv
      <4> QED
        BY <4>2, <4>3
    <3>2. x.motor_position = k.motor_position
      BY CancelManual DEF Unmoved
    <3>3. n = ExecuteAction(x, action)
      BY <2>1, <2>2 DEF DispatchMove
    <3> HIDE DEF x, n
    <3>4. NothingToExecute(x, action)
      BY <3>1, <3>2 DEF NothingToExecute
    <3>5. n = x
      BY <3>3, <3>4, ExecuteActionCases
    <3> QED
      BY <3>5, CancelManual DEF MayBecome, x, n
  <2>3. CASE k.moving # DirectionTo(k, action) /\ SwitchedRecently(k)
    <3>1. n = DeferToSafeTime(k, action)
      BY <2>1, <2>3 DEF DispatchMove
    <3>2. ManualInv(n) /\ Unmoved(k, n)
      BY <1>6, <3>1, DeferManual
    <3> QED
      BY <3>2 DEF MayBecome
  <2>4. CASE k.moving # DirectionTo(k, action) /\ ~SwitchedRecently(k) /\ k.moving = Stopped
    <3>1. n = ExecuteAction(k, action)
      BY <2>1, <2>4 DEF DispatchMove
    <3>2. CASE NothingToExecute(k, action)
      <4>1. n = k
        BY <3>1, <3>2, ExecuteActionCases
      <4> QED
        BY <4>1 DEF MayBecome, Unmoved, SameRelays
    <3>3. CASE ~NothingToExecute(k, action)
      <4>1. n = StartMotor(k, action)
        BY <1>6, <2>4, <3>1, <3>3, ExecuteActionCases DEF Refreshed
      <4>2. ManualInv(n) /\ Starts(k, n)
        BY <1>2, <2>1, <2>4, <4>1, StartManual
      <4> QED
        BY <4>2 DEF MayBecome
    <3> QED
      BY <3>2, <3>3
  <2>5. CASE k.moving # DirectionTo(k, action) /\ ~SwitchedRecently(k) /\ k.moving # Stopped
    <3> DEFINE h == ExecuteAction(k, ActionStop)
    <3>1. n = DeferAction(h, action, RelayMinSwitch)
      BY <2>1, <2>5 DEF DispatchMove
    <3>2. ManualInv(h) /\ Halts(k, h) /\ h.moving = Stopped /\ h.since_switch = 0
      BY <1>2, <2>5, HaltManual
    <3>3. IInv(h) /\ h \in ClusterState
      BY <3>2, ManualMode
    <3> HIDE DEF h
    <3>4. RelayMinSwitch \in Nat /\ RelayMinSwitch + h.since_switch <= RelayMinSwitch
      BY <3>2, ConstantsAssumption
    <3>5. IInv(n) /\ Unmoved(h, n)
      BY <1>6, <3>1, <3>3, <3>4, DeferActionInv, DeferUnmoved
    <3> HIDE DEF n
    <3>6. ManualInv(n)
      BY <3>2, <3>5, UnmovedInv
    <3>7. Halts(k, n)
      BY <3>2, <3>5 DEF Halts, Unmoved, DriveOf, LeftOf, SameRelays
    <3> QED
      BY <3>6, <3>7 DEF MayBecome, n
  <2> QED
    BY <2>2, <2>3, <2>4, <2>5
<1> QED
  BY <1>4, <1>5, <1>6

-----------------------------------------------------------------------------
(* Every step in manual mode is one of MotorProtection.                    *)

ProtectionNext ==
  Protection!Start \/ Protection!Stop \/ Protection!Wait \/ Protection!LosePower

ProtectionVars == <<Drive, c.since_switch, RunLeft>>

ManualStored == \A cfg \in nv : cfg.open_time = 0 /\ cfg.close_time = 0

ManualSpecInv == Inv /\ ManualInv(c) /\ ManualStored

\* What the callbacks do to the motor, MotorProtection allows.
LEMMA BecomesProtected ==
  ASSUME Inv, Inv', MayBecome(c, c')
  PROVE  [ProtectionNext]_ProtectionVars
<1>1. CASE Unmoved(c, c')
  BY <1>1 DEF Unmoved, SameRelays, ProtectionVars, Drive, RunLeft
<1>2. CASE Starts(c, c')
  BY <1>2 DEF Starts, DriveOf, LeftOf, Rested, ProtectionNext, Protection!Start,
     Protection!MayStart, Drive, RunLeft
<1>3. CASE Halts(c, c')
  BY <1>3 DEF Halts, DriveOf, LeftOf, Rested, ProtectionNext, Protection!Stop,
     Protection!MayStop, Drive, RunLeft
<1> QED
  BY <1>1, <1>2, <1>3 DEF MayBecome

LEMMA CommandManual ==
  ASSUME ManualSpecInv, Command, ManualTimeout >= RelayMinSwitch
  PROVE  ManualInv(c') /\ MayBecome(c, c')
<1>1. IsManualMode(c)
  BY ManualMode DEF ManualSpecInv
<1>2. {ActionStop, 0, MaxMotorPosition} \subseteq Action
  BY ConstantTypes DEF Action
<1>3. PICK action \in Action : Dispatch(action)
  BY <1>1, <1>2 DEF Command, CoverOpen, CoverClose, CoverStop, GoToLift
<1> QED
  BY <1>3, DispatchManual DEF Dispatch, ManualSpecInv

\* Attribute writes: of a deadzone, of a travel time that stays zero, of the reversal.
LEMMA CapUnmoved ==
  ASSUME NEW k \in ClusterState
  PROVE  Unmoved(k, CapDeadzones(k))
BY DEF CapDeadzones, Unmoved, SameRelays, TimesOf, ClusterState

LEMMA CalibrateManual ==
  ASSUME ManualSpecInv, Calibrate, OpenTimes = {0}, CloseTimes = {0}
  PROVE  ManualInv(c') /\ MayBecome(c, c')
<1>1. c \in ClusterState /\ ManualInv(c) /\ c.open_time = 0 /\ c.close_time = 0
  BY ManualMode DEF ManualSpecInv, ManualInv, TimesOf
<1>2. IInv(c')
  BY CalibrateInv DEF ManualSpecInv, Inv
<1>3. Unmoved(c, c')
  <2>1. ASSUME WriteOpenTime(0) PROVE Unmoved(c, c')
    BY <1>1, <2>1 DEF WriteOpenTime, OnWriteAttr, CapDeadzones, Unmoved, SameRelays, TimesOf,
       ClusterState
  <2>2. ASSUME WriteCloseTime(0) PROVE Unmoved(c, c')
    BY <1>1, <2>2 DEF WriteCloseTime, OnWriteAttr, CapDeadzones, Unmoved, SameRelays, TimesOf,
       ClusterState
  <2>3. ASSUME NEW d, WriteOpenDeadzone(d) PROVE Unmoved(c, c')
    BY <1>1, <2>3 DEF WriteOpenDeadzone, OnWriteAttr, CapDeadzones, Unmoved, SameRelays,
       TimesOf, ClusterState
  <2>4. ASSUME NEW d, WriteClosedDeadzone(d) PROVE Unmoved(c, c')
    BY <1>1, <2>4 DEF WriteClosedDeadzone, OnWriteAttr, CapDeadzones, Unmoved, SameRelays,
       TimesOf, ClusterState
  <2> QED
    BY <2>1, <2>2, <2>3, <2>4 DEF Calibrate
<1> QED
  BY <1>1, <1>2, <1>3, UnmovedInv DEF MayBecome

LEMMA ReverseManual ==
  ASSUME ManualSpecInv, ReverseMotor, ManualTimeout >= RelayMinSwitch
  PROVE  ManualInv(c') /\ MayBecome(c, c')
<1> PICK r \in BOOLEAN : WriteMotorReversal(r)
  BY DEF ReverseMotor
<1> DEFINE k == [c EXCEPT !.motor_reversal = r]
           n == DispatchAction(k, ActionStop)
<1>1. c \in ClusterState /\ ManualInv(c) /\ IInv(c) /\ Core(c)
  BY ManualMode DEF ManualSpecInv
<1>2. k \in ClusterState /\ Unmoved(c, k) /\ IInv(k)
  <2>1. k \in ClusterState /\ Unmoved(c, k)
    BY <1>1 DEF ClusterState, Unmoved, SameRelays, TimesOf
  <2> QED
    BY <1>1, <2>1 DEF IInv, Core, Supervised, ClusterState
<1>3. ManualInv(k)
  BY <1>1, <1>2, UnmovedInv
<1>4. ManualInv(n) /\ MayBecome(k, n)
  BY <1>3, ConstantTypes, DispatchManual DEF Action
<1>5. c' = CapDeadzones(n) /\ IInv(c')
  BY ReverseMotorInv DEF WriteMotorReversal, OnWriteAttr, ManualSpecInv, Inv
<1> HIDE DEF k, n
<1>6. Unmoved(n, c')
  BY <1>4, <1>5, ManualMode, CapUnmoved
<1>7. ManualInv(c')
  BY <1>4, <1>5, <1>6, UnmovedInv
<1> QED
  BY <1>2, <1>4, <1>6, <1>7
  DEF MayBecome, Unmoved, Starts, Halts, DriveOf, LeftOf, Rested, SameRelays

\* The timeout: the relays have rested by then.
LEMMA StopTaskManual ==
  ASSUME ManualSpecInv, StopTask
  PROVE  ManualInv(c') /\ MayBecome(c, c')
<1> DEFINE x == [c EXCEPT !.stop_task = Off]
           h == ExecuteAction(x, ActionStop)
<1>1. /\ c \in ClusterState /\ ManualInv(c) /\ IInv(c) /\ Core(c) /\ c.stop_task = 0
      /\ c' = AutoStopHandler(c)
  BY ManualMode DEF ManualSpecInv, StopTask
<1>2. c.moving # Stopped
  BY <1>1 DEF IInv, Supervised, Off
<1>3. Rested(c)
  BY <1>1, <1>2, ConstantsAssumption DEF ManualInv, Rested, ClusterState
<1>4. Core(x) /\ x.moving # Stopped /\ TimesOf(x) = TimesOf(c)
  BY <1>1, <1>2 DEF Core, ClusterState, TimesOf
<1>5. /\ IInv(h) /\ h.moving = Stopped /\ h.since_switch = 0 /\ NoRelay(h)
  BY <1>4, StopMoving, StopRelays
<1>6. TimesOf(h) = TimesOf(c)
  <2>1. ~NothingToExecute(x, ActionStop)
    BY <1>4, ConstantTypes DEF NothingToExecute, Core, ClusterState, MotorPosition
  <2>2. h = HaltMotor(Refreshed(x))
    BY <2>1, ExecuteActionCases
  <2>3. Core(Refreshed(x))
    BY <1>4, RefreshedCore
  <2> QED
    BY <1>4, <2>2, <2>3, RefreshedTimes, HaltMotorTimes
<1> HIDE DEF h, x
<1>7. h.target_motor_position \in MotorPosition
  BY <1>5 DEF IInv, Core, ClusterState
<1>8. SameMotion(h, c')
  BY <1>1, <1>5, <1>7, SetPositionCore DEF AutoStopHandler, IInv, h, x
<1>9. IInv(c')
  BY <1>1, AutoStopInv
<1>10. /\ c'.moving = Stopped /\ c'.since_switch = 0 /\ NoRelay(c')
       /\ TimesOf(c') = TimesOf(c) /\ c'.stop_task = Off /\ c'.update_task = Off
  BY <1>5, <1>6, <1>8 DEF SameMotion, NoRelay, TimesOf, IInv, Supervised
<1>11. ManualInv(c')
  BY <1>1, <1>9, <1>10 DEF ManualInv, Stopped, Opening, Closing
<1>12. Halts(c, c')
  BY <1>1, <1>2, <1>3, <1>9, <1>10, DriveIs DEF Halts, LeftOf
<1> QED
  BY <1>11, <1>12 DEF MayBecome

LEMMA DelayTaskManual ==
  ASSUME ManualSpecInv, DelayTask, ManualTimeout >= RelayMinSwitch
  PROVE  ManualInv(c') /\ MayBecome(c, c')
<1> DEFINE x == CancelPending(c)
<1>1. ManualInv(x) /\ Unmoved(c, x) /\ c.pending_action \in Action
  BY CancelManual, ManualMode DEF ManualSpecInv, ClusterState
<1>2. ManualInv(c') /\ MayBecome(x, c')
  BY <1>1, DispatchManual DEF DelayTask, DelayHandler
<1> HIDE DEF x
<1> QED
  BY <1>1, <1>2 DEF MayBecome, Unmoved, Starts, Halts, DriveOf, LeftOf, Rested, SameRelays

LEMMA TickManual ==
  ASSUME ManualSpecInv, Tick
  PROVE  ManualInv(c') /\ Protection!Wait
<1>1. /\ c \in ClusterState /\ ManualInv(c) /\ IInv(c) /\ IInv(c')
      /\ c' = Elapse(c) /\ c.stop_task # 0
  BY ManualMode, NextInv DEF ManualSpecInv, Inv, Tick, NoTaskDue, Next
<1>2. /\ c'.stop_task = CountDown(c.stop_task) /\ c'.update_task = CountDown(c.update_task)
      /\ c'.since_switch = CountUp(c.since_switch, RelayMinSwitch)
      /\ SameRelays(c, c') /\ c'.moving = c.moving /\ c'.motor_position = c.motor_position
      /\ TimesOf(c') = TimesOf(c)
  BY <1>1 DEF Elapse, ClusterState, SameRelays, TimesOf
<1>3. /\ c.stop_task \in {Off} \cup Nat /\ c.since_switch \in 0 .. RelayMinSwitch
      /\ RelayMinSwitch \in Nat /\ c.update_task = Off
  BY <1>1, ConstantsAssumption DEF ClusterState, ManualInv
<1>4. c.moving # Stopped => c.stop_task \in Nat /\ c.stop_task > 0
  BY <1>1, <1>3 DEF IInv, Supervised
<1>5. c.moving = Stopped => c.stop_task = Off
  BY <1>1 DEF IInv, Supervised
<1>6. c'.moving # Stopped => c'.stop_task + c'.since_switch >= RelayMinSwitch
  <2>1. c.moving # Stopped => c.stop_task + c.since_switch >= RelayMinSwitch
    BY <1>1 DEF ManualInv
  <2> QED
    BY <1>2, <1>3, <1>4, <2>1 DEF CountDown, CountUp, Off
<1>7. ManualInv(c')
  BY <1>1, <1>2, <1>3, <1>6 DEF ManualInv, CountDown
<1>8. Drive # "off" <=> c.moving # Stopped
  BY <1>1, DriveIs DEF Drive, DriveOf
<1>9. /\ RunLeft' = IF Drive = "off" THEN 0 ELSE RunLeft - 1
      /\ Drive # "off" => RunLeft > 0
  BY <1>2, <1>4, <1>5, <1>8 DEF RunLeft, CountDown, Off
<1>10. Drive' = Drive
  BY <1>2 DEF Drive, SameRelays
<1>11. c'.since_switch = IF c.since_switch >= RelayMinSwitch THEN RelayMinSwitch
                         ELSE c.since_switch + 1
  BY <1>2 DEF CountUp
<1> QED
  BY <1>7, <1>9, <1>10, <1>11 DEF Protection!Wait

LEMMA InitManual ==
  ASSUME NEW cfg \in Config, cfg.open_time = 0, cfg.close_time = 0
  PROVE  ManualInv(ClusterInit(cfg))
<1> DEFINE n == ClusterInit(cfg)
<1>1. IInv(n)
  BY ClusterInitInv
<1>2. n.open_time = 0 /\ n.close_time = 0 /\ n.update_task = Off /\ n.moving = Stopped
  BY DEF ClusterInit
<1> HIDE DEF n
<1> QED
  BY <1>1, <1>2 DEF ManualInv, TimesOf, Stopped, Opening, Closing, n

LEMMA LoadedManual ==
  ASSUME nv \in SUBSET Config, ManualStored, DefaultOpenTime = 0
  PROVE  ManualInv(ClusterInit(LoadedConfig))
<1>1. LoadedConfig \in Config
  BY LoadedConfigType
<1>2. LoadedConfig.open_time = 0 /\ LoadedConfig.close_time = 0
  <2>1. CASE nv = {}
    BY <2>1 DEF LoadedConfig, DefaultConfig
  <2>2. CASE nv # {}
    <3>1. LoadedConfig \in nv
      BY <2>2 DEF LoadedConfig
    <3> QED
      BY <3>1 DEF ManualStored
  <2> QED
    BY <2>1, <2>2
<1> QED
  BY <1>1, <1>2, InitManual

\* What an attribute write stores is the configuration of a cluster in manual mode.
LEMMA StoredManual ==
  ASSUME NEW written, OnWriteAttr(written), ManualInv(c')
  PROVE  ManualStored'
BY DEF OnWriteAttr, ManualInv, TimesOf, ManualStored, StoredConfig

LEMMA RebootManual ==
  ASSUME ManualSpecInv, Reboot, DefaultOpenTime = 0
  PROVE  ManualInv(c') /\ Protection!LosePower
<1> DEFINE n == ClusterInit(LoadedConfig)
<1>1. c' = n
  BY DEF Reboot
<1>2. ManualInv(n)
  BY LoadedManual DEF ManualSpecInv, Inv
<1>3. /\ ~n.open_relay /\ ~n.close_relay
      /\ n.since_switch = 0 /\ n.stop_task = Off
  BY DEF ClusterInit
<1> HIDE DEF n
<1> QED
  BY <1>1, <1>2, <1>3 DEF Protection!LosePower, Drive, RunLeft

\* The device starts at rest and without travel times, and stays without them.
LEMMA ManualInit ==
  ASSUME KeptManual, Init
  PROVE  ManualSpecInv /\ Protection!ProtectionInit
<1>1. Inv
  BY InitInv
<1>2. ManualStored
  <2>1. CASE nv = {}
    BY <2>1 DEF ManualStored
  <2>2. ASSUME NEW t \in OpenTimes, NEW u \in CloseTimes, NEW r \in BOOLEAN,
               nv = {Configured(t, u, r)}
        PROVE  ManualStored
    <3>1. t = 0 /\ u = 0
      BY <2>2 DEF KeptManual
    <3>2. Configured(t, u, r).open_time = 0 /\ Configured(t, u, r).close_time = 0
      BY <3>1 DEF Configured, DefaultConfig
    <3> QED
      BY <2>2, <3>2 DEF ManualStored
  <2> QED
    BY <2>1, <2>2 DEF Init
<1>3. ManualInv(c)
  BY <1>1, <1>2, LoadedManual DEF Init, Inv, KeptManual
<1>4. ~c.open_relay /\ ~c.close_relay /\ c.since_switch = 0 /\ c.stop_task = Off
  <2> DEFINE n == ClusterInit(LoadedConfig)
  <2>1. ~n.open_relay /\ ~n.close_relay /\ n.since_switch = 0 /\ n.stop_task = Off
    BY DEF ClusterInit
  <2> HIDE DEF n
  <2> QED
    BY <2>1 DEF Init, n
<1> QED
  BY <1>1, <1>2, <1>3, <1>4 DEF ManualSpecInv, Protection!ProtectionInit, Drive, RunLeft

\* Every step keeps the device in manual mode and is one that MotorProtection allows.
LEMMA ManualNext ==
  ASSUME KeptManual, ManualSpecInv, [Next]_vars
  PROVE  ManualSpecInv' /\ [ProtectionNext]_ProtectionVars
<1>1. Inv /\ Inv'
  BY NextInv DEF ManualSpecInv
<1>2. ASSUME ManualInv(c'), UNCHANGED nv PROVE ManualSpecInv'
  BY <1>1, <1>2 DEF ManualSpecInv, ManualStored
<1>3. ASSUME NEW written, OnWriteAttr(written), ManualInv(c') PROVE ManualSpecInv'
  BY <1>1, <1>3, StoredManual DEF ManualSpecInv
<1>4. CASE Command
  <2>1. ManualInv(c') /\ MayBecome(c, c')
    BY <1>4, CommandManual, ManualAssumption DEF KeptManual
  <2>2. UNCHANGED nv
    BY <1>4 DEF Command, CoverOpen, CoverClose, CoverStop, GoToLift, Dispatch
  <2> QED
    BY <1>1, <1>2, <2>1, <2>2, BecomesProtected
<1>5. CASE Calibrate
  <2>1. ManualInv(c') /\ MayBecome(c, c')
    BY <1>5, CalibrateManual, ManualAssumption DEF KeptManual
  <2>2. \E written : OnWriteAttr(written)
    BY <1>5 DEF Calibrate, WriteOpenTime, WriteCloseTime, WriteOpenDeadzone,
       WriteClosedDeadzone
  <2> QED
    BY <1>1, <1>3, <2>1, <2>2, BecomesProtected
<1>6. CASE ReverseMotor
  <2>1. ManualInv(c') /\ MayBecome(c, c')
    BY <1>6, ReverseManual, ManualAssumption DEF KeptManual
  <2>2. \E written : OnWriteAttr(written)
    BY <1>6 DEF ReverseMotor, WriteMotorReversal
  <2> QED
    BY <1>1, <1>3, <2>1, <2>2, BecomesProtected
<1>7. CASE StopTask
  <2>1. UNCHANGED nv
    BY <1>7 DEF StopTask
  <2> QED
    BY <1>1, <1>2, <1>7, <2>1, StopTaskManual, BecomesProtected
<1>8. CASE DelayTask
  <2>1. UNCHANGED nv
    BY <1>8 DEF DelayTask
  <2> QED
    BY <1>1, <1>2, <1>8, <2>1, DelayTaskManual, BecomesProtected, ManualAssumption
    DEF KeptManual
<1>9. CASE UpdateTask
  BY <1>9 DEF UpdateTask, ManualSpecInv, ManualInv, Off
<1>10. CASE Tick
  <2>1. UNCHANGED nv
    BY <1>10 DEF Tick
  <2> QED
    BY <1>2, <1>10, <2>1, TickManual DEF ProtectionNext
<1>11. CASE Reboot
  <2>1. UNCHANGED nv
    BY <1>11 DEF Reboot
  <2> QED
    BY <1>2, <1>11, <2>1, RebootManual DEF ProtectionNext, KeptManual
<1>12. CASE UNCHANGED vars
  <2>1. c' = c /\ nv' = nv
    BY <1>12 DEF vars
  <2>2. UNCHANGED ProtectionVars
    BY <2>1 DEF ProtectionVars, Drive, RunLeft
  <2> QED
    BY <1>2, <2>1, <2>2 DEF ManualSpecInv
<1> QED
  BY <1>4, <1>5, <1>6, <1>7, <1>8, <1>9, <1>10, <1>11, <1>12 DEF Next, Tasks

\* In manual mode cover_dispatch_action implements the protection it documents
\* (cover_cluster.c:318-324), whatever the commands, deferrals, reversals and restarts:
\* one direction at a time, RELAY_MIN_SWITCH_TIME_MS between any two changes of the
\* relays, and no run beyond MANUAL_MODE_TIMEOUT_MS.
THEOREM ManualProtected ==
  ASSUME KeptManual
  PROVE  Spec => ProtectsMotor
<1>1. Protection!ProtectionInit /\ [][ProtectionNext]_ProtectionVars => ProtectsMotor
  BY PTL DEF ProtectsMotor, Protection!ProtectionSpec, ProtectionNext, ProtectionVars,
     Protection!protection
<1>2. Init => ManualSpecInv /\ Protection!ProtectionInit
  BY ManualInit
<1>3. ManualSpecInv /\ [Next]_vars => ManualSpecInv' /\ [ProtectionNext]_ProtectionVars
  BY ManualNext
<1> QED
  BY <1>1, <1>2, <1>3, PTL DEF Spec

-----------------------------------------------------------------------------
(* The cover with its shade.  A timed cluster does one of four things to   *)
(* its motor: it goes on, looks where it is, stops, or moves to a target.  *)

\* Quotients.
LEMMA DivExact ==
  ASSUME NEW x \in Nat, NEW n \in Nat, n > 0
  PROVE  (x * n) \div n = x
OBVIOUS

LEMMA DivMonotone ==
  ASSUME NEW x \in Nat, NEW y \in Nat, NEW n \in Nat, n > 0, x <= y
  PROVE  x \div n <= y \div n
OBVIOUS

Speeds(k) == <<TravelTime(k, Opening), TravelTime(k, Closing)>>

SameMove(k, n) ==
  /\ SameRelays(k, n) /\ n.moving = k.moving /\ n.stop_task = k.stop_task
  /\ n.start_motor_position = k.start_motor_position /\ n.elapsed = k.elapsed
  /\ n.target_motor_position = k.target_motor_position /\ Speeds(n) = Speeds(k)

GoesOn(k, n) ==
  SameMove(k, n) /\ n.motor_position = k.motor_position /\ n.update_task = k.update_task

Looks(k, n) ==
  /\ SameMove(k, n) /\ k.moving # Stopped
  /\ n.motor_position = EstimatedPosition(k)
  /\ n.update_task = UpdateInterval(n, n.moving)

Stops(k, n) ==
  /\ k.moving # Stopped /\ n.moving = Stopped /\ NoRelay(n)
  /\ n.motor_position = EstimatedPosition(k) /\ Speeds(n) = Speeds(k)

\* A new move starts from where the cover is at the moment, and keeps the relays of
\* a move in its direction.
Moves(k, n, action) ==
  /\ action # k.motor_position /\ k.moving \in {Stopped, DirectionTo(k, action)}
  /\ n.start_motor_position = TrackedPosition(k) /\ n.motor_position = TrackedPosition(k)
  /\ n.moving = DirectionTo(n, action) /\ n.target_motor_position = action
  /\ n.elapsed = 0 /\ n.stop_task = MoveDuration(n, n.moving, action)
  /\ n.update_task = UpdateInterval(n, n.moving) /\ Speeds(n) = Speeds(k)
  /\ IF n.moving = k.moving THEN SameRelays(k, n)
     ELSE n.open_relay <=> ((n.moving = Opening) # n.motor_reversal)

LEMMA SpeedsOfTimes ==
  ASSUME NEW k, NEW n, TimesOf(n) = TimesOf(k)
  PROVE  Speeds(n) = Speeds(k)
BY DEF Speeds, TimesOf, TravelTime

\* The estimate is a function of the move.
LEMMA SameEstimate ==
  ASSUME NEW k, NEW n, n.moving = k.moving, n.moving \in {Opening, Closing},
         n.start_motor_position = k.start_motor_position, n.elapsed = k.elapsed,
         Speeds(n) = Speeds(k)
  PROVE  EstimatedPosition(n) = EstimatedPosition(k)
<1>1. TravelTime(n, n.moving) = TravelTime(k, k.moving)
  BY DEF Speeds
<1> QED
  BY <1>1 DEF EstimatedPosition, TravelledDistance

\* The wiring is looked up at the moment the relays are switched.
LEMMA SwitchRelaysWiring ==
  ASSUME NEW k, Core(k), NEW dir
  PROVE  LET w == SwitchRelays(k, dir)
         IN  IF dir = k.moving THEN SameRelays(k, w)
             ELSE w.open_relay <=> ((dir = Opening) # w.motor_reversal)
<1>1. CASE dir = k.moving
  BY <1>1 DEF SwitchRelays, SameRelays
<1>2. CASE dir # k.moving
  <2> DEFINE opens == (dir = Opening) # k.motor_reversal
             closes == ~opens
             r == [k EXCEPT !.open_relay = opens, !.close_relay = closes]
             w == SwitchRelays(k, dir)
  <2>1. opens \in BOOLEAN /\ closes \in BOOLEAN
    OBVIOUS
  <2>2. w = SetMoving(r, dir)
    BY <1>2, Zenon DEF SwitchRelays
  <2>3. opens <=> ((dir = Opening) # k.motor_reversal)
    OBVIOUS
  <2> HIDE DEF opens, closes, w
  <2>4. w.open_relay = opens /\ w.motor_reversal = k.motor_reversal
    BY <2>1, <2>2 DEF SetMoving, Core, ClusterState
  <2> QED
    BY <1>2, <2>1, <2>3, <2>4 DEF w
<1> QED
  BY <1>1, <1>2

\* cover_start_motor of a timed cluster.
LEMMA StartMotorTimed ==
  ASSUME NEW k, Core(k), ~IsManualMode(k), NEW action \in MotorPosition
  PROVE  LET n == StartMotor(k, action)
         IN  /\ n.start_motor_position = k.motor_position
             /\ n.motor_position = k.motor_position
             /\ n.elapsed = 0 /\ n.stop_task = MoveDuration(n, n.moving, action)
             /\ n.update_task = UpdateInterval(n, n.moving) /\ TimesOf(n) = TimesOf(k)
             /\ n.target_motor_position = action
             /\ IF n.moving = k.moving THEN SameRelays(k, n)
                ELSE n.open_relay <=> ((n.moving = Opening) # n.motor_reversal)
<1> DEFINE dir == DirectionTo(k, action)
           w == SwitchRelays(k, dir)
           s == [w EXCEPT !.target_motor_position = action]
           dur == MoveDuration(s, dir, action)
           upd == UpdateInterval(s, dir)
           n == [s EXCEPT !.start_motor_position = s.motor_position, !.elapsed = 0,
                          !.stop_task = dur, !.update_task = upd]
<1>1. /\ Core(w) /\ w.moving = dir /\ w.motor_position = k.motor_position
      /\ w.open_time = k.open_time /\ w.close_time = k.close_time
  BY SwitchRelaysCore DEF DirectionTo
<1>2. IF dir = k.moving THEN SameRelays(k, w)
      ELSE w.open_relay <=> ((dir = Opening) # w.motor_reversal)
  BY SwitchRelaysWiring
<1>3. StartMotor(k, action) = n
  BY DEF StartMotor
<1> HIDE DEF dir, w
<1>4. /\ s \in ClusterState /\ s.moving = dir /\ s.motor_position = k.motor_position
      /\ s.open_time = k.open_time /\ s.close_time = k.close_time
      /\ s.target_motor_position = action /\ s.motor_reversal = w.motor_reversal
      /\ SameRelays(w, s)
  BY <1>1 DEF Core, ClusterState, SameRelays
<1> HIDE DEF s, dur, upd
<1>5. /\ n.moving = dir /\ n.motor_position = s.motor_position /\ n.elapsed = 0
      /\ n.start_motor_position = s.motor_position /\ n.stop_task = dur
      /\ n.update_task = upd /\ n.target_motor_position = action
      /\ n.open_time = s.open_time /\ n.close_time = s.close_time
      /\ n.motor_reversal = s.motor_reversal /\ SameRelays(s, n)
  BY <1>4 DEF ClusterState, SameRelays
<1> HIDE DEF n
<1>6. dur = MoveDuration(n, n.moving, action)
  BY <1>5 DEF dur, MoveDuration, TravelTime
<1>7. upd = UpdateInterval(n, n.moving)
  BY <1>5 DEF upd, UpdateInterval, TravelTime
<1>8. IF n.moving = k.moving THEN SameRelays(k, n)
      ELSE n.open_relay <=> ((n.moving = Opening) # n.motor_reversal)
  BY <1>2, <1>4, <1>5 DEF SameRelays
<1> QED
  BY <1>3, <1>4, <1>5, <1>6, <1>7, <1>8 DEF TimesOf

LEMMA RefreshedTracked ==
  ASSUME NEW k, IInv(k)
  PROVE  LET u == Refreshed(k)
         IN  /\ Core(u) /\ u.motor_position = TrackedPosition(k)
             /\ u.moving = k.moving /\ SameRelays(k, u) /\ TimesOf(u) = TimesOf(k)
             /\ u.pending_action = k.pending_action
<1>1. Core(k) /\ (k.moving = Stopped => k.stop_task = Off /\ k.update_task = Off)
  BY DEF IInv, Supervised
<1> QED
  BY <1>1, RefreshedCore, RefreshedTimes DEF TrackedPosition, SameRelays, Refreshed

\* cover_execute_action, when there is something to execute.
LEMMA ExecuteMoves ==
  ASSUME NEW k, IInv(k), ~IsManualMode(k), NEW action \in MotorPosition,
         action # k.motor_position, k.moving \in {Stopped, DirectionTo(k, action)}
  PROVE  Moves(k, ExecuteAction(k, action), action)
<1> DEFINE u == Refreshed(k)
           n == ExecuteAction(k, action)
<1>1. /\ Core(u) /\ u.motor_position = TrackedPosition(k)
      /\ u.moving = k.moving /\ SameRelays(k, u) /\ TimesOf(u) = TimesOf(k)
  BY RefreshedTracked
<1>2. n = StartMotor(u, action)
  BY ExecuteActionCases, ConstantTypes DEF NothingToExecute, MotorPosition
<1> HIDE DEF u, n
<1>3. ~IsManualMode(u)
  BY <1>1 DEF IsManualMode, TimesOf
<1>4. /\ n.start_motor_position = u.motor_position
      /\ n.motor_position = u.motor_position
      /\ n.elapsed = 0 /\ n.stop_task = MoveDuration(n, n.moving, action)
      /\ n.update_task = UpdateInterval(n, n.moving) /\ TimesOf(n) = TimesOf(u)
      /\ n.target_motor_position = action
      /\ IF n.moving = u.moving THEN SameRelays(u, n)
         ELSE n.open_relay <=> ((n.moving = Opening) # n.motor_reversal)
  BY <1>1, <1>2, <1>3, StartMotorTimed
<1>5. n.moving = DirectionTo(u, action)
  BY <1>1, <1>2, StartMotorInv
<1>6. n.moving = DirectionTo(n, action)
  BY <1>4, <1>5 DEF DirectionTo
<1>7. Speeds(n) = Speeds(k)
  BY <1>1, <1>4, SpeedsOfTimes
<1>8. IF n.moving = k.moving THEN SameRelays(k, n)
      ELSE n.open_relay <=> ((n.moving = Opening) # n.motor_reversal)
  BY <1>1, <1>4 DEF SameRelays
<1> QED
  BY <1>1, <1>4, <1>6, <1>7, <1>8 DEF Moves, n

LEMMA ExecuteStops ==
  ASSUME NEW k, Core(k), k.moving # Stopped
  PROVE  LET n == ExecuteAction(k, ActionStop)
         IN  Stops(k, n) /\ n.pending_action = k.pending_action
             /\ n.target_motor_position = k.target_motor_position
<1> DEFINE u == Refreshed(k)
           n == ExecuteAction(k, ActionStop)
<1>1. /\ Core(u) /\ u.stop_task = Off /\ u.update_task = Off
      /\ u.pending_action = k.pending_action /\ u.motor_position = EstimatedPosition(k)
      /\ TimesOf(u) = TimesOf(k)
  BY RefreshedCore, RefreshedTimes
<1>2. n = HaltMotor(u)
  BY ExecuteActionCases, ConstantTypes
  DEF NothingToExecute, Core, ClusterState, MotorPosition
<1>3. n.moving = Stopped /\ NoRelay(n) /\ n.target_motor_position = k.target_motor_position
  BY StopMoving, StopRelays
<1> HIDE DEF u, n
<1>4. n.pending_action = k.pending_action /\ TimesOf(n) = TimesOf(k)
  BY <1>1, <1>2, HaltMotorInv, HaltMotorTimes
<1>5. n.motor_position = u.motor_position
  <2> DEFINE r == [u EXCEPT !.open_relay = FALSE, !.close_relay = FALSE]
  <2>1. r \in ClusterState /\ r.motor_position = u.motor_position
    BY <1>1 DEF Core, ClusterState
  <2>2. n = SetMoving(r, Stopped)
    BY <1>2 DEF HaltMotor
  <2> HIDE DEF r
  <2> QED
    BY <2>1, <2>2 DEF SetMoving, ClusterState
<1> QED
  BY <1>1, <1>3, <1>4, <1>5, SpeedsOfTimes DEF Stops, n

LEMMA CancelGoesOn ==
  ASSUME NEW k \in ClusterState
  PROVE  GoesOn(k, CancelPending(k)) /\ TimesOf(CancelPending(k)) = TimesOf(k)
BY DEF CancelPending, GoesOn, SameMove, SameRelays, Speeds, TravelTime, TimesOf, ClusterState

LEMMA DeferGoesOn ==
  ASSUME NEW k \in ClusterState, NEW action, NEW delay
  PROVE  GoesOn(k, DeferAction(k, action, delay))
BY DEF DeferAction, GoesOn, SameMove, SameRelays, Speeds, TravelTime, ClusterState

\* What cover_dispatch_action makes of a command to move: the command is met already,
\* executed on course, deferred, or waits for the pause after the stop.
MoveDispatched(k, n, action) ==
  \/ /\ GoesOn(k, n) /\ action = k.motor_position
     /\ \/ k.moving = DirectionTo(k, action) /\ n.pending_action = ActionNone
        \/ k.moving = Stopped /\ n.pending_action = k.pending_action
  \/ /\ Moves(k, n, action)
     /\ \/ n.pending_action = ActionNone
        \/ k.moving = Stopped /\ n.pending_action = k.pending_action
  \/ /\ GoesOn(k, n) \/ Stops(k, n)
     /\ n.pending_action = action /\ k.moving # DirectionTo(k, action)

LEMMA DispatchMoveShape ==
  ASSUME NEW k, IInv(k), ~IsManualMode(k), NEW action \in MotorPosition
  PROVE  MoveDispatched(k, DispatchAction(k, action), action)
<1> DEFINE n == DispatchAction(k, action)
<1>1. k \in ClusterState /\ Core(k)
  BY DEF IInv, Core
<1>2. n = DispatchMove(k, action)
  BY ConstantTypes DEF DispatchAction, MotorPosition
<1> SUFFICES MoveDispatched(k, n, action)
  OBVIOUS
<1> HIDE DEF n
<1>3. ASSUME NEW j, NothingToExecute(j, action) PROVE action = j.motor_position
  BY <1>3, ConstantTypes DEF NothingToExecute, MotorPosition
<1>4. ASSUME NEW j, action = j.motor_position PROVE ExecuteAction(j, action) = j
  BY <1>4, ExecuteActionCases DEF NothingToExecute
<1>5. CASE k.moving = DirectionTo(k, action)
  <2> DEFINE x == CancelPending(k)
  <2>1. /\ IInv(x) /\ GoesOn(k, x) /\ x.pending_action = ActionNone
        /\ TimesOf(x) = TimesOf(k) /\ x.moving = k.moving
    BY <1>1, CancelPendingInv, CancelGoesOn
  <2>2. n = ExecuteAction(x, action)
    BY <1>2, <1>5 DEF DispatchMove
  <2> HIDE DEF x
  <2>3. ~IsManualMode(x)
    BY <2>1 DEF IsManualMode, TimesOf
  <2>4. k.moving # Stopped /\ k.moving \in {Opening, Closing}
    BY <1>5 DEF DirectionTo, Stopped, Opening, Closing
  <2>5. x.motor_position = k.motor_position
    BY <2>1 DEF GoesOn
  <2>6. CASE action = k.motor_position
    <3>1. n = x
      BY <1>4, <2>2, <2>5, <2>6
    <3> QED
      BY <1>5, <2>1, <2>6, <3>1 DEF MoveDispatched
  <2>7. CASE action # k.motor_position
    <3>1. x.moving = DirectionTo(x, action)
      BY <1>5, <2>1, <2>5 DEF DirectionTo
    <3>2. Moves(x, n, action)
      BY <2>1, <2>2, <2>3, <2>5, <2>7, <3>1, ExecuteMoves
    <3>3. TrackedPosition(x) = TrackedPosition(k)
      BY <2>1, <2>4, SameEstimate DEF GoesOn, SameMove, TrackedPosition
    <3>4. Moves(k, n, action)
      BY <2>1, <2>7, <1>5, <3>2, <3>3 DEF Moves, GoesOn, SameMove, SameRelays
    <3>5. n.pending_action = ActionNone
      BY <2>1, <2>2, ConstantTypes, ExecuteActionInv DEF Action, MotorPosition
    <3> QED
      BY <3>4, <3>5 DEF MoveDispatched
  <2> QED
    BY <2>6, <2>7
<1>6. CASE k.moving # DirectionTo(k, action) /\ SwitchedRecently(k)
  <2>1. n = DeferToSafeTime(k, action)
    BY <1>2, <1>6 DEF DispatchMove
  <2>2. GoesOn(k, n)
    BY <1>1, <2>1, DeferGoesOn DEF DeferToSafeTime
  <2>3. n.pending_action = action
    BY <1>1, <2>1 DEF DeferToSafeTime, DeferAction, ClusterState
  <2> QED
    BY <1>6, <2>2, <2>3 DEF MoveDispatched
<1>7. CASE k.moving # DirectionTo(k, action) /\ ~SwitchedRecently(k) /\ k.moving = Stopped
  <2>1. n = ExecuteAction(k, action)
    BY <1>2, <1>7 DEF DispatchMove
  <2>2. CASE action = k.motor_position
    <3>1. n = k
      BY <1>4, <2>1, <2>2
    <3> QED
      BY <1>7, <2>2, <3>1 DEF MoveDispatched, GoesOn, SameMove, SameRelays
  <2>3. CASE action # k.motor_position
    <3>1. Moves(k, n, action)
      BY <1>7, <2>1, <2>3, ExecuteMoves
    <3>2. n.pending_action = k.pending_action
      BY <2>1, ConstantTypes, ExecuteActionInv DEF Action, MotorPosition
    <3> QED
      BY <1>7, <3>1, <3>2 DEF MoveDispatched
  <2> QED
    BY <2>2, <2>3
<1>8. CASE k.moving # DirectionTo(k, action) /\ ~SwitchedRecently(k) /\ k.moving # Stopped
  <2> DEFINE h == ExecuteAction(k, ActionStop)
  <2>1. n = DeferAction(h, action, RelayMinSwitch)
    BY <1>2, <1>8 DEF DispatchMove
  <2>2. Stops(k, h) /\ h \in ClusterState
    BY <1>1, <1>8, ExecuteStops, StopMoving DEF IInv, Core
  <2> HIDE DEF h
  <2>3. GoesOn(h, n) /\ n.pending_action = action
    BY <2>1, <2>2, DeferGoesOn DEF DeferAction, ClusterState
  <2>4. Stops(k, n)
    BY <2>2, <2>3 DEF Stops, GoesOn, SameMove, SameRelays, NoRelay
  <2> QED
    BY <1>8, <2>3, <2>4 DEF MoveDispatched
<1> QED
  BY <1>5, <1>6, <1>7, <1>8

LEMMA DispatchStopShape ==
  ASSUME NEW k, IInv(k)
  PROVE  LET n == DispatchAction(k, ActionStop) IN GoesOn(k, n) \/ Stops(k, n)
<1> DEFINE n == DispatchAction(k, ActionStop)
<1>1. k \in ClusterState /\ Core(k)
  BY DEF IInv, Core
<1>2. n = DispatchStop(k)
  BY ConstantTypes DEF DispatchAction
<1> HIDE DEF n
<1>3. CASE k.moving = Stopped
  BY <1>1, <1>2, <1>3, CancelGoesOn DEF DispatchStop, n
<1>4. CASE k.moving # Stopped /\ SwitchedRecently(k)
  BY <1>1, <1>2, <1>4, DeferGoesOn DEF DispatchStop, DeferToSafeTime, n
<1>5. CASE k.moving # Stopped /\ ~SwitchedRecently(k)
  <2>1. n = ExecuteAction(k, ActionStop)
    BY <1>2, <1>5 DEF DispatchStop
  <2> QED
    BY <1>1, <1>5, <2>1, ExecuteStops DEF n
<1> QED
  BY <1>3, <1>4, <1>5

\* What any callback of a timed cluster, but for the automatic stop, does to its motor.
Steered(k, n) ==
  \/ GoesOn(k, n) \/ Looks(k, n) \/ Stops(k, n)
  \/ \E action \in MotorPosition : Moves(k, n, action)

LEMMA DispatchSteers ==
  ASSUME NEW k, IInv(k), ~IsManualMode(k), NEW action \in Action
  PROVE  Steered(k, DispatchAction(k, action))
<1>1. CASE action \in MotorPosition
  BY <1>1, DispatchMoveShape DEF MoveDispatched, Steered
<1>2. CASE action = ActionStop
  BY <1>2, DispatchStopShape DEF Steered
<1>3. CASE action = ActionNone
  BY <1>3, ConstantTypes
  DEF DispatchAction, Steered, GoesOn, SameMove, SameRelays
<1>4. action \in MotorPosition \/ action = ActionStop \/ action = ActionNone
  BY ConstantTypes DEF Action, MotorPosition
<1> QED
  BY <1>1, <1>2, <1>3, <1>4

\* What goes on until the callback, and after it, changes nothing of that.
LEMMA SteeredAfter ==
  ASSUME NEW k, IInv(k), NEW x, GoesOn(k, x), NEW n, Steered(x, n)
  PROVE  Steered(k, n)
<1>1. k.moving \in {Stopped, Opening, Closing}
  BY DEF IInv, Core, ClusterState
<1>2. k.moving # Stopped => EstimatedPosition(x) = EstimatedPosition(k)
  BY <1>1, SameEstimate DEF GoesOn, SameMove
<1>3. TrackedPosition(x) = TrackedPosition(k)
  BY <1>2 DEF TrackedPosition, GoesOn, SameMove
<1>4. CASE GoesOn(x, n)
  BY <1>4 DEF Steered, GoesOn, SameMove, SameRelays
<1>5. CASE Looks(x, n)
  BY <1>2, <1>5 DEF Steered, Looks, GoesOn, SameMove, SameRelays
<1>6. CASE Stops(x, n)
  BY <1>2, <1>6 DEF Steered, Stops, GoesOn, SameMove
<1>7. ASSUME NEW action \in MotorPosition, Moves(x, n, action) PROVE Steered(k, n)
  BY <1>3, <1>7 DEF Steered, Moves, GoesOn, SameMove, SameRelays, DirectionTo
<1> QED
  BY <1>4, <1>5, <1>6, <1>7 DEF Steered

LEMMA UpdateLooks ==
  ASSUME NEW k, IInv(k), k.update_task = 0
  PROVE  Looks(k, UpdateHandler(k)) /\ UpdateHandler(k).pending_action = k.pending_action
<1> DEFINE u == UpdatePosition(k)
           i == UpdateInterval(u, u.moving)
           n == [u EXCEPT !.update_task = i]
<1>1. /\ Core(u) /\ SameMotion(k, u) /\ u.moving # Stopped
      /\ u.motor_position = EstimatedPosition(k)
  BY UpdatePositionCore DEF IInv, Supervised, SameMotion, Off
<1>2. u.start_motor_position = k.start_motor_position /\ u.elapsed = k.elapsed
  BY DEF UpdatePosition, SetPosition, IInv, Core, ClusterState
<1> HIDE DEF u, i
<1>3. UpdateHandler(k) = n
  BY <1>1 DEF UpdateHandler, u, i
<1>4. SameMove(u, n) /\ n.update_task = i /\ n.motor_position = u.motor_position
      /\ n.pending_action = u.pending_action /\ TimesOf(n) = TimesOf(u)
  BY <1>1 DEF SameMove, SameRelays, Speeds, TravelTime, TimesOf, Core, ClusterState
<1> HIDE DEF n
<1>5. TimesOf(u) = TimesOf(k)
  BY <1>1 DEF SameMotion, TimesOf
<1>6. SameMove(k, n)
  BY <1>1, <1>2, <1>4, <1>5, SpeedsOfTimes DEF SameMove, SameRelays, SameMotion
<1>7. i = UpdateInterval(n, n.moving)
  BY <1>4 DEF i, UpdateInterval, TravelTime, TimesOf, SameMove
<1> QED
  BY <1>1, <1>3, <1>4, <1>6, <1>7 DEF Looks, SameMotion, SameMove

-----------------------------------------------------------------------------
(* A calibrated cover stays calibrated as long as nobody writes other      *)
(* travel times; what its callbacks do to the motor is then known.         *)

CalibrationKept ==
  /\ OpenTimes \subseteq {LiftTicks}
  /\ CloseTimes \subseteq {LowerTicks} \cup (IF LiftTicks = LowerTicks THEN {0} ELSE {})

Timed(k) == Speeds(k) = <<LiftTicks, LowerTicks>>

TimedInv == Inv /\ Timed(c) /\ Timed(LoadedConfig)

LEMMA TimedTracks ==
  ASSUME NEW k, Timed(k)
  PROVE  /\ ~IsManualMode(k) /\ k.open_time = LiftTicks
         /\ TravelTime(k, Opening) = LiftTicks /\ TravelTime(k, Closing) = LowerTicks
<1>1. LiftTicks > 0 /\ TravelTime(k, Opening) = k.open_time
  BY PlantAssumption DEF TravelTime, Opening, Closing
<1> QED
  BY <1>1 DEF Timed, Speeds, IsManualMode

LEMMA CapGoesOn ==
  ASSUME NEW k \in ClusterState
  PROVE  /\ GoesOn(k, CapDeadzones(k)) /\ TimesOf(CapDeadzones(k)) = TimesOf(k)
         /\ CapDeadzones(k).pending_action = k.pending_action
BY DEF CapDeadzones, GoesOn, SameMove, SameRelays, Speeds, TravelTime, TimesOf, ClusterState

LEMMA StoredTimed ==
  ASSUME NEW written, OnWriteAttr(written), Timed(c')
  PROVE  Timed(LoadedConfig')
<1>1. LoadedConfig' = StoredConfig(c')
  BY DEF OnWriteAttr, LoadedConfig
<1>2. TimesOf(StoredConfig(c')) = TimesOf(c')
  BY DEF StoredConfig, TimesOf
<1> HIDE DEF LoadedConfig
<1> QED
  BY <1>1, <1>2, SpeedsOfTimes DEF Timed

LEMMA CalibrateGoesOn ==
  ASSUME TimedInv, Calibrate, CalibrationKept
  PROVE  /\ GoesOn(c, c') /\ c'.pending_action = c.pending_action
         /\ Timed(c') /\ Timed(LoadedConfig')
<1>1. c \in ClusterState /\ Timed(c)
  BY DEF TimedInv, Inv, IInv, Core
<1>2. c.open_time = LiftTicks /\ TravelTime(c, Closing) = LowerTicks
  BY <1>1, TimedTracks
<1> DEFINE Harmless(w) == /\ w \in ClusterState /\ GoesOn(c, w)
                          /\ w.pending_action = c.pending_action /\ Timed(w)
           Ready(w) == /\ GoesOn(c, CapDeadzones(w)) /\ Timed(CapDeadzones(w))
                       /\ CapDeadzones(w).pending_action = c.pending_action
<1>3. ASSUME NEW w, Harmless(w) PROVE Ready(w)
  <2>1. /\ GoesOn(w, CapDeadzones(w)) /\ TimesOf(CapDeadzones(w)) = TimesOf(w)
        /\ CapDeadzones(w).pending_action = w.pending_action
    BY <1>3, CapGoesOn
  <2>2. Speeds(CapDeadzones(w)) = Speeds(w)
    BY <2>1, SpeedsOfTimes
  <2> QED
    BY <1>3, <2>1, <2>2 DEF GoesOn, SameMove, SameRelays, Timed
<1>4. ASSUME WriteOpenTime(LiftTicks) PROVE \E w : OnWriteAttr(w) /\ Ready(w)
  <2>1. [c EXCEPT !.open_time = LiftTicks] = c
    BY <1>1, <1>2 DEF ClusterState
  <2>2. OnWriteAttr(c)
    BY <1>4, <2>1 DEF WriteOpenTime
  <2>3. Harmless(c)
    BY <1>1 DEF GoesOn, SameMove, SameRelays
  <2> QED
    BY <1>3, <2>2, <2>3
<1>5. ASSUME NEW u \in CloseTimes, WriteCloseTime(u) PROVE \E w : OnWriteAttr(w) /\ Ready(w)
  <2> DEFINE w == [c EXCEPT !.close_time = u]
  <2>1. u \in 0 .. MaxTravel /\ (u = LowerTicks \/ (u = 0 /\ LiftTicks = LowerTicks))
    BY ConstantsAssumption DEF CalibrationKept
  <2>2. w \in ClusterState /\ w.close_time = u /\ w.open_time = LiftTicks
    BY <1>1, <1>2, <2>1 DEF ClusterState
  <2>3. Speeds(w) = <<LiftTicks, LowerTicks>>
    BY <2>1, <2>2, PlantAssumption DEF Speeds, TravelTime, Opening, Closing
  <2>4. /\ SameRelays(c, w) /\ w.moving = c.moving /\ w.stop_task = c.stop_task
        /\ w.start_motor_position = c.start_motor_position /\ w.elapsed = c.elapsed
        /\ w.target_motor_position = c.target_motor_position
        /\ w.motor_position = c.motor_position /\ w.update_task = c.update_task
        /\ w.pending_action = c.pending_action
    BY <1>1 DEF ClusterState, SameRelays
  <2>5. OnWriteAttr(w)
    BY <1>5 DEF WriteCloseTime
  <2> HIDE DEF w
  <2>6. Harmless(w)
    BY <1>1, <2>2, <2>3, <2>4 DEF GoesOn, SameMove, Timed
  <2> QED
    BY <1>3, <2>5, <2>6
<1>6. ASSUME NEW d, WriteOpenDeadzone(d) \/ WriteClosedDeadzone(d)
      PROVE  GoesOn(c, c') /\ c'.pending_action = c.pending_action /\ TimesOf(c') = TimesOf(c)
  <2>1. c' = CapDeadzones([c EXCEPT !.open_deadzone = d])
        \/ c' = CapDeadzones([c EXCEPT !.closed_deadzone = d])
    BY <1>6 DEF WriteOpenDeadzone, WriteClosedDeadzone, OnWriteAttr
  <2> QED
    BY <1>1, <2>1 DEF CapDeadzones, GoesOn, SameMove, SameRelays, Speeds, TravelTime,
       TimesOf, ClusterState
<1>7. GoesOn(c, c') /\ c'.pending_action = c.pending_action /\ Timed(c')
  <2>1. ASSUME NEW w, OnWriteAttr(w), Ready(w)
        PROVE  GoesOn(c, c') /\ c'.pending_action = c.pending_action /\ Timed(c')
    BY <2>1 DEF OnWriteAttr
  <2>2. ASSUME NEW d, WriteOpenDeadzone(d) \/ WriteClosedDeadzone(d)
        PROVE  GoesOn(c, c') /\ c'.pending_action = c.pending_action /\ Timed(c')
    BY <1>1, <1>6, <2>2, SpeedsOfTimes DEF Timed
  <2>3. ASSUME NEW t \in OpenTimes, WriteOpenTime(t) PROVE t = LiftTicks
    BY DEF CalibrationKept
  <2> HIDE DEF Ready
  <2> QED
    BY <1>4, <1>5, <2>1, <2>2, <2>3 DEF Calibrate
<1>8. \E w : OnWriteAttr(w)
  BY DEF Calibrate, WriteOpenTime, WriteCloseTime, WriteOpenDeadzone, WriteClosedDeadzone
<1> QED
  BY <1>7, <1>8, StoredTimed

\* A reversal stops the motor, now or when the relays have rested.
LEMMA ReverseStops ==
  ASSUME TimedInv, ReverseMotor
  PROVE  GoesOn(c, c') \/ Stops(c, c')
<1> PICK r \in BOOLEAN : WriteMotorReversal(r)
  BY DEF ReverseMotor
<1> DEFINE k == [c EXCEPT !.motor_reversal = r]
           n == DispatchAction(k, ActionStop)
<1>1. c \in ClusterState /\ IInv(c)
  BY DEF TimedInv, Inv, IInv, Core
<1>2. k \in ClusterState /\ GoesOn(c, k)
  BY <1>1 DEF ClusterState, GoesOn, SameMove, SameRelays, Speeds, TravelTime
<1>3. IInv(k)
  BY <1>1, <1>2 DEF IInv, Core, Supervised, ClusterState
<1>4. IInv(n)
  BY <1>3, ConstantTypes, DispatchActionInv DEF Action
<1>5. GoesOn(k, n) \/ Stops(k, n)
  BY <1>3, DispatchStopShape
<1>6. c' = CapDeadzones(n)
  BY DEF WriteMotorReversal, OnWriteAttr
<1> HIDE DEF k, n
<1>7. GoesOn(n, c')
  BY <1>4, <1>6, CapGoesOn DEF IInv, Core
<1>8. c.moving # Stopped => EstimatedPosition(k) = EstimatedPosition(c)
  BY <1>1, <1>2, SameEstimate DEF GoesOn, SameMove, ClusterState
<1> QED
  BY <1>2, <1>5, <1>7, <1>8 DEF GoesOn, SameMove, SameRelays, Stops, NoRelay

LEMMA SteeredSpeeds ==
  ASSUME NEW k, NEW n, Steered(k, n), Timed(k)
  PROVE  Timed(n)
BY DEF Steered, GoesOn, Looks, Stops, Moves, SameMove, Timed

\* Every callback but the automatic stop.
LEMMA CallbackSteers ==
  ASSUME TimedInv, CalibrationKept,
         Command \/ Calibrate \/ ReverseMotor \/ UpdateTask \/ DelayTask
  PROVE  Steered(c, c')
<1>1. IInv(c) /\ ~IsManualMode(c)
  BY TimedTracks DEF TimedInv, Inv
<1>2. CASE Command
  <2>1. \A lift \in Lifts : CoverToMotorPosition(c, lift) \in Action
    <3>1. \A lift \in Lifts : CoverToMotorPosition(c, lift) \in MotorPosition
      BY <1>1, MotorTargetInRange, ConstantsAssumption DEF IInv, Core, ClusterState
    <3> QED
      BY <3>1, ConstantTypes DEF Action, MotorPosition
  <2>2. {ActionStop, 0, MaxMotorPosition} \subseteq Action
    BY ConstantTypes DEF Action
  <2>3. PICK action \in Action : Dispatch(action)
    BY <1>2, <2>1, <2>2 DEF Command, CoverOpen, CoverClose, CoverStop, GoToLift
  <2> QED
    BY <1>1, <2>3, DispatchSteers DEF Dispatch
<1>3. CASE Calibrate
  BY <1>3, CalibrateGoesOn DEF Steered
<1>4. CASE ReverseMotor
  BY <1>4, ReverseStops DEF Steered
<1>5. CASE UpdateTask
  BY <1>1, <1>5, UpdateLooks DEF UpdateTask, Steered
<1>6. CASE DelayTask
  <2> DEFINE x == CancelPending(c)
  <2>1. /\ IInv(x) /\ GoesOn(c, x) /\ TimesOf(x) = TimesOf(c)
        /\ c.pending_action \in Action
    BY <1>1, CancelPendingInv, CancelGoesOn DEF IInv, Core, ClusterState
  <2>2. c' = DispatchAction(x, c.pending_action)
    BY <1>6 DEF DelayTask, DelayHandler
  <2> HIDE DEF x
  <2>3. ~IsManualMode(x)
    BY <1>1, <2>1 DEF IsManualMode, TimesOf
  <2>4. Steered(x, c')
    BY <2>1, <2>2, <2>3, DispatchSteers
  <2> QED
    BY <1>1, <2>1, <2>4, SteeredAfter
<1> QED
  BY <1>2, <1>3, <1>4, <1>5, <1>6

\* cover_auto_stop_handler leaves the cover at its target.
LEMMA StopTaskRests ==
  ASSUME Inv, StopTask
  PROVE  /\ c'.moving = Stopped /\ c'.motor_position = c.target_motor_position
         /\ NoRelay(c') /\ Speeds(c') = Speeds(c)
         /\ c'.pending_action = c.pending_action
         /\ c.moving # Stopped /\ c.stop_task = 0
<1> DEFINE x == [c EXCEPT !.stop_task = Off]
           h == ExecuteAction(x, ActionStop)
<1>1. /\ Core(c) /\ c.stop_task = 0 /\ c.moving # Stopped
      /\ c' = SetPosition(h, h.target_motor_position)
  BY DEF Inv, IInv, Supervised, Off, StopTask, AutoStopHandler
<1>2. /\ Core(x) /\ x.moving # Stopped /\ Speeds(x) = Speeds(c)
      /\ x.target_motor_position = c.target_motor_position
      /\ x.pending_action = c.pending_action
  BY <1>1 DEF Core, ClusterState, Speeds, TravelTime
<1>3. /\ Stops(x, h) /\ h.pending_action = x.pending_action
      /\ h.target_motor_position = x.target_motor_position /\ Core(h)
  BY <1>2, ExecuteStops, StopMoving DEF IInv
<1> HIDE DEF x, h
<1>4. h.target_motor_position \in MotorPosition
  BY <1>3 DEF Core, ClusterState
<1>5. /\ SameMotion(h, c') /\ c'.motor_position = h.target_motor_position
  BY <1>1, <1>3, <1>4, SetPositionCore
<1>6. Speeds(c') = Speeds(h)
  BY <1>5, SpeedsOfTimes DEF SameMotion, TimesOf
<1> QED
  BY <1>1, <1>2, <1>3, <1>5, <1>6 DEF Stops, NoRelay, SameMotion

LEMMA TickElapses ==
  ASSUME Inv, Tick
  PROVE  /\ c.stop_task # 0 /\ c.update_task # 0
         /\ c'.stop_task = CountDown(c.stop_task) /\ c'.update_task = CountDown(c.update_task)
         /\ c'.elapsed = CountUp(c.elapsed, MaxTravel)
         /\ SameRelays(c, c') /\ c'.moving = c.moving /\ c'.motor_position = c.motor_position
         /\ c'.start_motor_position = c.start_motor_position
         /\ c'.target_motor_position = c.target_motor_position
         /\ c'.motor_reversal = c.motor_reversal
         /\ c'.pending_action = c.pending_action /\ Speeds(c') = Speeds(c)
<1>1. c \in ClusterState /\ c' = Elapse(c) /\ c.stop_task # 0 /\ c.update_task # 0
  BY DEF Inv, IInv, Core, Tick, NoTaskDue
<1> QED
  BY <1>1 DEF Elapse, ClusterState, SameRelays, Speeds, TravelTime

LEMMA RebootRests ==
  ASSUME Reboot
  PROVE  /\ c'.moving = Stopped /\ NoRelay(c') /\ c'.pending_action = ActionNone
         /\ Speeds(c') = Speeds(LoadedConfig)
<1> DEFINE n == ClusterInit(LoadedConfig)
<1>1. /\ n.moving = Stopped /\ NoRelay(n) /\ n.pending_action = ActionNone
      /\ n.open_time = LoadedConfig.open_time /\ n.close_time = LoadedConfig.close_time
  BY DEF ClusterInit, NoRelay
<1> HIDE DEF n
<1> QED
  BY <1>1, SpeedsOfTimes DEF Reboot, TimesOf, n

LEMMA TimedInit == PlantInit => TimedInv
<1> SUFFICES ASSUME PlantInit PROVE TimedInv
  OBVIOUS
<1>1. Inv /\ Timed(c)
  BY InitInv DEF PlantInit, Calibrated, Timed, Speeds
<1>2. Timed(LoadedConfig)
  <2> DEFINE n == ClusterInit(LoadedConfig)
  <2>1. n.open_time = LoadedConfig.open_time /\ n.close_time = LoadedConfig.close_time
    BY DEF ClusterInit
  <2>2. c = n
    BY DEF PlantInit, Init
  <2> HIDE DEF n
  <2>3. Speeds(LoadedConfig) = Speeds(c)
    BY <2>1, <2>2, SpeedsOfTimes DEF TimesOf
  <2> QED
    BY <1>1, <2>3 DEF Timed
<1> QED
  BY <1>1, <1>2 DEF TimedInv

\* A step of the plant is one of the cluster.
LEMMA PlantIsNext == [PlantNext]_pvars => [Next]_vars
BY DEF PlantNext, PlantCallback, PlantCommand, PlantTick, PlantReboot, Next, Command, Tasks,
   pvars, vars

LEMMA TimedNext ==
  ASSUME TimedInv, [Next]_vars, CalibrationKept
  PROVE  TimedInv'
<1>1. Inv /\ Inv'
  BY NextInv DEF TimedInv
<1>2. ASSUME UNCHANGED nv PROVE Timed(LoadedConfig')
  BY <1>2 DEF TimedInv, LoadedConfig
<1>3. ASSUME Timed(c'), UNCHANGED nv PROVE TimedInv'
  BY <1>1, <1>2, <1>3 DEF TimedInv
<1>4. ASSUME NEW written, OnWriteAttr(written), Timed(c') PROVE TimedInv'
  BY <1>1, <1>4, StoredTimed DEF TimedInv
<1>5. ASSUME Steered(c, c') PROVE Timed(c')
  BY <1>5, SteeredSpeeds DEF TimedInv
<1>6. CASE Command \/ UpdateTask \/ DelayTask
  <2>1. UNCHANGED nv
    BY <1>6 DEF Command, CoverOpen, CoverClose, CoverStop, GoToLift, Dispatch, UpdateTask,
       DelayTask
  <2> QED
    BY <1>3, <1>5, <1>6, <2>1, CallbackSteers
<1>7. CASE Calibrate
  BY <1>1, <1>7, CalibrateGoesOn DEF TimedInv
<1>8. CASE ReverseMotor
  <2>1. \E written : OnWriteAttr(written)
    BY <1>8 DEF ReverseMotor, WriteMotorReversal
  <2> QED
    BY <1>4, <1>5, <1>8, <2>1, CallbackSteers
<1>9. CASE StopTask
  <2>1. UNCHANGED nv
    BY <1>9 DEF StopTask
  <2> QED
    BY <1>1, <1>3, <1>9, <2>1, StopTaskRests DEF TimedInv, Timed
<1>10. CASE Tick
  <2>1. UNCHANGED nv
    BY <1>10 DEF Tick
  <2> QED
    BY <1>1, <1>3, <1>10, <2>1, TickElapses DEF TimedInv, Timed
<1>11. CASE Reboot
  <2>1. UNCHANGED nv
    BY <1>11 DEF Reboot
  <2> QED
    BY <1>3, <1>11, <2>1, RebootRests DEF TimedInv, Timed
<1>12. CASE UNCHANGED vars
  BY <1>3, <1>12 DEF TimedInv, vars, Timed
<1> QED
  BY <1>6, <1>7, <1>8, <1>9, <1>10, <1>11, <1>12 DEF Next, Tasks

-----------------------------------------------------------------------------
(* The last command wins.  A cover that moves for it has it as its target, *)
(* or, when it is deferred, moves away from it; and no update of the       *)
(* position takes the cover back, which could make the command look met.   *)

\* The position that the last update left lies behind the cover.
Monotone(k) ==
  /\ k.moving = Opening => k.motor_position <= EstimatedPosition(k)
  /\ k.moving = Closing => EstimatedPosition(k) <= k.motor_position

\* What the last command is still to do.
Pursues(k, action) ==
  IF k.pending_action # ActionNone
  THEN /\ k.pending_action = action
       /\ \/ k.moving = Stopped
          \/ k.target_motor_position = action
          \/ k.moving = Opening /\ action <= k.motor_position
          \/ k.moving = Closing /\ action > k.motor_position
  ELSE IF k.moving = Stopped THEN k.motor_position = action
       ELSE k.target_motor_position = action

WinsInv ==
  /\ TimedInv /\ Monotone(c) /\ asked \in MotorPosition \cup {ActionNone}
  /\ asked # ActionNone /\ ~missed => Pursues(c, asked)

\* Looking at the clock later, the cover has not gone back.
LEMMA ElapsedMonotone ==
  ASSUME NEW k \in ClusterState, NEW n \in ClusterState, Timed(k), Timed(n),
         k.moving # Stopped, n.moving = k.moving,
         n.start_motor_position = k.start_motor_position, k.elapsed <= n.elapsed
  PROVE  /\ k.moving = Opening => EstimatedPosition(k) <= EstimatedPosition(n)
         /\ k.moving = Closing => EstimatedPosition(n) <= EstimatedPosition(k)
<1> DEFINE t == TravelTime(k, k.moving)
           d == TravelledDistance(k)
           e == TravelledDistance(n)
<1>1. t \in Nat /\ t > 0 /\ t = TravelTime(n, n.moving)
  BY TimedTracks, PlantAssumption DEF ClusterState
<1>2. /\ k.elapsed * MaxMotorPosition \in Nat /\ n.elapsed * MaxMotorPosition \in Nat
      /\ k.elapsed * MaxMotorPosition <= n.elapsed * MaxMotorPosition
  <2>1. k.elapsed \in Nat /\ n.elapsed \in Nat
    BY DEF ClusterState
  <2> QED
    BY <2>1, ConstantTypes
<1>3. /\ d = (k.elapsed * MaxMotorPosition) \div t
      /\ e = (n.elapsed * MaxMotorPosition) \div t
  BY <1>1 DEF TravelledDistance
<1> HIDE DEF t, d, e
<1>4. d <= e /\ d \in Nat /\ e \in Nat
  BY <1>1, <1>2, <1>3, DivMonotone
<1>5. k.start_motor_position \in 0 .. MaxMotorPosition /\ MaxMotorPosition \in Nat
  BY ConstantTypes DEF ClusterState, MotorPosition
<1> QED
  BY <1>4, <1>5 DEF EstimatedPosition, d, e, Opening, Closing

\* A move starts where the cover is.
LEMMA MovesStart ==
  ASSUME NEW n \in ClusterState, Timed(n), n.moving # Stopped, n.elapsed = 0
  PROVE  EstimatedPosition(n) = n.start_motor_position
<1>1. TravelTime(n, n.moving) \in Nat /\ TravelTime(n, n.moving) > 0
  BY TimedTracks, PlantAssumption DEF ClusterState
<1>2. 0 * MaxMotorPosition = 0 /\ 0 \div TravelTime(n, n.moving) = 0
  BY <1>1, ConstantTypes
<1>3. TravelledDistance(n) = 0
  BY <1>1, <1>2 DEF TravelledDistance
<1> QED
  BY <1>3, ConstantTypes DEF EstimatedPosition, ClusterState, MotorPosition

LEMMA SteeredMonotone ==
  ASSUME NEW k \in ClusterState, NEW n \in ClusterState, Steered(k, n), Timed(n), Monotone(k)
  PROVE  Monotone(n)
<1>1. SameMove(k, n) /\ n.moving # Stopped => EstimatedPosition(n) = EstimatedPosition(k)
  BY SameEstimate DEF SameMove, ClusterState
<1>2. Opening # Stopped /\ Closing # Stopped /\ EstimatedPosition(n) \in Int
  BY EstimateInRange, ConstantTypes DEF Opening, Closing, Stopped, MotorPosition
<1>3. CASE GoesOn(k, n)
  BY <1>1, <1>2, <1>3 DEF GoesOn, SameMove, Monotone
<1>4. CASE Looks(k, n)
  BY <1>1, <1>2, <1>4 DEF Looks, SameMove, Monotone
<1>5. CASE Stops(k, n)
  BY <1>2, <1>5 DEF Stops, Monotone
<1>6. ASSUME NEW action, Moves(k, n, action) PROVE Monotone(n)
  <2>1. n.elapsed = 0 /\ n.motor_position = n.start_motor_position
    BY <1>6 DEF Moves
  <2> QED
    BY <1>2, <2>1, MovesStart DEF Monotone
<1> QED
  BY <1>3, <1>4, <1>5, <1>6 DEF Steered

\* A command that is not missed is met, executed or deferred.
LEMMA CommandPursued ==
  ASSUME NEW k \in ClusterState, NEW n, NEW action \in MotorPosition,
         MoveDispatched(k, n, action),
         ~(k.moving # Stopped /\ n.moving = k.moving /\ k.motor_position = action),
         n.pending_action \in {action, ActionNone}
  PROVE  Pursues(n, action)
<1>1. /\ Opening # Stopped /\ Closing # Stopped /\ Opening # Closing
      /\ action # ActionNone /\ action \in Int /\ k.motor_position \in Int
  BY ConstantTypes DEF Opening, Closing, Stopped, MotorPosition, ClusterState
<1>2. CASE GoesOn(k, n) /\ action = k.motor_position
  BY <1>2 DEF GoesOn, SameMove, Pursues
<1>3. CASE Moves(k, n, action)
  BY <1>1, <1>3 DEF Moves, DirectionTo, Pursues
<1>4. CASE n.pending_action = action /\ k.moving # DirectionTo(k, action) /\ GoesOn(k, n)
  BY <1>1, <1>4 DEF GoesOn, SameMove, Pursues, DirectionTo, ClusterState
<1>5. CASE Stops(k, n) /\ n.pending_action = action
  BY <1>1, <1>5 DEF Stops, Pursues
<1> QED
  BY <1>2, <1>3, <1>4, <1>5 DEF MoveDispatched

\* The deferred action does not mistake itself for met.
LEMMA DelayPursued ==
  ASSUME NEW k, IInv(k), ~IsManualMode(k), NEW action \in MotorPosition,
         k.pending_action = action, Pursues(k, action)
  PROVE  Pursues(DelayHandler(k), action)
<1> DEFINE x == CancelPending(k)
           n == DelayHandler(k)
<1>1. /\ IInv(x) /\ GoesOn(k, x) /\ TimesOf(x) = TimesOf(k) /\ x.pending_action = ActionNone
      /\ x \in ClusterState
  BY CancelPendingInv, CancelGoesOn DEF IInv, Core
<1>2. n = DispatchAction(x, action)
  BY DEF DelayHandler
<1> SUFFICES Pursues(n, action)
  OBVIOUS
<1> HIDE DEF x, n
<1>3. ~IsManualMode(x)
  BY <1>1 DEF IsManualMode, TimesOf
<1>4. MoveDispatched(x, n, action)
  BY <1>1, <1>2, <1>3, DispatchMoveShape
<1>5. /\ action # ActionNone /\ action \in Int /\ x.motor_position \in Int
      /\ Opening # Closing /\ Opening # Stopped /\ Closing # Stopped
  BY <1>1, ConstantTypes DEF MotorPosition, ClusterState, Opening, Closing, Stopped
<1>6. \/ x.moving = Stopped
      \/ x.target_motor_position = action
      \/ x.moving = Opening /\ action <= x.motor_position
      \/ x.moving = Closing /\ action > x.motor_position
  BY <1>1, <1>5 DEF Pursues, GoesOn, SameMove
<1>7. n.pending_action \in {action, ActionNone}
  BY <1>1, <1>4 DEF MoveDispatched
<1>8. CASE x.moving # Stopped /\ n.moving = x.moving /\ x.motor_position = action
  <2>1. CASE GoesOn(x, n) /\ x.moving = DirectionTo(x, action) /\ n.pending_action = ActionNone
    <3>1. x.target_motor_position = action
      BY <1>5, <1>6, <1>8, <2>1 DEF DirectionTo
    <3> QED
      BY <1>8, <2>1, <3>1 DEF GoesOn, SameMove, Pursues
  <2>2. CASE n.pending_action = action /\ x.moving # DirectionTo(x, action) /\ GoesOn(x, n)
    <3>1. x.moving \in {Opening, Closing}
      BY <1>1, <1>8 DEF ClusterState
    <3> QED
      BY <1>5, <1>8, <2>2, <3>1 DEF GoesOn, SameMove, Pursues, DirectionTo
  <2>3. ~Moves(x, n, action)
    BY <1>8 DEF Moves
  <2>4. ~Stops(x, n)
    BY <1>8 DEF Stops
  <2> QED
    BY <1>4, <1>8, <2>1, <2>2, <2>3, <2>4 DEF MoveDispatched
<1> QED
  BY <1>1, <1>4, <1>7, <1>8, CommandPursued

\* Looking at the position, the cover turns out to be further on.
LEMMA UpdatePursued ==
  ASSUME NEW k \in ClusterState, NEW n, Looks(k, n), n.pending_action = k.pending_action,
         Monotone(k), NEW action \in MotorPosition, Pursues(k, action)
  PROVE  Pursues(n, action)
<1>1. /\ EstimatedPosition(k) \in Int /\ k.motor_position \in Int /\ action \in Int
      /\ Opening # Stopped /\ Closing # Stopped
  BY EstimateInRange, ConstantTypes DEF MotorPosition, ClusterState, Opening, Closing, Stopped
<1> QED
  BY <1>1 DEF Looks, SameMove, Pursues, Monotone

LEMMA CommandWins ==
  ASSUME WinsInv, PlantCommand
  PROVE  /\ asked' \in MotorPosition \cup {ActionNone}
         /\ asked' # ActionNone /\ ~missed' => Pursues(c', asked')
<1>1. IInv(c) /\ c \in ClusterState /\ ~IsManualMode(c)
  BY TimedTracks DEF WinsInv, TimedInv, Inv, IInv, Core
<1>2. ASSUME NEW action \in MotorPosition, Dispatch(action), Ask(action)
      PROVE  /\ asked' \in MotorPosition \cup {ActionNone}
             /\ asked' # ActionNone /\ ~missed' => Pursues(c', asked')
  <2>1. asked' = action /\ MoveDispatched(c, c', action)
    BY <1>1, <1>2, DispatchMoveShape DEF Dispatch, Ask
  <2>2. ASSUME ~missed'
        PROVE  /\ ~(c.moving # Stopped /\ c'.moving = c.moving /\ c.motor_position = action)
               /\ c'.pending_action \in {action, ActionNone}
    BY <1>2, <2>2 DEF Ask
  <2> QED
    BY <1>1, <2>1, <2>2, CommandPursued
<1>3. {0, MaxMotorPosition} \subseteq MotorPosition
  BY ConstantTypes DEF MotorPosition
<1>4. \A lift \in Lifts : CoverToMotorPosition(c, lift) \in MotorPosition
  BY <1>1, MotorTargetInRange, ConstantsAssumption DEF ClusterState
<1>5. CASE CoverStop /\ Ask(ActionNone)
  BY <1>5 DEF Ask
<1> QED
  BY <1>2, <1>3, <1>4, <1>5 DEF PlantCommand, CoverOpen, CoverClose, GoToLift

\* Every step of the cover and its user.
LEMMA WinsNext ==
  ASSUME WinsInv, [PlantNext]_pvars, CalibrationKept
  PROVE  WinsInv'
<1>1. /\ TimedInv /\ TimedInv' /\ Inv /\ IInv(c) /\ c \in ClusterState /\ c' \in ClusterState
      /\ ~IsManualMode(c) /\ Timed(c) /\ Timed(c')
  BY PlantIsNext, TimedNext, TimedTracks DEF WinsInv, TimedInv, Inv, IInv, Core
<1>2. ASSUME Steered(c, c') PROVE Monotone(c')
  BY <1>1, <1>2, SteeredMonotone DEF WinsInv
<1>3. ASSUME c'.moving = Stopped PROVE Monotone(c')
  BY <1>3 DEF Monotone, Opening, Closing, Stopped
<1> DEFINE Wins == /\ asked \in MotorPosition \cup {ActionNone}
                   /\ asked # ActionNone /\ ~missed => Pursues(c, asked)
<1>4. Wins /\ (Monotone(c') /\ Wins' => WinsInv')
  BY <1>1 DEF WinsInv
<1>5. ASSUME c'.pending_action = c.pending_action, GoesOn(c, c'), UNCHANGED <<asked, missed>>
      PROVE  Wins'
  BY <1>4, <1>5 DEF Pursues, GoesOn, SameMove
<1>6. CASE PlantCommand
  <2>1. Command
    BY <1>6 DEF PlantCommand, Command
  <2>2. Monotone(c')
    BY <1>1, <1>2, <2>1, CallbackSteers
  <2> QED
    BY <1>4, <1>6, <2>2, CommandWins
<1>7. CASE ReverseMotor /\ Ask(ActionNone)
  <2>1. Monotone(c')
    BY <1>1, <1>2, <1>7, CallbackSteers
  <2> QED
    BY <1>4, <1>7, <2>1 DEF Ask
<1>8. CASE Calibrate /\ UNCHANGED <<asked, missed>>
  <2>1. Monotone(c')
    BY <1>1, <1>2, <1>8, CallbackSteers
  <2>2. Wins'
    BY <1>1, <1>5, <1>8, CalibrateGoesOn
  <2> HIDE DEF Wins
  <2> QED
    BY <1>4, <2>1, <2>2
<1>9. CASE StopTask /\ UNCHANGED <<asked, missed>>
  <2>1. /\ c'.moving = Stopped /\ c'.motor_position = c.target_motor_position
        /\ c'.pending_action = c.pending_action /\ c.moving # Stopped
    BY <1>1, <1>9, StopTaskRests
  <2>2. Wins'
    BY <1>4, <1>9, <2>1 DEF Pursues
  <2> HIDE DEF Wins
  <2> QED
    BY <1>3, <1>4, <2>1, <2>2
<1>10. CASE UpdateTask /\ UNCHANGED <<asked, missed>>
  <2>1. Monotone(c')
    BY <1>1, <1>2, <1>10, CallbackSteers
  <2>2. Looks(c, c') /\ c'.pending_action = c.pending_action
    BY <1>1, <1>10, UpdateLooks DEF UpdateTask
  <2>3. Wins'
    BY <1>1, <1>4, <1>10, <2>2, UpdatePursued DEF WinsInv
  <2> HIDE DEF Wins
  <2> QED
    BY <1>4, <2>1, <2>3
<1>11. CASE DelayTask /\ UNCHANGED <<asked, missed>>
  <2>1. Monotone(c')
    BY <1>1, <1>2, <1>11, CallbackSteers
  <2>2. c' = DelayHandler(c) /\ c.pending_action # ActionNone
    BY <1>1, <1>11 DEF DelayTask, IInv, Core, Off
  <2>3. ASSUME asked # ActionNone, ~missed PROVE Pursues(c', asked)
    <3>1. asked \in MotorPosition /\ Pursues(c, asked)
      BY <1>4, <2>3
    <3>2. c.pending_action = asked
      BY <2>2, <3>1 DEF Pursues
    <3> QED
      BY <1>1, <2>2, <3>1, <3>2, DelayPursued
  <2>4. Wins'
    BY <1>4, <1>11, <2>3
  <2> HIDE DEF Wins
  <2> QED
    BY <1>4, <2>1, <2>4
<1>12. CASE PlantTick
  <2>1. /\ c'.elapsed = CountUp(c.elapsed, MaxTravel)
        /\ c'.moving = c.moving /\ c'.motor_position = c.motor_position
        /\ c'.start_motor_position = c.start_motor_position
        /\ c'.target_motor_position = c.target_motor_position
        /\ c'.pending_action = c.pending_action
    BY <1>1, <1>12, TickElapses DEF PlantTick
  <2>2. c.elapsed <= c'.elapsed
    BY <1>1, <2>1, ConstantsAssumption DEF CountUp, ClusterState
  <2>3. /\ EstimatedPosition(c) \in Int /\ EstimatedPosition(c') \in Int
        /\ c.motor_position \in Int
    BY <1>1, EstimateInRange, ConstantTypes DEF MotorPosition, ClusterState
  <2>4. Monotone(c')
    BY <1>1, <2>1, <2>2, <2>3, ElapsedMonotone
    DEF WinsInv, Monotone, Opening, Closing, Stopped
  <2>5. Wins'
    BY <1>4, <1>12, <2>1 DEF PlantTick, Pursues
  <2> HIDE DEF Wins
  <2> QED
    BY <1>4, <2>4, <2>5
<1>13. CASE PlantReboot
  <2>1. c'.moving = Stopped /\ asked' = ActionNone
    BY <1>13, RebootRests DEF PlantReboot
  <2> QED
    BY <1>3, <1>4, <2>1
<1>14. CASE UNCHANGED pvars
  BY <1>1, <1>14 DEF pvars, WinsInv, Monotone
<1> HIDE DEF Wins
<1> QED
  BY <1>6, <1>7, <1>8, <1>9, <1>10, <1>11, <1>12, <1>13, <1>14
  DEF PlantNext, PlantCallback, Tasks

\* Once the cover is at rest it is where the last command asked, through any deferrals,
\* updates and new targets, unless the command was missed; for all travel times, as long
\* as they are not rewritten. (With other times an update may take the cover back, and
\* a deferred action then looks met while the cover moves away from it.)
THEOREM WinsCorrect ==
  ASSUME CalibrationKept
  PROVE  PlantSpec => []AcceptedCommandWins
<1>1. PlantInit => WinsInv
  BY TimedInit, ConstantTypes DEF PlantInit, WinsInv, Init, ClusterInit, Monotone, Opening,
     Closing, Stopped
<1>2. WinsInv /\ [PlantNext]_pvars => WinsInv'
  BY WinsNext
<1>3. WinsInv => AcceptedCommandWins
  BY DEF WinsInv, AcceptedCommandWins, AtRest, Pursues
<1> QED
  BY <1>1, <1>2, <1>3, PTL DEF PlantSpec

-----------------------------------------------------------------------------
(* The position and the time of a run, when a tick is the time in which    *)
(* the shade passes one motor position: then dead reckoning rounds         *)
(* nothing.                                                                *)

UnitSpeed == CalibrationKept /\ LiftTicks = MaxMotorPosition /\ LowerTicks = MaxMotorPosition

Interval == IF MaxMotorPosition \div UpdateShare < MinUpdate THEN MinUpdate
            ELSE MaxMotorPosition \div UpdateShare

\* The relay that is on is the one the direction and the reversal call for.
Wired(k) == k.open_relay <=> ((k.moving = Opening) # k.motor_reversal)

\* The stop comes when the target is reached, at an end not before.
Aimed(k) ==
  /\ k.moving = Opening =>
       /\ k.target_motor_position # 0
       /\ k.target_motor_position = MaxMotorPosition =>
            \/ k.start_motor_position + k.elapsed + k.stop_task >= MaxMotorPosition
            \/ k.elapsed >= MaxMotorPosition
       /\ k.target_motor_position # MaxMotorPosition =>
            k.target_motor_position = k.start_motor_position + k.elapsed + k.stop_task
  /\ k.moving = Closing =>
       /\ k.target_motor_position # MaxMotorPosition
       /\ k.target_motor_position = 0 =>
            \/ k.elapsed + k.stop_task >= k.start_motor_position
            \/ k.elapsed >= MaxMotorPosition
       /\ k.target_motor_position # 0 =>
            k.target_motor_position = k.start_motor_position - k.elapsed - k.stop_task

\* A relay that has been on for so long has driven the shade as far, or to the end.
Driven(k, at, run) ==
  /\ k.moving = Opening => at = MaxMotorPosition \/ run <= at
  /\ k.moving = Closing => at = 0 \/ run <= MaxMotorPosition - at

\* A run is not longer than the travel behind the cover, and then the overrun; at the
\* closed end the overrun starts once more if the position was not updated since.
Paced(k, run) ==
  /\ run + k.stop_task <= MaxMotorPosition + Overrun + Interval
  /\ k.moving = Opening =>
       \/ run <= k.start_motor_position + k.elapsed
       \/ k.start_motor_position + k.elapsed >= MaxMotorPosition
  /\ k.moving = Closing =>
       /\ \/ run <= (MaxMotorPosition - k.start_motor_position) + k.elapsed
          \/ k.elapsed >= k.start_motor_position
       /\ k.motor_position > 0 =>
            k.update_task # Off /\ run + k.update_task <= MaxMotorPosition + Interval

Free(k) == Wired(k) /\ Aimed(k) /\ Driven(k, shade, run_time) /\ Paced(k, run_time)

PlantInv ==
  /\ TimedInv /\ shade \in MotorPosition /\ run_time \in Nat
  /\ WrongReversal(c) => disturbed
  /\ disturbed => astray
  /\ c.moving = Stopped => run_time = 0
  /\ c.moving # Stopped /\ ~disturbed => Free(c)
  /\ ~astray => shade = TrackedPosition(c)

LEMMA UnitEstimate ==
  ASSUME UnitSpeed, NEW k \in ClusterState, Timed(k)
  PROVE  /\ k.moving = Opening =>
              EstimatedPosition(k) = IF k.start_motor_position + k.elapsed > MaxMotorPosition
                                     THEN MaxMotorPosition
                                     ELSE k.start_motor_position + k.elapsed
         /\ k.moving = Closing =>
              EstimatedPosition(k) = IF k.elapsed > k.start_motor_position THEN 0
                                     ELSE k.start_motor_position - k.elapsed
<1>1. k.elapsed \in Nat /\ MaxMotorPosition \in Nat /\ MaxMotorPosition > 0
  BY ConstantTypes DEF ClusterState
<1>2. ASSUME k.moving \in {Opening, Closing} PROVE TravelledDistance(k) = k.elapsed
  <2>1. TravelTime(k, k.moving) = MaxMotorPosition
    BY <1>2, TimedTracks DEF UnitSpeed
  <2> QED
    BY <1>1, <2>1, DivExact DEF TravelledDistance
<1> QED
  BY <1>2 DEF EstimatedPosition, Opening, Closing

LEMMA UnitDuration ==
  ASSUME UnitSpeed, NEW k \in ClusterState, Timed(k), NEW action \in MotorPosition,
         k.moving = DirectionTo(k, action)
  PROVE  /\ MoveDuration(k, k.moving, action) =
              (IF k.moving = Opening THEN action - k.motor_position
               ELSE k.motor_position - action)
              + IF IsEndPosition(action) THEN Overrun ELSE 0
         /\ UpdateInterval(k, k.moving) = Interval
<1> DEFINE delta == IF k.moving = Opening THEN action - k.motor_position
                    ELSE k.motor_position - action
<1>1. /\ k.moving \in {Opening, Closing} /\ delta \in Nat
      /\ MaxMotorPosition \in Nat /\ MaxMotorPosition > 0
  BY ConstantTypes DEF DirectionTo, MotorPosition, ClusterState, Opening, Closing
<1>2. TravelTime(k, k.moving) = MaxMotorPosition
  BY <1>1, TimedTracks DEF UnitSpeed
<1> HIDE DEF delta
<1>3. (delta * MaxMotorPosition) \div MaxMotorPosition = delta
  BY <1>1, DivExact
<1> QED
  BY <1>2, <1>3 DEF MoveDuration, UpdateInterval, Interval, delta

\* The constants of the bound.
LEMMA UnitConstants ==
  ASSUME UnitSpeed, TimedInv
  PROVE  /\ MaxMotorPosition \in Nat /\ MaxMotorPosition > 0 /\ MaxMotorPosition <= MaxTravel
         /\ Overrun \in Nat /\ Interval \in Nat /\ Interval > 0
         /\ MaxTravel \in Nat /\ MaxRun \in Nat
         /\ MaxMotorPosition + Overrun + Interval <= MaxRun
<1>1. /\ MaxMotorPosition \in Nat /\ MaxMotorPosition > 0 /\ Overrun \in Nat
      /\ MinUpdate \in Nat /\ MinUpdate > 0 /\ UpdateShare \in Nat /\ UpdateShare > 0
      /\ MaxTravel \in Nat /\ ManualTimeout \in Nat
  BY ConstantTypes, ConstantsAssumption
<1>2. MaxMotorPosition <= MaxTravel
  <2>1. c.open_time = MaxMotorPosition /\ c.open_time \in 0 .. MaxTravel
    BY TimedTracks DEF UnitSpeed, TimedInv, Inv, IInv, Core, ClusterState
  <2> QED
    BY <1>1, <2>1
<1>3. /\ MaxMotorPosition \div UpdateShare \in Nat /\ MaxTravel \div UpdateShare \in Nat
      /\ MaxMotorPosition \div UpdateShare <= MaxTravel \div UpdateShare
  BY <1>1, <1>2, DivNat, DivMonotone
<1> QED
  BY <1>1, <1>2, <1>3 DEF Interval, MaxRun, MaxTimedRun

LEMMA ObserveFacts ==
  ASSUME Observe
  PROVE  /\ ~disturbed' => /\ ~WrongReversal(c')
                           /\ c'.moving # Stopped => ~disturbed /\ ~Swapped
         /\ WrongReversal(c') => disturbed' /\ astray'
         /\ ~astray' => ~WrongReversal(c') /\ (Realigned \/ (~astray /\ ~disturbed'))
         /\ ~Realigned /\ disturbed' => astray'
         /\ c'.moving = Stopped /\ disturbed' => WrongReversal(c')
         /\ run_time' = IF Relays(c') = Relays(c) THEN run_time ELSE 0
BY Zenon DEF Observe

\* The relays tell a running motor from one at rest.
LEMMA RelaysTell ==
  ASSUME Inv, Inv', (c.moving = Stopped) # (c'.moving = Stopped), Observe
  PROVE  run_time' = 0
<1>1. /\ (c.open_relay \/ c.close_relay) <=> (c.moving # Stopped)
      /\ (c'.open_relay \/ c'.close_relay) <=> (c'.moving # Stopped)
      /\ c.open_relay \in BOOLEAN /\ c'.open_relay \in BOOLEAN
      /\ c.close_relay \in BOOLEAN /\ c'.close_relay \in BOOLEAN
  BY DEF Inv, IInv, Core, ClusterState
<1>2. Relays(c') # Relays(c)
  BY <1>1 DEF Relays
<1> QED
  BY <1>2, ObserveFacts

\* A reversal that is right now and was right before is the same.
LEMMA SameWiring ==
  ASSUME Inv, Inv', ~WrongReversal(c), ~WrongReversal(c')
  PROVE  c'.motor_reversal = c.motor_reversal
BY DEF WrongReversal

\* What is to be shown of a callback.
LEMMA Observed ==
  ASSUME PlantInv, TimedInv', Observe, UNCHANGED shade,
         c'.moving = Stopped => run_time' = 0,
         c'.moving # Stopped /\ ~disturbed' /\ ~disturbed /\ ~Swapped
           /\ ~WrongReversal(c) /\ ~WrongReversal(c') => Free(c)' ,
         ~astray' => shade = TrackedPosition(c')
  PROVE  PlantInv'
<1>1. run_time' \in Nat
  BY ObserveFacts DEF PlantInv
<1>2. c'.moving # Stopped /\ ~disturbed' => Free(c)'
  BY ObserveFacts DEF PlantInv
<1>3. disturbed' => astray'
  <2>1. CASE Realigned
    <3>1. c'.moving = Stopped
      BY <2>1, StopTaskRests DEF Realigned, PlantInv, TimedInv
    <3> QED
      BY <3>1, ObserveFacts
  <2>2. CASE ~Realigned
    BY <2>2, ObserveFacts
  <2> QED
    BY <2>1, <2>2
<1>4. WrongReversal(c') => disturbed'
  BY ObserveFacts
<1> HIDE DEF Free
<1> QED
  BY <1>1, <1>2, <1>3, <1>4 DEF PlantInv

\* A motor at rest has no run.
LEMMA RestObserved ==
  ASSUME PlantInv, Inv', Observe, c'.moving = Stopped
  PROVE  run_time' = 0
<1>1. CASE c.moving = Stopped
  BY <1>1, ObserveFacts DEF PlantInv
<1>2. CASE c.moving # Stopped
  BY <1>2, RelaysTell DEF PlantInv, TimedInv
<1> QED
  BY <1>1, <1>2

LEMMA UnitInterval ==
  ASSUME UnitSpeed, NEW k, Timed(k), k.moving \in {Opening, Closing}
  PROVE  UpdateInterval(k, k.moving) = Interval
<1>1. TravelTime(k, k.moving) = MaxMotorPosition
  BY TimedTracks DEF UnitSpeed
<1> QED
  BY <1>1 DEF UpdateInterval, Interval

\* No callback but the automatic stop changes where the cover is tracked to be.
LEMMA SteeredTracked ==
  ASSUME TimedInv, TimedInv', Steered(c, c')
  PROVE  TrackedPosition(c') = TrackedPosition(c)
<1>1. c \in ClusterState /\ c' \in ClusterState /\ Timed(c')
  BY DEF TimedInv, Inv, IInv, Core
<1>2. ASSUME SameMove(c, c'), c.moving # Stopped
      PROVE  EstimatedPosition(c') = EstimatedPosition(c)
  BY <1>1, <1>2, SameEstimate DEF SameMove, ClusterState
<1>3. CASE GoesOn(c, c')
  BY <1>2, <1>3 DEF GoesOn, SameMove, TrackedPosition
<1>4. CASE Looks(c, c')
  BY <1>2, <1>4 DEF Looks, SameMove, TrackedPosition
<1>5. CASE Stops(c, c')
  BY <1>5 DEF Stops, TrackedPosition
<1>6. ASSUME NEW action, Moves(c, c', action)
      PROVE  TrackedPosition(c') = TrackedPosition(c)
  <2>1. c'.moving # Stopped /\ c'.elapsed = 0
    BY <1>6 DEF Moves, DirectionTo, Opening, Closing, Stopped
  <2> QED
    BY <1>1, <1>6, <2>1, MovesStart DEF Moves, TrackedPosition
<1> QED
  BY <1>3, <1>4, <1>5, <1>6 DEF Steered

\* A move that goes on stays free of disturbance.
LEMMA GoesOnFree ==
  ASSUME UnitSpeed, PlantInv, TimedInv', Observe, UNCHANGED shade,
         SameMove(c, c'), c.moving # Stopped,
         \/ c'.motor_position = c.motor_position /\ c'.update_task = c.update_task
         \/ c'.motor_position = EstimatedPosition(c) /\ c'.update_task = Interval,
         ~disturbed, ~WrongReversal(c), ~WrongReversal(c')
  PROVE  Free(c)'
<1>1. /\ Free(c) /\ c \in ClusterState /\ Timed(c) /\ run_time \in Nat
      /\ MaxMotorPosition \in Nat /\ Interval \in Nat /\ Interval > 0
  BY UnitConstants DEF PlantInv, TimedInv, Inv, IInv, Core
<1>2. run_time' = run_time
  BY ObserveFacts DEF SameMove, SameRelays, Relays
<1>3. Wired(c')
  <2>1. c'.motor_reversal = c.motor_reversal
    BY SameWiring DEF PlantInv, TimedInv
  <2> QED
    BY <1>1, <2>1 DEF Free, Wired, SameMove, SameRelays
<1>4. Aimed(c')
  BY <1>1 DEF Free, Aimed, SameMove
<1>5. Driven(c', shade', run_time')
  BY <1>1, <1>2 DEF Free, Driven, SameMove
<1>6. Paced(c', run_time')
  <2>1. ASSUME c.moving = Closing, c'.motor_position > 0
        PROVE  /\ c'.update_task # Off
               /\ run_time + c'.update_task <= MaxMotorPosition + Interval
    <3>1. CASE c'.motor_position = c.motor_position /\ c'.update_task = c.update_task
      BY <1>1, <2>1, <3>1 DEF Free, Paced
    <3>2. CASE c'.motor_position = EstimatedPosition(c) /\ c'.update_task = Interval
      <4>1. c.elapsed < c.start_motor_position
        <5>1. EstimatedPosition(c) = IF c.elapsed > c.start_motor_position THEN 0
                                     ELSE c.start_motor_position - c.elapsed
          BY <1>1, <2>1, UnitEstimate
        <5> QED
          BY <1>1, <2>1, <3>2, <5>1 DEF ClusterState, MotorPosition
      <4>2. run_time <= (MaxMotorPosition - c.start_motor_position) + c.elapsed
        BY <1>1, <2>1, <4>1 DEF Free, Paced, ClusterState, MotorPosition
      <4> QED
        BY <1>1, <3>2, <4>1, <4>2 DEF ClusterState, MotorPosition, Off
    <3> QED
      BY <3>1, <3>2
  <2>2. Paced(c, run_time)
    BY <1>1 DEF Free
  <2> QED
    BY <1>2, <2>1, <2>2 DEF Paced, SameMove
<1> QED
  BY <1>3, <1>4, <1>5, <1>6 DEF Free


\* The relays of an undisturbed move keep its direction.
LEMMA MovesWired ==
  ASSUME PlantInv, TimedInv', Observe, NEW action, Moves(c, c', action),
         c.moving # Stopped => ~disturbed,
         ~Swapped, ~WrongReversal(c), ~WrongReversal(c')
  PROVE  /\ Wired(c') /\ c'.moving \in {Opening, Closing}
         /\ \/ c.moving = Stopped /\ run_time' = 0
            \/ c'.moving = c.moving /\ run_time' = run_time
<1>1. c'.moving \in {Opening, Closing} /\ c'.moving # Stopped
  BY DEF Moves, DirectionTo, Opening, Closing, Stopped
<1>2. c'.motor_reversal = c.motor_reversal
  BY SameWiring DEF PlantInv, TimedInv
<1>3. c.moving # Stopped => Wired(c)
  BY DEF PlantInv, Free
<1>4. CASE c.moving = Stopped
  <2>1. run_time' = 0
    BY <1>1, <1>4, RelaysTell DEF PlantInv, TimedInv
  <2> QED
    BY <1>1, <1>4, <2>1 DEF Moves, Wired
<1>5. CASE c.moving # Stopped /\ c'.moving = c.moving
  <2>1. SameRelays(c, c')
    BY <1>5 DEF Moves
  <2>2. run_time' = run_time
    BY <2>1, ObserveFacts DEF SameRelays, Relays
  <2> QED
    BY <1>1, <1>2, <1>3, <1>5, <2>1, <2>2 DEF Wired, SameRelays
<1>6. CASE c.moving # Stopped /\ c'.moving # c.moving
  <2>1. /\ c'.open_relay <=> ((c'.moving = Opening) # c'.motor_reversal)
        /\ c.open_relay <=> ((c.moving = Opening) # c.motor_reversal)
    BY <1>3, <1>6 DEF Moves, Wired
  <2>2. /\ c.open_relay \in BOOLEAN /\ c.close_relay \in BOOLEAN
        /\ c'.open_relay \in BOOLEAN /\ c'.close_relay \in BOOLEAN
        /\ c.motor_reversal \in BOOLEAN /\ c.moving \in {Stopped, Opening, Closing}
        /\ (c.open_relay \/ c.close_relay) /\ (c'.open_relay \/ c'.close_relay)
        /\ ~(c.open_relay /\ c.close_relay) /\ ~(c'.open_relay /\ c'.close_relay)
    BY <1>1, <1>6 DEF PlantInv, TimedInv, Inv, IInv, Core, ClusterState
  <2>3. (c.moving = Opening) # (c'.moving = Opening)
    BY <1>1, <1>6, <2>2
  <2>4. c.open_relay # c'.open_relay
    BY <1>2, <2>1, <2>2, <2>3
  <2>5. Swapped
    BY <2>2, <2>4 DEF Swapped
  <2> QED
    BY <2>5
<1> QED
  BY <1>4, <1>5, <1>6

\* Where an undisturbed run has come to when a new move begins, in the direction of the
\* relay that is on.
LEMMA MovesFrom ==
  ASSUME UnitSpeed, PlantInv, NEW action \in MotorPosition, Moves(c, c', action),
         ~disturbed, c'.moving = c.moving
  PROVE  LET at == c'.start_motor_position
         IN  /\ c.moving = Opening => at < action /\ run_time <= at
             /\ c.moving = Closing =>
                  /\ action <= at /\ action < MaxMotorPosition
                  /\ at > 0 => run_time <= MaxMotorPosition - at
                  /\ at = 0 => action = 0 /\ run_time <= MaxMotorPosition + Interval
<1> DEFINE at == c'.start_motor_position
<1>1. /\ c \in ClusterState /\ Timed(c) /\ run_time \in Nat
      /\ MaxMotorPosition \in Nat /\ MaxMotorPosition > 0
      /\ Interval \in Nat /\ Interval > 0
      /\ c.update_task \in {Off} \cup Nat
  BY UnitConstants DEF PlantInv, TimedInv, Inv, IInv, Core, ClusterState
<1>2. /\ at = TrackedPosition(c) /\ c'.motor_position = at /\ action # c.motor_position
      /\ c'.moving = DirectionTo(c', action) /\ c.moving \in {Stopped, DirectionTo(c, action)}
  BY DEF Moves
<1>3. /\ c.start_motor_position \in 0 .. MaxMotorPosition /\ c.elapsed \in Nat
      /\ c.motor_position \in 0 .. MaxMotorPosition /\ action \in 0 .. MaxMotorPosition
  BY <1>1 DEF ClusterState, MotorPosition
<1>4. c.moving # Stopped => Paced(c, run_time)
  BY DEF PlantInv, Free
<1> HIDE DEF at
<1>5. ASSUME c.moving = Opening PROVE at < action /\ run_time <= at
  <2>1. at = IF c.start_motor_position + c.elapsed > MaxMotorPosition THEN MaxMotorPosition
             ELSE c.start_motor_position + c.elapsed
    BY <1>1, <1>2, <1>5, UnitEstimate DEF TrackedPosition, Opening, Stopped
  <2>2. at < action
    BY <1>2, <1>5, <1>1, <1>3, <2>1 DEF DirectionTo, Opening, Closing
  <2>3. \/ run_time <= c.start_motor_position + c.elapsed
        \/ c.start_motor_position + c.elapsed >= MaxMotorPosition
    BY <1>4, <1>5 DEF Paced, Opening, Stopped
  <2> QED
    BY <1>1, <1>3, <2>1, <2>2, <2>3
<1>6. ASSUME c.moving = Closing
      PROVE  /\ action <= at /\ action < MaxMotorPosition
             /\ at > 0 => run_time <= MaxMotorPosition - at
             /\ at = 0 => action = 0 /\ run_time <= MaxMotorPosition + Interval
  <2>1. at = IF c.elapsed > c.start_motor_position THEN 0
             ELSE c.start_motor_position - c.elapsed
    BY <1>1, <1>2, <1>6, UnitEstimate DEF TrackedPosition, Closing, Stopped
  <2>2. action <= at /\ action < c.motor_position
    <3>1. DirectionTo(c', action) = Closing /\ DirectionTo(c, action) = Closing
      BY <1>2, <1>6 DEF Closing, Stopped
    <3>2. ~(action > at) /\ ~(action > c.motor_position)
      BY <1>2, <3>1 DEF DirectionTo, Opening, Closing
    <3>3. at \in Int
      BY <1>1, <1>3, <2>1
    <3> QED
      BY <1>2, <1>3, <3>2, <3>3
  <2>3. /\ \/ run_time <= (MaxMotorPosition - c.start_motor_position) + c.elapsed
           \/ c.elapsed >= c.start_motor_position
        /\ c.motor_position > 0 =>
             c.update_task # Off /\ run_time + c.update_task <= MaxMotorPosition + Interval
    BY <1>4, <1>6 DEF Paced, Closing, Stopped
  <2>4. run_time <= MaxMotorPosition + Interval
    BY <1>1, <1>3, <2>2, <2>3 DEF Off
  <2> QED
    BY <1>1, <1>3, <2>1, <2>2, <2>3, <2>4
<1> QED
  BY <1>5, <1>6 DEF at

\* A move that begins is free of disturbance.
LEMMA MovesFree ==
  ASSUME UnitSpeed, PlantInv, TimedInv', Observe, UNCHANGED shade,
         NEW action \in MotorPosition, Moves(c, c', action),
         c.moving # Stopped => ~disturbed,
         ~Swapped, ~WrongReversal(c), ~WrongReversal(c')
  PROVE  Free(c)'
<1> DEFINE at == c'.start_motor_position
           extra == IF IsEndPosition(action) THEN Overrun ELSE 0
<1>1. /\ c' \in ClusterState /\ Timed(c') /\ run_time \in Nat /\ shade' = shade
      /\ MaxMotorPosition \in Nat /\ MaxMotorPosition > 0
      /\ Interval \in Nat /\ Interval > 0 /\ Overrun \in Nat
      /\ shade \in 0 .. MaxMotorPosition
  BY UnitConstants DEF PlantInv, TimedInv, Inv, IInv, Core, MotorPosition
<1>2. /\ Wired(c') /\ c'.moving \in {Opening, Closing}
      /\ \/ c.moving = Stopped /\ run_time' = 0
         \/ c'.moving = c.moving /\ run_time' = run_time
  BY MovesWired
<1>3. /\ c'.elapsed = 0 /\ c'.motor_position = at /\ c'.target_motor_position = action
      /\ c'.moving = DirectionTo(c', action) /\ at \in 0 .. MaxMotorPosition
      /\ action \in 0 .. MaxMotorPosition /\ action # c.motor_position
  BY <1>1 DEF Moves, ClusterState, MotorPosition
<1>4. /\ c'.stop_task = (IF c'.moving = Opening THEN action - at ELSE at - action) + extra
      /\ c'.update_task = Interval
  BY <1>1, <1>3, UnitDuration DEF Moves
<1>5. /\ c.moving = Stopped => at = c.motor_position
      /\ c'.moving = c.moving =>
           /\ c.moving = Opening => run_time <= at
           /\ c.moving = Closing =>
                /\ action < MaxMotorPosition
                /\ at > 0 => run_time <= MaxMotorPosition - at
                /\ at = 0 => action = 0 /\ run_time <= MaxMotorPosition + Interval
  <2>1. CASE c.moving = Stopped
    BY <1>2, <2>1 DEF Moves, TrackedPosition, Opening, Closing, Stopped
  <2>2. CASE c.moving # Stopped
    BY <2>2, MovesFrom
  <2> QED
    BY <2>1, <2>2
<1>6. /\ c'.moving = Opening => at < action
      /\ c'.moving = Closing => action <= at
  BY <1>3 DEF DirectionTo, Opening, Closing
<1>7. /\ extra \in {0, Overrun}
      /\ action \in {0, MaxMotorPosition} => extra = Overrun
  BY DEF IsEndPosition
<1>8. Opening # Closing
  BY DEF Opening, Closing
<1>9. c.moving # Stopped => Driven(c, shade, run_time)
  BY DEF PlantInv, Free
<1> HIDE DEF at, extra
<1>10. ASSUME c'.moving = Closing PROVE action < MaxMotorPosition
  <2>1. CASE c.moving = Stopped
    <3>1. action # at /\ action <= at
      BY <1>3, <1>5, <1>6, <1>10, <2>1
    <3> QED
      BY <1>1, <1>3, <3>1
  <2>2. CASE c'.moving = c.moving
    BY <1>5, <1>10, <2>2
  <2> QED
    BY <1>2, <2>1, <2>2
<1>11. Aimed(c')
  <2>1. ASSUME c'.moving = Opening
        PROVE  /\ action # 0
               /\ action = MaxMotorPosition =>
                    at + c'.elapsed + c'.stop_task >= MaxMotorPosition
               /\ action # MaxMotorPosition => action = at + c'.elapsed + c'.stop_task
    <3>1. c'.stop_task = (action - at) + extra /\ at < action
      BY <2>1, <1>4, <1>6
    <3>2. action # 0 /\ extra = IF action = MaxMotorPosition THEN Overrun ELSE 0
      BY <1>1, <1>3, <3>1 DEF IsEndPosition, extra
    <3> QED
      BY <1>1, <1>3, <3>1, <3>2
  <2>2. ASSUME c'.moving = Closing
        PROVE  /\ action # MaxMotorPosition
               /\ action = 0 => c'.elapsed + c'.stop_task >= at
               /\ action # 0 => action = at - c'.elapsed - c'.stop_task
    <3>1. c'.stop_task = (at - action) + extra /\ action <= at
      BY <2>2, <1>4, <1>6, <1>8
    <3>2. action < MaxMotorPosition /\ extra = IF action = 0 THEN Overrun ELSE 0
      BY <1>1, <1>3, <1>10, <2>2 DEF IsEndPosition, extra
    <3> QED
      BY <1>1, <1>3, <3>1, <3>2
  <2> QED
    BY <1>3, <2>1, <2>2 DEF Aimed, at
<1>12. Driven(c', shade', run_time')
  BY <1>1, <1>2, <1>8, <1>9 DEF Driven, Opening, Closing, Stopped
<1>13. Paced(c', run_time')
  <2>1. run_time' + c'.stop_task <= MaxMotorPosition + Overrun + Interval
    BY <1>1, <1>2, <1>3, <1>4, <1>5, <1>6, <1>7, <1>8
  <2>2. c'.moving = Opening => run_time' <= at + c'.elapsed
    BY <1>1, <1>2, <1>3, <1>5
  <2>3. ASSUME c'.moving = Closing
        PROVE  /\ \/ run_time' <= (MaxMotorPosition - at) + c'.elapsed
                  \/ c'.elapsed >= at
               /\ c'.motor_position > 0 =>
                    /\ c'.update_task # Off
                    /\ run_time' + c'.update_task <= MaxMotorPosition + Interval
    BY <2>3, <1>1, <1>2, <1>3, <1>4, <1>5 DEF Off
  <2> QED
    BY <2>1, <2>2, <2>3 DEF Paced, at
<1> QED
  BY <1>2, <1>11, <1>12, <1>13 DEF Free


\* Every callback but the automatic stop.
LEMMA SteeredPlant ==
  ASSUME UnitSpeed, PlantInv, TimedInv', Observe, UNCHANGED shade, Steered(c, c'), ~StopTask
  PROVE  PlantInv'
<1>1. TimedInv /\ Inv'
  BY DEF PlantInv, TimedInv
<1>2. c'.moving = Stopped => run_time' = 0
  BY <1>1, RestObserved
<1>3. ASSUME c'.moving # Stopped, ~disturbed, ~Swapped,
             ~WrongReversal(c), ~WrongReversal(c')
      PROVE  Free(c)'
  <2>1. CASE GoesOn(c, c')
    BY <1>3, <2>1, GoesOnFree DEF GoesOn, SameMove
  <2>2. CASE Looks(c, c')
    <3>1. c'.moving \in {Opening, Closing} /\ Timed(c')
      BY <1>1, <1>3 DEF TimedInv, Inv, IInv, Core, ClusterState
    <3>2. c'.update_task = Interval
      BY <2>2, <3>1, UnitInterval DEF Looks
    <3> QED
      BY <1>3, <2>2, <3>2, GoesOnFree DEF Looks
  <2>3. CASE Stops(c, c')
    BY <1>3, <2>3 DEF Stops
  <2>4. ASSUME NEW action \in MotorPosition, Moves(c, c', action) PROVE Free(c)'
    BY <1>3, <2>4, MovesFree
  <2> QED
    BY <2>1, <2>2, <2>3, <2>4 DEF Steered
<1>4. ASSUME ~astray' PROVE shade = TrackedPosition(c')
  <2>1. ~astray
    BY <1>4, ObserveFacts DEF Realigned
  <2> QED
    BY <1>1, <2>1, SteeredTracked DEF PlantInv
<1> QED
  BY <1>2, <1>3, <1>4, Observed

\* The automatic stop finds the shade where the move was to take it, and at an end whatever
\* was known of it before.
LEMMA StopTaskPlant ==
  ASSUME UnitSpeed, PlantInv, TimedInv', Observe, UNCHANGED shade, StopTask
  PROVE  PlantInv'
<1>1. TimedInv /\ Inv /\ Inv'
  BY DEF PlantInv, TimedInv
<1>2. /\ c'.moving = Stopped /\ c'.motor_position = c.target_motor_position
      /\ c.moving # Stopped /\ c.stop_task = 0
  BY <1>1, StopTaskRests
<1>3. c'.moving = Stopped => run_time' = 0
  BY <1>1, RestObserved
<1>4. /\ c \in ClusterState /\ Timed(c) /\ run_time \in Nat
      /\ c.moving \in {Opening, Closing}
      /\ c.start_motor_position \in 0 .. MaxMotorPosition /\ c.elapsed \in Nat
      /\ c.target_motor_position \in 0 .. MaxMotorPosition
      /\ MaxMotorPosition \in Nat /\ MaxMotorPosition > 0
      /\ shade \in 0 .. MaxMotorPosition
  BY <1>1, <1>2, UnitConstants DEF PlantInv, TimedInv, Inv, IInv, Core, ClusterState,
     MotorPosition
<1>5. Opening # Closing
  BY DEF Opening, Closing
<1>6. ASSUME Realigned PROVE shade = c.target_motor_position
  <2>1. /\ ~disturbed /\ run_time >= MaxMotorPosition
        /\ c.target_motor_position \in {0, MaxMotorPosition}
    BY <1>6 DEF Realigned, IsEndPosition, FullTravel, UnitSpeed
  <2>2. Driven(c, shade, run_time) /\ Aimed(c)
    BY <1>2, <2>1 DEF PlantInv, Free
  <2>3. CASE c.moving = Opening
    <3>1. c.target_motor_position # 0 /\ (shade = MaxMotorPosition \/ run_time <= shade)
      BY <2>2, <2>3 DEF Driven, Aimed
    <3> QED
      BY <1>4, <2>1, <3>1
  <2>4. CASE c.moving = Closing
    <3>1. /\ c.target_motor_position # MaxMotorPosition
          /\ shade = 0 \/ run_time <= MaxMotorPosition - shade
      BY <2>2, <2>4 DEF Driven, Aimed
    <3> QED
      BY <1>4, <2>1, <3>1
  <2> QED
    BY <1>4, <2>3, <2>4
<1>7. ASSUME ~astray PROVE shade = c.target_motor_position
  <2>1. Aimed(c) /\ shade = EstimatedPosition(c)
    BY <1>2, <1>7 DEF PlantInv, Free, TrackedPosition
  <2>2. CASE c.moving = Opening
    <3>1. shade = IF c.start_motor_position + c.elapsed > MaxMotorPosition
                  THEN MaxMotorPosition ELSE c.start_motor_position + c.elapsed
      BY <1>4, <2>1, <2>2, UnitEstimate
    <3>2. /\ c.target_motor_position = MaxMotorPosition =>
               \/ c.start_motor_position + c.elapsed + 0 >= MaxMotorPosition
               \/ c.elapsed >= MaxMotorPosition
          /\ c.target_motor_position # MaxMotorPosition =>
               c.target_motor_position = c.start_motor_position + c.elapsed + 0
      BY <1>2, <2>1, <2>2 DEF Aimed
    <3> QED
      BY <1>4, <3>1, <3>2
  <2>3. CASE c.moving = Closing
    <3>1. shade = IF c.elapsed > c.start_motor_position THEN 0
                  ELSE c.start_motor_position - c.elapsed
      BY <1>4, <2>1, <2>3, UnitEstimate
    <3>2. /\ c.target_motor_position = 0 =>
               \/ c.elapsed + 0 >= c.start_motor_position
               \/ c.elapsed >= MaxMotorPosition
          /\ c.target_motor_position # 0 =>
               c.target_motor_position = c.start_motor_position - c.elapsed - 0
      BY <1>2, <2>1, <2>3 DEF Aimed
    <3> QED
      BY <1>4, <3>1, <3>2
  <2> QED
    BY <1>4, <2>2, <2>3
<1>8. ASSUME ~astray' PROVE shade = TrackedPosition(c')
  <2>1. Realigned \/ ~astray
    BY <1>8, ObserveFacts
  <2> QED
    BY <1>2, <1>6, <1>7, <2>1 DEF TrackedPosition
<1> QED
  BY <1>2, <1>3, <1>8, Observed

\* The shade follows the relay that is on.
LEMMA ShadeMoves ==
  ASSUME UnitSpeed, PlantInv, MoveShade
  PROVE  /\ shade' \in MotorPosition
         /\ c.moving = Stopped => shade' = shade
         /\ c.moving = Opening /\ Wired(c) /\ ~WrongReversal(c) =>
              shade' = IF shade + 1 > MaxMotorPosition THEN MaxMotorPosition ELSE shade + 1
         /\ c.moving = Closing /\ Wired(c) /\ ~WrongReversal(c) =>
              shade' = IF shade - 1 < 0 THEN 0 ELSE shade - 1
<1>1. /\ c.open_relay \in BOOLEAN /\ c.close_relay \in BOOLEAN
      /\ c.motor_reversal \in BOOLEAN /\ c.moving \in {Stopped, Opening, Closing}
      /\ (c.open_relay \/ c.close_relay) <=> (c.moving # Stopped)
      /\ ~(c.open_relay /\ c.close_relay)
  BY DEF PlantInv, TimedInv, Inv, IInv, Core, ClusterState
<1>2. /\ MaxMotorPosition \in Nat /\ MaxMotorPosition > 0 /\ shade \in 0 .. MaxMotorPosition
  BY ConstantTypes DEF PlantInv, MotorPosition
<1>3. MaxMotorPosition \div LiftTicks = 1 /\ MaxMotorPosition \div LowerTicks = 1
  <2>1. (1 * MaxMotorPosition) \div MaxMotorPosition = 1
    BY <1>2, DivExact
  <2>2. 1 * MaxMotorPosition = MaxMotorPosition
    BY <1>2
  <2> QED
    BY <2>1, <2>2 DEF UnitSpeed
<1>4. /\ Lifted(shade) = IF shade + 1 > MaxMotorPosition THEN MaxMotorPosition ELSE shade + 1
      /\ Lowered(shade) = IF shade - 1 < 0 THEN 0 ELSE shade - 1
  BY <1>3 DEF Lifted, Lowered
<1>5. Lifted(shade) \in MotorPosition /\ Lowered(shade) \in MotorPosition
  BY <1>2, <1>4 DEF MotorPosition
<1>6. c.moving = Stopped => ~Lifting(c) /\ ~Lowering(c)
  BY <1>1, Zenon DEF Lifting, Lowering
<1>7. ASSUME Wired(c), ~WrongReversal(c), c.moving # Stopped
      PROVE  /\ Lifting(c) <=> (c.moving = Opening)
             /\ Lowering(c) <=> (c.moving # Opening)
  BY <1>1, <1>7 DEF Wired, WrongReversal, Lifting, Lowering
<1>8. Opening # Closing /\ Opening # Stopped /\ Closing # Stopped
  BY DEF Opening, Closing, Stopped
<1>9. shade' \in MotorPosition
  BY <1>5 DEF MoveShade, PlantInv
<1> QED
  BY <1>4, <1>6, <1>7, <1>8, <1>9 DEF MoveShade


LEMMA TickPlant ==
  ASSUME UnitSpeed, PlantInv, TimedInv', PlantTick
  PROVE  PlantInv'
<1>1. /\ c \in ClusterState /\ Timed(c) /\ run_time \in Nat /\ c' \in ClusterState
      /\ Timed(c') /\ c.moving \in {Stopped, Opening, Closing} /\ Inv
      /\ c.start_motor_position \in 0 .. MaxMotorPosition /\ c.elapsed \in 0 .. MaxTravel
      /\ c.target_motor_position \in 0 .. MaxMotorPosition
      /\ c.motor_position \in 0 .. MaxMotorPosition
      /\ c.update_task \in {Off} \cup Nat /\ c.stop_task \in {Off} \cup Nat
      /\ c.moving # Stopped => c.stop_task # Off
      /\ shade \in 0 .. MaxMotorPosition
  BY DEF PlantInv, TimedInv, Inv, IInv, Core, Supervised, ClusterState, MotorPosition
<1>2. /\ MaxMotorPosition \in Nat /\ MaxMotorPosition > 0 /\ MaxMotorPosition <= MaxTravel
      /\ MaxTravel \in Nat /\ Overrun \in Nat /\ Interval \in Nat /\ MaxRun \in Nat
  BY UnitConstants DEF PlantInv
<1>3. /\ c.stop_task # 0 /\ c.update_task # 0
      /\ c'.stop_task = CountDown(c.stop_task) /\ c'.update_task = CountDown(c.update_task)
      /\ c'.elapsed = CountUp(c.elapsed, MaxTravel)
      /\ SameRelays(c, c') /\ c'.moving = c.moving /\ c'.motor_position = c.motor_position
      /\ c'.start_motor_position = c.start_motor_position
      /\ c'.target_motor_position = c.target_motor_position
      /\ c'.motor_reversal = c.motor_reversal
  BY <1>1, TickElapses DEF PlantTick
<1>4. /\ run_time' = IF c.moving = Stopped THEN 0 ELSE CountUp(run_time, MaxRun + 1)
      /\ disturbed' = disturbed /\ astray' = astray /\ MoveShade
  BY DEF PlantTick
<1>5. /\ c'.elapsed = IF c.elapsed >= MaxTravel THEN MaxTravel ELSE c.elapsed + 1
      /\ c.moving # Stopped => c'.stop_task = c.stop_task - 1 /\ c.stop_task > 0
      /\ c.update_task = Off => c'.update_task = Off
      /\ c.update_task # Off => c'.update_task = c.update_task - 1 /\ c.update_task > 0
      /\ run_time' \in Nat /\ run_time' <= run_time + 1
      /\ c.moving = Stopped => run_time' = 0
  BY <1>1, <1>2, <1>3, <1>4 DEF CountUp, CountDown, Off
<1>6. Opening # Closing /\ Opening # Stopped /\ Closing # Stopped
  BY DEF Opening, Closing, Stopped
<1>7. WrongReversal(c') = WrongReversal(c) /\ (WrongReversal(c) => disturbed)
      /\ (disturbed => astray)
  BY <1>3 DEF WrongReversal, PlantInv
<1>8. /\ shade' \in MotorPosition
      /\ c.moving = Stopped => shade' = shade
      /\ c.moving = Opening /\ Wired(c) /\ ~WrongReversal(c) =>
           shade' = IF shade + 1 > MaxMotorPosition THEN MaxMotorPosition ELSE shade + 1
      /\ c.moving = Closing /\ Wired(c) /\ ~WrongReversal(c) =>
           shade' = IF shade - 1 < 0 THEN 0 ELSE shade - 1
  BY <1>4, ShadeMoves
<1>9. ASSUME c.moving # Stopped, ~disturbed
      PROVE  Free(c) /\ Wired(c) /\ Aimed(c) /\ Driven(c, shade, run_time)
             /\ Paced(c, run_time) /\ ~WrongReversal(c)
  BY <1>7, <1>9 DEF PlantInv, Free
<1>10. ASSUME c.moving # Stopped, ~disturbed PROVE Free(c)'
  <2>1. Wired(c')
    BY <1>3, <1>9, <1>10 DEF Wired, SameRelays
  <2>2. Aimed(c')
    <3>1. CASE c.moving = Opening
      <4>1. /\ c.target_motor_position # 0
            /\ c.target_motor_position = MaxMotorPosition =>
                 \/ c.start_motor_position + c.elapsed + c.stop_task >= MaxMotorPosition
                 \/ c.elapsed >= MaxMotorPosition
            /\ c.target_motor_position # MaxMotorPosition =>
                 c.target_motor_position = c.start_motor_position + c.elapsed + c.stop_task
        BY <1>9, <1>10, <3>1 DEF Aimed
      <4>2. /\ c.target_motor_position = MaxMotorPosition =>
                 \/ c.start_motor_position + c'.elapsed + c'.stop_task >= MaxMotorPosition
                 \/ c'.elapsed >= MaxMotorPosition
            /\ c.target_motor_position # MaxMotorPosition =>
                 c.target_motor_position = c.start_motor_position + c'.elapsed + c'.stop_task
        BY <1>1, <1>2, <1>5, <1>10, <4>1
      <4> QED
        BY <1>3, <1>6, <3>1, <4>1, <4>2 DEF Aimed
    <3>2. CASE c.moving = Closing
      <4>1. /\ c.target_motor_position # MaxMotorPosition
            /\ c.target_motor_position = 0 =>
                 \/ c.elapsed + c.stop_task >= c.start_motor_position
                 \/ c.elapsed >= MaxMotorPosition
            /\ c.target_motor_position # 0 =>
                 c.target_motor_position = c.start_motor_position - c.elapsed - c.stop_task
        BY <1>9, <1>10, <3>2 DEF Aimed
      <4>2. /\ c.target_motor_position = 0 =>
                 \/ c'.elapsed + c'.stop_task >= c.start_motor_position
                 \/ c'.elapsed >= MaxMotorPosition
            /\ c.target_motor_position # 0 =>
                 c.target_motor_position = c.start_motor_position - c'.elapsed - c'.stop_task
        BY <1>1, <1>2, <1>5, <1>10, <4>1
      <4> QED
        BY <1>3, <1>6, <3>2, <4>1, <4>2 DEF Aimed
    <3> QED
      BY <1>1, <1>10, <3>1, <3>2
  <2>3. Driven(c', shade', run_time')
    <3>1. ASSUME c.moving = Opening PROVE shade' = MaxMotorPosition \/ run_time' <= shade'
      <4>1. /\ shade = MaxMotorPosition \/ run_time <= shade
            /\ shade' = IF shade + 1 > MaxMotorPosition THEN MaxMotorPosition ELSE shade + 1
        BY <1>8, <1>9, <1>10, <3>1 DEF Driven
      <4> QED
        BY <1>1, <1>2, <1>5, <4>1
    <3>2. ASSUME c.moving = Closing PROVE shade' = 0 \/ run_time' <= MaxMotorPosition - shade'
      <4>1. /\ shade = 0 \/ run_time <= MaxMotorPosition - shade
            /\ shade' = IF shade - 1 < 0 THEN 0 ELSE shade - 1
        BY <1>8, <1>9, <1>10, <3>2 DEF Driven
      <4> QED
        BY <1>1, <1>2, <1>5, <4>1
    <3> QED
      BY <1>3, <3>1, <3>2 DEF Driven
  <2>4. Paced(c', run_time')
    <3>1. run_time' + c'.stop_task <= MaxMotorPosition + Overrun + Interval
      <4>1. run_time + c.stop_task <= MaxMotorPosition + Overrun + Interval
        BY <1>9, <1>10 DEF Paced
      <4> QED
        BY <1>1, <1>2, <1>5, <1>10, <4>1 DEF Off
    <3>2. ASSUME c.moving = Opening
          PROVE  \/ run_time' <= c.start_motor_position + c'.elapsed
                 \/ c.start_motor_position + c'.elapsed >= MaxMotorPosition
      <4>1. \/ run_time <= c.start_motor_position + c.elapsed
            \/ c.start_motor_position + c.elapsed >= MaxMotorPosition
        BY <1>9, <1>10, <3>2 DEF Paced
      <4> QED
        BY <1>1, <1>2, <1>5, <4>1
    <3>3. ASSUME c.moving = Closing
          PROVE  /\ \/ run_time' <= (MaxMotorPosition - c.start_motor_position) + c'.elapsed
                    \/ c'.elapsed >= c.start_motor_position
                 /\ c.motor_position > 0 =>
                      /\ c'.update_task # Off
                      /\ run_time' + c'.update_task <= MaxMotorPosition + Interval
      <4>1. /\ \/ run_time <= (MaxMotorPosition - c.start_motor_position) + c.elapsed
               \/ c.elapsed >= c.start_motor_position
            /\ c.motor_position > 0 =>
                 /\ c.update_task # Off
                 /\ run_time + c.update_task <= MaxMotorPosition + Interval
        BY <1>9, <1>10, <3>3 DEF Paced
      <4>2. \/ run_time' <= (MaxMotorPosition - c.start_motor_position) + c'.elapsed
            \/ c'.elapsed >= c.start_motor_position
        BY <1>1, <1>2, <1>5, <4>1
      <4>3. ASSUME c.motor_position > 0
            PROVE  /\ c'.update_task # Off
                   /\ run_time' + c'.update_task <= MaxMotorPosition + Interval
        BY <1>1, <1>2, <1>5, <4>1, <4>3 DEF Off
      <4> QED
        BY <4>2, <4>3
    <3> QED
      BY <1>3, <3>1, <3>2, <3>3 DEF Paced
  <2> QED
    BY <2>1, <2>2, <2>3, <2>4 DEF Free
<1>11. ASSUME ~astray PROVE shade' = TrackedPosition(c')
  <2>1. shade = TrackedPosition(c) /\ ~disturbed
    BY <1>7, <1>11 DEF PlantInv
  <2>2. CASE c.moving = Stopped
    BY <1>3, <1>8, <2>1, <2>2 DEF TrackedPosition
  <2>3. CASE c.moving = Opening
    <3>1. shade = IF c.start_motor_position + c.elapsed > MaxMotorPosition
                  THEN MaxMotorPosition ELSE c.start_motor_position + c.elapsed
      BY <1>1, <1>6, <2>1, <2>3, UnitEstimate DEF TrackedPosition
    <3>2. TrackedPosition(c') = IF c.start_motor_position + c'.elapsed > MaxMotorPosition
                                THEN MaxMotorPosition
                                ELSE c.start_motor_position + c'.elapsed
      BY <1>1, <1>3, <1>6, <2>3, UnitEstimate DEF TrackedPosition
    <3>3. shade' = IF shade + 1 > MaxMotorPosition THEN MaxMotorPosition ELSE shade + 1
      BY <1>6, <1>8, <1>9, <2>1, <2>3
    <3> QED
      BY <1>1, <1>2, <1>5, <3>1, <3>2, <3>3
  <2>4. CASE c.moving = Closing
    <3>1. shade = IF c.elapsed > c.start_motor_position THEN 0
                  ELSE c.start_motor_position - c.elapsed
      BY <1>1, <1>6, <2>1, <2>4, UnitEstimate DEF TrackedPosition
    <3>2. TrackedPosition(c') = IF c'.elapsed > c.start_motor_position THEN 0
                                ELSE c.start_motor_position - c'.elapsed
      BY <1>1, <1>3, <1>6, <2>4, UnitEstimate DEF TrackedPosition
    <3>3. shade' = IF shade - 1 < 0 THEN 0 ELSE shade - 1
      BY <1>6, <1>8, <1>9, <2>1, <2>4
    <3> QED
      BY <1>1, <1>2, <1>5, <3>1, <3>2, <3>3
  <2> QED
    BY <1>1, <2>2, <2>3, <2>4
<1> HIDE DEF Free
<1>12. /\ shade' \in MotorPosition /\ run_time' \in Nat
       /\ WrongReversal(c') => disturbed'
       /\ disturbed' => astray'
       /\ c'.moving = Stopped => run_time' = 0
       /\ ~astray' => shade' = TrackedPosition(c')
  BY <1>3, <1>4, <1>5, <1>7, <1>8, <1>11
<1>13. c'.moving # Stopped /\ ~disturbed' => Free(c)'
  BY <1>3, <1>4, <1>10
<1> QED
  BY <1>12, <1>13 DEF PlantInv

\* A power cycle, and the start: the cover is at rest.
LEMMA RestPlant ==
  ASSUME TimedInv', shade' \in MotorPosition, run_time' = 0, c'.moving = Stopped,
         WrongReversal(c') => disturbed',
         disturbed' => astray', ~astray' => shade' = c'.motor_position
  PROVE  PlantInv'
<1> HIDE DEF Free
<1> QED
  BY DEF PlantInv, TrackedPosition

LEMMA InitPlant == PlantInit => PlantInv
<1> SUFFICES ASSUME PlantInit PROVE PlantInv
  OBVIOUS
<1>1. TimedInv
  BY TimedInit
<1>2. c.moving = Stopped
  <2>1. c = ClusterInit(LoadedConfig)
    BY DEF PlantInit, Init
  <2> QED
    BY <2>1 DEF ClusterInit
<1>3. /\ shade = c.motor_position /\ run_time = 0 /\ ~disturbed /\ ~astray
      /\ ~WrongReversal(c)
  BY DEF PlantInit, Calibrated
<1>4. shade \in MotorPosition
  BY <1>1, <1>3 DEF TimedInv, Inv, IInv, Core, ClusterState
<1> HIDE DEF Free
<1> QED
  BY <1>1, <1>2, <1>3, <1>4 DEF PlantInv, TrackedPosition

LEMMA PlantInvNext ==
  ASSUME UnitSpeed, PlantInv, [PlantNext]_pvars
  PROVE  PlantInv'
<1>1. TimedInv /\ TimedInv'
  BY PlantIsNext, TimedNext DEF PlantInv, UnitSpeed
<1>2. CASE PlantCallback
  <2>1. Observe /\ UNCHANGED shade
    BY <1>2 DEF PlantCallback
  <2>2. CASE StopTask
    BY <1>1, <2>1, <2>2, StopTaskPlant
  <2>3. CASE ~StopTask
    <3>1. Command \/ Calibrate \/ ReverseMotor \/ UpdateTask \/ DelayTask
      BY <1>2, <2>3 DEF PlantCallback, PlantCommand, Command, Tasks
    <3>2. Steered(c, c')
      BY <1>1, <3>1, CallbackSteers DEF UnitSpeed
    <3> QED
      BY <1>1, <2>1, <2>3, <3>2, SteeredPlant
  <2> QED
    BY <2>2, <2>3
<1>3. CASE PlantTick
  BY <1>1, <1>3, TickPlant
<1>4. CASE PlantReboot
  <2>1. /\ run_time' = 0 /\ disturbed' = WrongReversal(c') /\ shade' = shade
        /\ astray' = (disturbed' \/ c'.motor_position # shade) /\ Reboot
    BY <1>4 DEF PlantReboot
  <2>2. c'.moving = Stopped
    BY <2>1, RebootRests
  <2>3. shade' \in MotorPosition
    BY <2>1 DEF PlantInv
  <2> QED
    BY <1>1, <2>1, <2>2, <2>3, RestPlant
<1>5. CASE UNCHANGED pvars
  <2>1. /\ c' = c /\ shade' = shade /\ run_time' = run_time /\ disturbed' = disturbed
        /\ astray' = astray
    BY <1>5 DEF pvars
  <2> QED
    BY <1>1, <2>1 DEF PlantInv, Free
<1> QED
  BY <1>2, <1>3, <1>4, <1>5 DEF PlantNext

LEMMA PlantInvAlways == ASSUME UnitSpeed PROVE PlantSpec => []PlantInv
<1>1. PlantInv /\ [PlantNext]_pvars => PlantInv'
  BY PlantInvNext
<1> QED
  BY <1>1, InitPlant, PTL DEF PlantSpec

\* Dead reckoning is exact over any sequence of moves, stops, new targets, deferred actions
\* and power cycles, and a move to an end recovers from what it cannot account for, if a
\* tick is the time of one motor position in both directions and the travel times are kept.
THEOREM TrackingCorrect ==
  ASSUME UnitSpeed
  PROVE  PlantSpec => []TrackingExact
<1>1. PlantInv => TrackingExact
  BY DEF PlantInv, TrackingExact
<1> QED
  BY <1>1, PlantInvAlways, PTL

\* No relay is on for longer than a full travel, the overrun and one update interval, for
\* the same cover.
THEOREM RunTimeCorrect ==
  ASSUME UnitSpeed
  PROVE  PlantSpec => []RunTimeBounded
<1>1. ASSUME PlantInv PROVE RunTimeBounded
  <2>1. /\ Overrun \in Nat /\ Interval \in Nat /\ MaxMotorPosition \in Nat /\ MaxRun \in Nat
        /\ MaxMotorPosition + Overrun + Interval <= MaxRun /\ run_time \in Nat
    BY <1>1, UnitConstants DEF PlantInv
  <2>2. CASE c.moving = Stopped
    BY <1>1, <2>1, <2>2 DEF PlantInv, RunTimeBounded
  <2>3. CASE c.moving # Stopped /\ ~disturbed
    <3>1. run_time + c.stop_task <= MaxMotorPosition + Overrun + Interval
      BY <1>1, <2>3 DEF PlantInv, Free, Paced
    <3>2. c.stop_task \in Nat
      BY <1>1, <2>3 DEF PlantInv, TimedInv, Inv, IInv, Core, Supervised, ClusterState
    <3> QED
      BY <2>1, <3>1, <3>2 DEF RunTimeBounded
  <2> QED
    BY <2>2, <2>3 DEF RunTimeBounded
<1> QED
  BY <1>1, PlantInvAlways, PTL

=============================================================================
