---------------------------- MODULE CoverCluster ----------------------------
(***************************************************************************)
(* The window covering cluster (src/zigbee/cover_cluster.c): it drives the *)
(* two relays of a tubular motor, tracks the motor position by dead        *)
(* reckoning, and spaces the relay changes to protect the motor.           *)
(*                                                                         *)
(* Each C function that changes the cluster is an operator from the        *)
(* cluster state to the next cluster state, under the function's name.     *)
(* The event loop runs one callback at a time, so an action is one         *)
(* callback: a ZCL command, an attribute write, a task, or the passage of  *)
(* one tick of time.                                                       *)
(*                                                                         *)
(* Time is counted in ticks.  A task is represented by the ticks left      *)
(* until it is due (Off when unscheduled), last_switch_time and            *)
(* movement_start_time by the ticks elapsed since them.                    *)
(***************************************************************************)
EXTENDS Integers

CONSTANTS
  MaxPct,            \* 100: the reported position is a percentage
  BpPerPct,          \* 100: motor positions per percent
  RelayMinSwitch,    \* RELAY_MIN_SWITCH_TIME_MS
  Overrun,           \* OVERRUN_DURATION_MS
  ManualTimeout,     \* MANUAL_MODE_TIMEOUT_MS
  UpdateShare,       \* 100: a position update every 1/UpdateShare of travel
  MinUpdate,         \* the shortest update interval, 100 ms
  MaxDeadzone,       \* 50: the cap of a deadzone, in percent
  DefaultOpenTime,   \* the open_time of a device that was never configured
  OpenTimes,         \* travel times that may be configured, in ticks
  CloseTimes,
  Deadzones,         \* deadzone percentages that may be written
  Lifts,             \* arguments GoToLiftPercentage may carry
  MaxTravel          \* bound of the times above

Off == -1
Stopped == "stopped"
Opening == "opening"
Closing == "closing"
MaxMotorPosition == MaxPct * BpPerPct
MotorPosition == 0 .. MaxMotorPosition

\* COVER_ACTION_STOP and COVER_ACTION_NONE lie outside the motor positions.
ActionStop == MaxMotorPosition + 1
ActionNone == MaxMotorPosition + 2
Action == 0 .. ActionNone

ASSUME ConstantsAssumption ==
  /\ MaxPct \in Nat \ {0} /\ BpPerPct \in Nat \ {0}
  /\ RelayMinSwitch \in Nat \ {0} /\ Overrun \in Nat
  /\ ManualTimeout \in Nat \ {0}
  /\ UpdateShare \in Nat \ {0} /\ MinUpdate \in Nat \ {0}
  /\ MaxDeadzone \in Nat /\ 2 * MaxDeadzone <= MaxPct
  /\ MaxTravel \in Nat
  /\ DefaultOpenTime \in 0 .. MaxTravel
  /\ OpenTimes \subseteq 0 .. MaxTravel /\ CloseTimes \subseteq 0 .. MaxTravel
  /\ Deadzones \subseteq Nat /\ Lifts \subseteq Nat

VARIABLES
  c,    \* the cluster, its tasks and its two relays
  nv    \* the stored configuration: {} before the first write, else {config}

vars == <<c, nv>>

-----------------------------------------------------------------------------
(* The configuration, and the conversions it governs.                      *)

Config == [motor_reversal: BOOLEAN, open_time: 0 .. MaxTravel,
           close_time: 0 .. MaxTravel, open_deadzone: 0 .. MaxDeadzone,
           closed_deadzone: 0 .. MaxDeadzone, motor_position: MotorPosition]

TravelTime(k, dir) ==
  IF dir = Closing /\ k.close_time > 0 THEN k.close_time ELSE k.open_time

IsManualMode(k) == k.open_time = 0 /\ k.close_time = 0

OpenEdge(k) == MaxMotorPosition - k.open_deadzone * BpPerPct
ClosedEdge(k) == k.closed_deadzone * BpPerPct

MotorToCoverPosition(k) ==
  CASE k.motor_position >= OpenEdge(k) -> MaxPct
    [] k.motor_position < OpenEdge(k) /\ k.motor_position <= ClosedEdge(k) -> 0
    [] OTHER -> ((k.motor_position - ClosedEdge(k)) * MaxPct)
                   \div (OpenEdge(k) - ClosedEdge(k))

CoverToMotorPosition(k, lift) ==
  CASE lift = 0 -> 0
    [] lift >= MaxPct -> MaxMotorPosition
    [] OTHER -> ClosedEdge(k) + (lift * (OpenEdge(k) - ClosedEdge(k))) \div MaxPct

-----------------------------------------------------------------------------
(* Position tracking.                                                      *)

\* Every change of an attribute that is followed by a call of
\* hal_zigbee_notify_attribute_changed also updates "reported".
SetPosition(k, mp) ==
  LET moved == [k EXCEPT !.motor_position = mp]
      pos == MotorToCoverPosition(moved)
  IN  IF pos = k.position THEN moved
      ELSE [moved EXCEPT !.position = pos, !.reported.position = pos]

TravelledDistance(k) ==
  IF TravelTime(k, k.moving) = 0 THEN MaxMotorPosition
  ELSE (k.elapsed * MaxMotorPosition) \div TravelTime(k, k.moving)

EstimatedPosition(k) ==
  LET d == TravelledDistance(k)
  IN  IF k.moving = Opening
      THEN IF k.start_motor_position + d > MaxMotorPosition THEN MaxMotorPosition
           ELSE k.start_motor_position + d
      ELSE IF d > k.start_motor_position THEN 0
           ELSE k.start_motor_position - d

UpdatePosition(k) ==
  IF k.moving = Stopped THEN k ELSE SetPosition(k, EstimatedPosition(k))

\* Mutant of CancelMovementTasks: update_task is forgotten.
CancelStopTask(k) == [k EXCEPT !.stop_task = Off]

CancelMovementTasks(k) == [k EXCEPT !.stop_task = Off, !.update_task = Off]

UpdateInterval(k, dir) ==
  LET share == TravelTime(k, dir) \div UpdateShare
  IN  IF share < MinUpdate THEN MinUpdate ELSE share

UpdateHandler(k) ==
  LET u == UpdatePosition(k)
  IN  IF u.moving = Stopped THEN [u EXCEPT !.update_task = Off]
      ELSE [u EXCEPT !.update_task = UpdateInterval(u, u.moving)]

-----------------------------------------------------------------------------
(* Movement control.                                                       *)

SetMoving(k, dir) ==
  [k EXCEPT !.moving = dir, !.reported.moving = dir, !.since_switch = 0]

\* Mutant of HaltMotor: one of the relays is forgotten.
HaltOpening(k) == SetMoving([k EXCEPT !.open_relay = FALSE], Stopped)

HaltMotor(k) ==
  SetMoving([k EXCEPT !.open_relay = FALSE, !.close_relay = FALSE], Stopped)

DirectionTo(k, action) == IF action > k.motor_position THEN Opening ELSE Closing

\* motor_reversal swaps the two relays at the moment they are switched.
SwitchRelays(k, dir) ==
  IF dir = k.moving THEN k
  ELSE LET opens == (dir = Opening) # k.motor_reversal
       IN  SetMoving([k EXCEPT !.open_relay = opens, !.close_relay = ~opens], dir)

SnapToEnd(k, dir) ==
  LET mp == IF dir = Opening THEN MaxMotorPosition ELSE 0
      pos == IF dir = Opening THEN MaxPct ELSE 0
  IN  [k EXCEPT !.motor_position = mp, !.position = pos, !.reported.position = pos,
                !.stop_task = ManualTimeout]

IsEndPosition(mp) == mp \in {0, MaxMotorPosition}

\* Mutant of MoveDuration: the distance is taken from where the move began.
DurationFromStart(k, dir, action) ==
  LET delta == IF dir = Opening THEN action - k.start_motor_position
               ELSE k.start_motor_position - action
  IN  (delta * TravelTime(k, dir)) \div MaxMotorPosition
        + IF IsEndPosition(action) THEN Overrun ELSE 0

MoveDuration(k, dir, action) ==
  LET delta == IF dir = Opening THEN action - k.motor_position
               ELSE k.motor_position - action
  IN  (delta * TravelTime(k, dir)) \div MaxMotorPosition
        + IF IsEndPosition(action) THEN Overrun ELSE 0

StartMotor(k, action) ==
  LET dir == DirectionTo(k, action)
      s == [SwitchRelays(k, dir) EXCEPT !.target_motor_position = action]
  IN  IF IsManualMode(k) THEN SnapToEnd(s, dir)
      ELSE [s EXCEPT !.start_motor_position = s.motor_position,
                     !.elapsed = 0,
                     !.stop_task = MoveDuration(s, dir, action),
                     !.update_task = UpdateInterval(s, dir)]

\* The early returns of cover_execute_action.
NothingToExecute(k, action) ==
  \/ action = ActionNone
  \/ action = k.motor_position
  \/ action = ActionStop /\ k.moving = Stopped

\* Mutant of ExecuteAction: a running move is not accounted for before the next.
ExecuteUnrefreshed(k, action) ==
  LET u == IF k.moving = Stopped THEN k ELSE CancelMovementTasks(k)
  IN  CASE NothingToExecute(k, action) -> k
        [] ~NothingToExecute(k, action) /\ action = ActionStop -> HaltMotor(u)
        [] OTHER -> StartMotor(u, action)

ExecuteAction(k, action) ==
  LET u == IF k.moving = Stopped THEN k ELSE UpdatePosition(CancelMovementTasks(k))
  IN  CASE NothingToExecute(k, action) -> k
        [] ~NothingToExecute(k, action) /\ action = ActionStop -> HaltMotor(u)
        [] OTHER -> StartMotor(u, action)

AutoStopHandler(k) ==
  LET h == ExecuteAction([k EXCEPT !.stop_task = Off], ActionStop)
  IN  SetPosition(h, h.target_motor_position)

DeferAction(k, action, delay) ==
  [k EXCEPT !.pending_action = action, !.delay_task = delay]

CancelPending(k) == [k EXCEPT !.pending_action = ActionNone, !.delay_task = Off]

\* Mutant of SwitchedRecently: off by one.
SwitchedJustNow(k) == k.since_switch < RelayMinSwitch - 1

SwitchedRecently(k) == k.since_switch < RelayMinSwitch
DeferToSafeTime(k, action) == DeferAction(k, action, RelayMinSwitch - k.since_switch)

DispatchStop(k) ==
  CASE k.moving = Stopped -> CancelPending(k)
    [] k.moving # Stopped /\ SwitchedRecently(k) -> DeferToSafeTime(k, ActionStop)
    [] OTHER -> ExecuteAction(k, ActionStop)

\* Mutant of DispatchMove: an opposite move is executed at once.
MoveWithoutPause(k, action) ==
  LET onCourse == k.moving = DirectionTo(k, action)
  IN  CASE onCourse -> ExecuteAction(CancelPending(k), action)
        [] ~onCourse /\ SwitchedRecently(k) -> DeferToSafeTime(k, action)
        [] OTHER -> ExecuteAction(k, action)

DispatchMove(k, action) ==
  LET onCourse == k.moving = DirectionTo(k, action)
  IN  CASE onCourse -> ExecuteAction(CancelPending(k), action)
        [] ~onCourse /\ SwitchedRecently(k) -> DeferToSafeTime(k, action)
        [] ~onCourse /\ ~SwitchedRecently(k) /\ k.moving = Stopped ->
             ExecuteAction(k, action)
        [] OTHER -> DeferAction(ExecuteAction(k, ActionStop), action, RelayMinSwitch)

DispatchAction(k, action) ==
  CASE action = ActionNone -> k
    [] action = ActionStop -> DispatchStop(k)
    [] OTHER -> DispatchMove(k, action)

\* Mutants of DelayHandler: the pending action is cleared too late, or never.
DelayHandlerClearsLast(k) == CancelPending(DispatchAction(k, k.pending_action))
DelayHandlerKeepsPending(k) ==
  DispatchAction([k EXCEPT !.delay_task = Off], k.pending_action)

DelayHandler(k) == DispatchAction(CancelPending(k), k.pending_action)

-----------------------------------------------------------------------------
(* Start-up and stored configuration.                                      *)

DefaultConfig ==
  [motor_reversal |-> FALSE, open_time |-> DefaultOpenTime, close_time |-> 0,
   open_deadzone |-> 0, closed_deadzone |-> 0,
   motor_position |-> MaxMotorPosition \div 2]

\* cover_cluster_init followed by cover_cluster_load_attrs_from_nv.
ClusterInit(cfg) ==
  LET pos == MotorToCoverPosition(cfg)
  IN  [moving |-> Stopped, motor_reversal |-> cfg.motor_reversal,
       open_time |-> cfg.open_time, close_time |-> cfg.close_time,
       open_deadzone |-> cfg.open_deadzone, closed_deadzone |-> cfg.closed_deadzone,
       position |-> pos, motor_position |-> cfg.motor_position,
       start_motor_position |-> 0, target_motor_position |-> 0,
       pending_action |-> ActionNone, since_switch |-> 0, elapsed |-> 0,
       delay_task |-> Off, stop_task |-> Off, update_task |-> Off,
       open_relay |-> FALSE, close_relay |-> FALSE,
       reported |-> [moving |-> Stopped, position |-> pos]]

StoredConfig(k) ==
  [motor_reversal |-> k.motor_reversal, open_time |-> k.open_time,
   close_time |-> k.close_time, open_deadzone |-> k.open_deadzone,
   closed_deadzone |-> k.closed_deadzone, motor_position |-> k.motor_position]

LoadedConfig == IF nv = {} THEN DefaultConfig ELSE CHOOSE cfg \in nv : TRUE

CapDeadzone(d) == IF d > MaxDeadzone THEN MaxDeadzone ELSE d
CapDeadzones(k) == [k EXCEPT !.open_deadzone = CapDeadzone(@),
                             !.closed_deadzone = CapDeadzone(@)]

\* The stack has stored the new value before it calls cover_cluster_on_write_attr.
OnWriteAttr(written) ==
  /\ c' = CapDeadzones(written)
  /\ nv' = {StoredConfig(c')}

-----------------------------------------------------------------------------
(* ZCL commands and attribute writes.                                      *)

Dispatch(action) == c' = DispatchAction(c, action) /\ UNCHANGED nv

CoverOpen == Dispatch(MaxMotorPosition)
CoverClose == Dispatch(0)
CoverStop == Dispatch(ActionStop)

\* Ignored in manual mode; an argument above 100 % is answered with an error.
GoToLift(lift) ==
  /\ ~IsManualMode(c)
  /\ lift <= MaxPct
  /\ Dispatch(CoverToMotorPosition(c, lift))

WriteMotorReversal(r) ==
  OnWriteAttr(DispatchAction([c EXCEPT !.motor_reversal = r], ActionStop))
WriteOpenTime(t) == OnWriteAttr([c EXCEPT !.open_time = t])
WriteCloseTime(t) == OnWriteAttr([c EXCEPT !.close_time = t])
WriteOpenDeadzone(d) == OnWriteAttr([c EXCEPT !.open_deadzone = d])
WriteClosedDeadzone(d) == OnWriteAttr([c EXCEPT !.closed_deadzone = d])

Command == CoverOpen \/ CoverClose \/ CoverStop \/ \E lift \in Lifts : GoToLift(lift)

Calibrate ==
  \/ \E t \in OpenTimes : WriteOpenTime(t)
  \/ \E t \in CloseTimes : WriteCloseTime(t)
  \/ \E d \in Deadzones : WriteOpenDeadzone(d) \/ WriteClosedDeadzone(d)

ReverseMotor == \E r \in BOOLEAN : WriteMotorReversal(r)

-----------------------------------------------------------------------------
(* Tasks, time and power loss.                                             *)

StopTask == c.stop_task = 0 /\ c' = AutoStopHandler(c) /\ UNCHANGED nv
UpdateTask == c.update_task = 0 /\ c' = UpdateHandler(c) /\ UNCHANGED nv
DelayTask == c.delay_task = 0 /\ c' = DelayHandler(c) /\ UNCHANGED nv

Relays(k) == <<k.open_relay, k.close_relay>>

NoTaskDue == 0 \notin {c.stop_task, c.update_task, c.delay_task}

CountDown(t) == IF t = Off THEN Off ELSE t - 1
CountUp(t, bound) == IF t >= bound THEN bound ELSE t + 1

Elapse(k) == [k EXCEPT !.stop_task = CountDown(@), !.update_task = CountDown(@),
                       !.delay_task = CountDown(@),
                       !.since_switch = CountUp(@, RelayMinSwitch),
                       !.elapsed = CountUp(@, MaxTravel)]

\* A due task runs before the next tick; within a tick callbacks run in any order.
Tick == NoTaskDue /\ c' = Elapse(c) /\ UNCHANGED nv

\* A power cycle: relay_init de-energizes the relays, the cluster starts from
\* the stored configuration.
Reboot == c' = ClusterInit(LoadedConfig) /\ UNCHANGED nv

\* A device never configured, or one configured at rest in mid-position.
Configured(t, u, r) ==
  [DefaultConfig EXCEPT !.open_time = t, !.close_time = u, !.motor_reversal = r]

Init ==
  /\ \/ nv = {}
     \/ \E t \in OpenTimes, u \in CloseTimes, r \in BOOLEAN : nv = {Configured(t, u, r)}
  /\ c = ClusterInit(LoadedConfig)

Tasks == StopTask \/ UpdateTask \/ DelayTask

Next == Command \/ Calibrate \/ ReverseMotor \/ Tasks \/ Tick \/ Reboot

\* The event loop keeps running tasks and time keeps passing; nothing is
\* assumed of the user.
Fairness ==
  /\ WF_vars(StopTask) /\ WF_vars(UpdateTask) /\ WF_vars(DelayTask)
  /\ WF_vars(Tick)

Spec == Init /\ [][Next]_vars
FairSpec == Spec /\ Fairness

-----------------------------------------------------------------------------
(* Properties.                                                             *)

Timer(bound) == Off .. bound

ClusterState ==
  [moving: {Stopped, Opening, Closing}, motor_reversal: BOOLEAN,
   open_time: 0 .. MaxTravel, close_time: 0 .. MaxTravel,
   open_deadzone: 0 .. MaxDeadzone, closed_deadzone: 0 .. MaxDeadzone,
   position: 0 .. MaxPct, motor_position: MotorPosition,
   start_motor_position: MotorPosition, target_motor_position: MotorPosition,
   pending_action: Action, since_switch: 0 .. RelayMinSwitch,
   elapsed: 0 .. MaxTravel, delay_task: Timer(RelayMinSwitch),
   stop_task: {Off} \cup Nat, update_task: {Off} \cup Nat,
   open_relay: BOOLEAN, close_relay: BOOLEAN,
   reported: [moving: {Stopped, Opening, Closing}, position: 0 .. MaxPct]]

\* Every attribute, relay and task keeps a value the firmware can represent:
\* in particular no deadzone, clock or overlong move takes a position out of range.
TypeOK == c \in ClusterState /\ nv \in SUBSET Config

\* The two relays of a motor are never energized together, and one of them is
\* energized exactly while the cluster believes that it is moving.
RelaysMatchMoving ==
  /\ ~(c.open_relay /\ c.close_relay)
  /\ (c.open_relay \/ c.close_relay) <=> (c.moving # Stopped)

\* A moving motor always has its automatic stop scheduled, whatever the order
\* of commands, tasks and configuration writes; a stopped one has neither a
\* stop nor a position update left over to disturb the next move.
MotorSupervised ==
  /\ c.moving # Stopped <=> c.stop_task # Off
  /\ c.update_task # Off => c.moving # Stopped

\* A deferred action always has its task, and the task is not deferred past
\* the instant the relays may switch again.
PendingTimed ==
  /\ c.pending_action # ActionNone <=> c.delay_task # Off
  /\ c.delay_task # Off => c.delay_task + c.since_switch <= RelayMinSwitch

\* What the coordinator was last told is what the attributes say: no path of
\* the handlers changes an attribute without the notification.
ReportsInSync ==
  c.reported = [moving |-> c.moving, position |-> c.position]

\* The target lies behind the motor, though still ahead of the position that
\* the last update left for cover_dispatch_action to compare it with.
Overtaken(k, target) ==
  \/ /\ k.moving = Opening
     /\ k.motor_position < target /\ target <= EstimatedPosition(k)
  \/ /\ k.moving = Closing
     /\ EstimatedPosition(k) < target /\ target <= k.motor_position

Swapped == \/ c.open_relay /\ c'.close_relay
           \/ c.close_relay /\ c'.open_relay

\* The one case in which a callback reverses the motor without the pause of
\* cover_dispatch_action: the position is refreshed in cover_execute_action only,
\* and the motor turns out to have overtaken its new target. The comments know of none:
\* RELAY_MIN_SWITCH_TIME_MS "prevents mechanical shock to motor/gears when reversing
\* direction" (cover_cluster.c:16-18).
SwapOnlyWhenOvertaken ==
  [][Swapped => Overtaken(c, c'.target_motor_position)]_vars

\* RELAY_MIN_SWITCH_TIME_MS: relays change at least RelayMinSwitch ticks after
\* they last did, but for an automatic stop, the swap above and a power cycle.
SwitchesSpaced ==
  [][Relays(c) # Relays(c') =>
       \/ c.since_switch >= RelayMinSwitch
       \/ c' = ClusterInit(LoadedConfig)
       \/ c.stop_task = 0 /\ c'.stop_task = Off
       \/ Swapped]_vars
=============================================================================
