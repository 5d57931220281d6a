----------------------------- MODULE CoverPlant -----------------------------
(***************************************************************************)
(* The cover cluster wired to its motor and shade.                         *)
(*                                                                         *)
(* The shade is the environment: it travels at constant speed while a      *)
(* relay is energized and stops at its ends.  The other variables only     *)
(* observe the cluster: how long one relay has been energized, what was    *)
(* asked of the cover last, and whether something happened that dead       *)
(* reckoning cannot account for.                                           *)
(***************************************************************************)
EXTENDS CoverCluster

CONSTANTS
  LiftTicks,      \* real time of a full travel, in each direction
  LowerTicks,
  WiredReversed   \* TRUE when the installer swapped the motor wires

ASSUME PlantAssumption ==
  /\ LiftTicks \in Nat \ {0} /\ LowerTicks \in Nat \ {0}
  /\ WiredReversed \in BOOLEAN

VARIABLES
  shade,       \* where the shade really is, in motor positions
  run_time,    \* ticks the energized relay has been on without a break
  asked,       \* the position last asked for, ActionNone after a stop
  missed,      \* the last command was ignored, or an older one may still overrule it
  disturbed,   \* during this move the relays were swapped or wrongly wired
  astray       \* the tracked position is not accountable to the real one

pvars == <<c, nv, shade, run_time, asked, missed, disturbed, astray>>

-----------------------------------------------------------------------------

Lifting(k) == IF WiredReversed THEN k.close_relay ELSE k.open_relay
Lowering(k) == IF WiredReversed THEN k.open_relay ELSE k.close_relay

Lifted(s) == LET t == s + MaxMotorPosition \div LiftTicks
             IN  IF t > MaxMotorPosition THEN MaxMotorPosition ELSE t
Lowered(s) == LET t == s - MaxMotorPosition \div LowerTicks
              IN  IF t < 0 THEN 0 ELSE t

MoveShade ==
  shade' = IF Lifting(c) THEN Lifted(shade)
           ELSE IF Lowering(c) THEN Lowered(shade) ELSE shade

\* The longest a relay may stay energized: a full travel and its overrun, and
\* the update interval in which a repeated command still restarts the overrun.
MaxTimedRun == MaxTravel + Overrun
  + IF MaxTravel \div UpdateShare < MinUpdate THEN MinUpdate
    ELSE MaxTravel \div UpdateShare
MaxRun == IF ManualTimeout > MaxTimedRun THEN ManualTimeout ELSE MaxTimedRun

FullTravel(dir) == IF dir = Opening THEN LiftTicks ELSE LowerTicks

\* An undisturbed move to an end lasted long enough to reach it from anywhere.
Realigned ==
  /\ StopTask /\ IsEndPosition(c.target_motor_position)
  /\ ~disturbed /\ run_time >= FullTravel(c.moving)

WrongReversal(k) == k.motor_reversal # WiredReversed

\* Where the cluster would say the cover is, were it to look now.
TrackedPosition(k) ==
  IF k.moving = Stopped THEN k.motor_position ELSE EstimatedPosition(k)

Observe ==
  /\ disturbed' = (WrongReversal(c') \/ (c'.moving # Stopped /\ (disturbed \/ Swapped)))
  /\ astray' = (WrongReversal(c') \/ (~Realigned /\ (astray \/ disturbed')))
  /\ run_time' = IF Relays(c') = Relays(c) THEN run_time ELSE 0

\* A command is missed when it meets the early return of cover_execute_action,
\* or when it leaves behind an older deferred action that was due already.
Ask(action) ==
  /\ asked' = action
  /\ missed' = \/ c.moving # Stopped /\ c'.moving = c.moving /\ c.motor_position = action
               \/ c'.pending_action \notin {action, ActionNone}

PlantCommand ==
  \/ CoverOpen /\ Ask(MaxMotorPosition)
  \/ CoverClose /\ Ask(0)
  \/ CoverStop /\ Ask(ActionNone)
  \/ \E lift \in Lifts : GoToLift(lift) /\ Ask(CoverToMotorPosition(c, lift))

PlantCallback ==
  /\ \/ PlantCommand
     \/ ReverseMotor /\ Ask(ActionNone)
     \/ (Calibrate \/ Tasks) /\ UNCHANGED <<asked, missed>>
  /\ Observe
  /\ UNCHANGED shade

PlantTick ==
  /\ Tick
  /\ MoveShade
  /\ run_time' = IF c.moving = Stopped THEN 0 ELSE CountUp(run_time, MaxRun + 1)
  /\ UNCHANGED <<asked, missed, disturbed, astray>>

\* A power cycle restarts from the position stored by the last attribute write.
PlantReboot ==
  /\ Reboot
  /\ asked' = ActionNone /\ missed' = FALSE /\ run_time' = 0
  /\ disturbed' = WrongReversal(c')
  /\ astray' = (disturbed' \/ c'.motor_position # shade)
  /\ UNCHANGED shade

Calibrated(k) ==
  /\ TravelTime(k, Opening) = LiftTicks /\ TravelTime(k, Closing) = LowerTicks
  /\ ~WrongReversal(k)

PlantInit ==
  /\ Init /\ Calibrated(c)
  /\ shade = c.motor_position /\ run_time = 0 /\ asked = ActionNone
  /\ missed = FALSE /\ disturbed = FALSE /\ astray = FALSE

PlantNext == PlantCallback \/ PlantTick \/ PlantReboot

PlantSpec == PlantInit /\ [][PlantNext]_pvars

-----------------------------------------------------------------------------
(* Properties.                                                             *)

\* Dead reckoning is exact: over any sequence of moves, stops, new targets and
\* deferred reversals at a calibrated speed, the tracked position is where the
\* shade is; and a move to an end regains this after it was lost to a power
\* cycle (the purpose of OVERRUN_DURATION_MS).
TrackingExact == ~astray => shade = TrackedPosition(c)

\* No relay stays energized longer than the manual-mode timeout or MaxTimedRun,
\* however often and whenever the user re-targets the cover.
RunTimeBounded == ~disturbed => run_time <= MaxRun

AtRest == c.moving = Stopped /\ c.pending_action = ActionNone

\* Once the cover is at rest it is where the last command asked, through any
\* deferrals and re-targetings, but for the two ways to miss a command: see Ask. (A test
\* says "last command wins" without exception, tests/test_cover_cluster.py:371.)
AcceptedCommandWins == (AtRest /\ asked # ActionNone /\ ~missed) => c.motor_position = asked
=============================================================================
