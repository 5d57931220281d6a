----------------------------- MODULE CoverManual -----------------------------
(***************************************************************************)
(* The cover cluster of a device kept in manual mode: open_time and        *)
(* close_time are zero, so no position is tracked and a fixed timeout      *)
(* bounds every run.  Here the motor protection holds without exception.   *)
(***************************************************************************)
EXTENDS CoverCluster

ASSUME ManualAssumption == ManualTimeout >= RelayMinSwitch

\* No travel time is ever configured.
KeptManual == DefaultOpenTime = 0 /\ OpenTimes = {0} /\ CloseTimes = {0}

Drive == IF c.open_relay THEN "open" ELSE IF c.close_relay THEN "close" ELSE "off"

RunLeft == IF c.stop_task = Off THEN 0 ELSE c.stop_task

Protection == INSTANCE MotorProtection
  WITH MinSwitch <- RelayMinSwitch, MaxRun <- ManualTimeout,
       drive <- Drive, rest <- c.since_switch, left <- RunLeft

\* cover_dispatch_action implements the protection it documents
\* (cover_cluster.c:318-324), through every deferral, toggle and motor_reversal write.
ProtectsMotor == Protection!ProtectionSpec

UserStep == Command \/ Calibrate \/ ReverseMotor \/ Reboot

\* Left alone, the cover comes to rest: no deferred action re-defers itself forever.
ComesToRest ==
  ([]<><<UserStep>>_vars) \/ <>[](c.moving = Stopped /\ c.pending_action = ActionNone)
=============================================================================
