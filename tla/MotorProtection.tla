-------------------------- MODULE MotorProtection --------------------------
(***************************************************************************)
(* What cover_dispatch_action promises of a motor: it is energized in at   *)
(* most one direction, its relays rest for MinSwitch ticks between any two *)
(* changes, so that a reversal passes through a pause of that length, and  *)
(* no run lasts longer than MaxRun.  Only losing power is exempt.          *)
(***************************************************************************)
EXTENDS Integers

CONSTANTS MinSwitch, MaxRun

VARIABLES
  drive,   \* "off", or the relay that is energized
  rest,    \* ticks since the relays changed, counted up to MinSwitch
  left     \* ticks an energized motor may still run

protection == <<drive, rest, left>>

MayStart == drive = "off" /\ rest >= MinSwitch
MayStop == drive # "off" /\ rest >= MinSwitch

Start ==
  /\ MayStart
  /\ drive' \in {"open", "close"} /\ rest' = 0 /\ left' = MaxRun

Stop == MayStop /\ drive' = "off" /\ rest' = 0 /\ left' = 0

\* A tick passes only while the motor may run for it.
Wait ==
  /\ drive # "off" => left > 0
  /\ rest' = IF rest >= MinSwitch THEN MinSwitch ELSE rest + 1
  /\ left' = IF drive = "off" THEN 0 ELSE left - 1
  /\ UNCHANGED drive

LosePower == drive' = "off" /\ rest' = 0 /\ left' = 0

ProtectionInit == drive = "off" /\ rest = 0 /\ left = 0

ProtectionSpec ==
  ProtectionInit /\ [][Start \/ Stop \/ Wait \/ LosePower]_protection
=============================================================================
