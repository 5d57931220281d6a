-------------------------- MODULE FastPollWindow --------------------------
(***************************************************************************)
(* What the poll control cluster promises: a fast-poll window opens for a  *)
(* chosen time and is closed on request or, by the device itself, when     *)
(* that time is over: not later, and not sooner.                           *)
(***************************************************************************)
EXTENDS Integers

CONSTANTS Windows   \* the durations a window may be opened for, in ticks

VARIABLES
  fast,    \* the window is open
  left,    \* ticks of it that are left
  idle     \* the device has looked at its clock and has nothing to do until the next tick

window == <<fast, left, idle>>

Open == fast' = TRUE /\ left' \in Windows /\ idle' = FALSE

Close == fast' = FALSE /\ left' = 0 /\ idle' = FALSE

OtherEvent == idle' = FALSE /\ UNCHANGED <<fast, left>>

\* The device closes the window exactly when it is over.
Look == fast' = (fast /\ left > 0) /\ idle' = TRUE /\ UNCHANGED left

Wait ==
  /\ idle /\ (fast => left > 0)
  /\ left' = IF left = 0 THEN 0 ELSE left - 1
  /\ idle' = FALSE /\ UNCHANGED fast

WindowInit == fast = TRUE /\ left \in Windows /\ idle = FALSE

WindowSpec ==
  WindowInit /\ [][Open \/ Close \/ OtherEvent \/ Look \/ Wait]_window
=============================================================================
