---------------------------- MODULE ButtonEvents ----------------------------
(***************************************************************************)
(* What the clusters rely on of a button (src/base_components/button.c):   *)
(* on_press, on_long_press and on_release are called in this order, and a  *)
(* button that is held at start-up is not reported as pressed, but its     *)
(* release is.  Button implements this with a pin that bounces.            *)
(***************************************************************************)
VARIABLE b   \* the fields pressed and long_pressed of button_t

ButtonLevels == [pressed: BOOLEAN, long_pressed: BOOLEAN]

Press == ~b.pressed /\ b' = [pressed |-> TRUE, long_pressed |-> FALSE]

\* The first call of the task comes after the duration of a long press.
PressLong == ~b.pressed /\ b' = [pressed |-> TRUE, long_pressed |-> TRUE]

LongPress ==
  /\ b.pressed /\ ~b.long_pressed
  /\ b' = [b EXCEPT !.long_pressed = TRUE]

Release == b.pressed /\ b' = [pressed |-> FALSE, long_pressed |-> FALSE]

Started == b \in {[pressed |-> held, long_pressed |-> held] : held \in BOOLEAN}
Start == b' \in {[pressed |-> held, long_pressed |-> held] : held \in BOOLEAN}

EventsSpec == Started /\ [][Press \/ PressLong \/ LongPress \/ Release \/ Start]_b
=============================================================================
