------------------------------- MODULE Button -------------------------------
(***************************************************************************)
(* A push button or rocker on a GPIO pin (src/base_components/button.c):   *)
(* debouncing, presses, releases and long presses.                         *)
(*                                                                         *)
(* A change of the pin is dispatched by the GPIO interrupt within a few    *)
(* milliseconds, which is taken to be before the next tick; the pin may    *)
(* bounce back before that.  Times are kept as ages, which stop at MaxAge; *)
(* the wrap of hal_millis is left out, and so is the count of quick        *)
(* presses, which serves the factory reset.                                *)
(***************************************************************************)
EXTENDS Integers

CONSTANTS
  DebounceDelay,   \* debounce_delay_ms
  MaxAge           \* bound on the ages, and on long_press_duration_ms

ASSUME ButtonAssumption ==
  DebounceDelay \in Nat /\ MaxAge \in Nat /\ DebounceDelay <= MaxAge

Off == -1   \* a task that is not scheduled
Level == {0, 1}

VARIABLES
  pin,      \* the level of the pin
  button    \* button_t

Age == 0 .. MaxAge
ButtonState ==
  [pressed_when_high: Level, pressed: BOOLEAN, long_pressed: BOOLEAN, pressed_for: Age,
   debounce_last_state: Level, since_change: Age, update_task: {Off} \cup Age,
   long_press_duration: Age]

Older(age) == IF age < MaxAge THEN age + 1 ELSE MaxAge

-----------------------------------------------------------------------------

\* btn_init: a button that is held at start-up counts as long pressed already.
BtnInit(level, high, duration) ==
  [pressed_when_high |-> high, pressed |-> level = high, long_pressed |-> level = high,
   pressed_for |-> 0, debounce_last_state |-> level, since_change |-> 0,
   update_task |-> Off, long_press_duration |-> duration]

\* _btn_gpio_callback.
GpioCallback(b, level) ==
  IF level = b.debounce_last_state THEN b
  ELSE [b EXCEPT !.debounce_last_state = level, !.since_change = 0,
                 !.update_task = DebounceDelay]

\* btn_update_debounced: the edge, and then the long press.
Presses(b) == ~b.pressed /\ b.debounce_last_state = b.pressed_when_high
Releases(b) == b.pressed /\ b.debounce_last_state # b.pressed_when_high

\* Mutant of Edge: the release does not end the long press.
EdgeStaysLong(b) ==
  CASE Presses(b) -> [b EXCEPT !.pressed = TRUE, !.pressed_for = b.since_change]
    [] Releases(b) -> [b EXCEPT !.pressed = FALSE]
    [] OTHER -> b

Edge(b) ==
  CASE Presses(b) -> [b EXCEPT !.pressed = TRUE, !.pressed_for = b.since_change]
    [] Releases(b) -> [b EXCEPT !.pressed = FALSE, !.long_pressed = FALSE]
    [] OTHER -> b

\* Mutant of LongPresses: off by one.
LongPressesLate(b) ==
  LET e == Edge(b)
  IN  e.pressed /\ ~e.long_pressed /\ e.long_press_duration < e.pressed_for

LongPresses(b) ==
  LET e == Edge(b)
  IN  e.pressed /\ ~e.long_pressed /\ e.long_press_duration <= e.pressed_for

Debounced(b) == [Edge(b) EXCEPT !.long_pressed = @ \/ LongPresses(b)]

AwaitLongPress(b) ==
  [b EXCEPT !.update_task =
     IF b.pressed /\ ~b.long_pressed THEN b.long_press_duration - b.pressed_for ELSE Off]

\* _btn_update_callback.
Updated(b) == AwaitLongPress(Debounced(b))

-----------------------------------------------------------------------------

PinFlips == pin' = 1 - pin /\ UNCHANGED button

GpioDispatch ==
  /\ pin # button.debounce_last_state
  /\ button' = GpioCallback(button, pin)
  /\ UNCHANGED pin

UpdateTask ==
  /\ button.update_task = 0
  /\ button' = Updated(button)
  /\ UNCHANGED pin

ButtonTick ==
  /\ pin = button.debounce_last_state /\ button.update_task # 0
  /\ button' = [button EXCEPT !.pressed_for = Older(@), !.since_change = Older(@),
                              !.update_task = IF @ = Off THEN Off ELSE @ - 1]
  /\ UNCHANGED pin
=============================================================================
