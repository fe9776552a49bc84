--------------------------- MODULE AbstractBlink ----------------------------
(***************************************************************************)
(* What main.c promises of its demonstration: task_consumer "wakes exactly *)
(* once per blink", in the order "led-signals -> consumer-increments ->    *)
(* led-resumes".  One blink, one signal and one increment make a round.    *)
(***************************************************************************)
EXTENDS Naturals

CONSTANT CountRange   \* the counters wrap here

VARIABLES
  phase,      \* what the round has come to
  led,        \* is the LED on?
  signalled,  \* number of signals
  consumed    \* number of increments of the consumer

Init ==
  /\ phase = "dark"
  /\ led = FALSE
  /\ signalled = 0
  /\ consumed = 0

SwitchOn ==
  /\ phase = "dark" /\ phase' = "lit"
  /\ led' = TRUE
  /\ UNCHANGED <<signalled, consumed>>

SwitchOff ==
  /\ phase = "lit" /\ phase' = "blinked"
  /\ led' = FALSE
  /\ UNCHANGED <<signalled, consumed>>

CountSignal ==
  /\ phase = "blinked" /\ phase' = "signalled"
  /\ signalled' = (signalled + 1) % CountRange
  /\ UNCHANGED <<led, consumed>>

CountConsume ==
  /\ phase = "signalled" /\ phase' = "dark"
  /\ consumed' = (consumed + 1) % CountRange
  /\ UNCHANGED <<led, signalled>>

Next == SwitchOn \/ SwitchOff \/ CountSignal \/ CountConsume

Spec == Init /\ [][Next]_<<phase, led, signalled, consumed>>
=============================================================================
