------------------------------ MODULE PinDrive ------------------------------
(***************************************************************************)
(* The board's pins and what the command handler records about them:       *)
(* pwm_configured_ (CommandHandler.h) and, for every pin, the state of the *)
(* Teensy core that pinMode, digitalWrite and analogWrite change.          *)
(*                                                                         *)
(* The core is external.  A pin is multiplexed either to the GPIO block,   *)
(* where it is driven by its data latch when its direction is output, or   *)
(* to a PWM timer, where it is driven by the duty whatever its direction.  *)
(* pinMode selects GPIO, analogWrite selects the timer, digitalWrite only  *)
(* sets the latch.                                                         *)
(***************************************************************************)
EXTENDS Integers

CONSTANTS
  Pins,      \* is_valid_digital_pin
  PwmPins,   \* is_valid_pwm_pin
  PinArgs,   \* the pin numbers commands carry, valid or not
  Duties     \* the duties commands carry

ASSUME PinAssumption ==
  /\ PwmPins \subseteq Pins
  /\ Pins \subseteq PinArgs
  /\ Duties \subseteq Nat
  /\ 0 \in Duties

VARIABLES
  pin,               \* the pin hardware
  pwm_configured_

PinState == [mux : {"gpio", "pwm"}, dir : {"in", "out"},
             latch : BOOLEAN, duty : Duties]

PinTypeOK ==
  /\ pin \in [Pins -> PinState]
  /\ pwm_configured_ \in [Pins -> BOOLEAN]

PinInit ==
  /\ pin = [p \in Pins |->
              [mux |-> "gpio", dir |-> "in", latch |-> FALSE, duty |-> 0]]
  /\ pwm_configured_ = [p \in Pins |-> FALSE]

(* The pin drives its load. *)
Energized(p) ==
  \/ pin[p].mux = "pwm" /\ pin[p].duty > 0
  \/ pin[p].mux = "gpio" /\ pin[p].dir = "out" /\ pin[p].latch

(* The state of a pin after a call of the Teensy core. *)
PinMode(s, d) == [s EXCEPT !.mux = "gpio", !.dir = d]

DigitalWriteTo(s, v) == [s EXCEPT !.latch = v]

AnalogWriteTo(s, d) == [s EXCEPT !.mux = "pwm", !.duty = d]

(* Mutant: the loop skips a pin that another command put back to GPIO. *)
apply_safe_outputs_skips_gpio ==
  pin' = [p \in Pins |-> IF pwm_configured_[p] /\ pin[p].mux = "pwm"
                         THEN AnalogWriteTo(pin[p], 0) ELSE pin[p]]

apply_safe_outputs ==
  pin' = [p \in Pins |-> IF pwm_configured_[p]
                         THEN AnalogWriteTo(pin[p], 0) ELSE pin[p]]

=============================================================================
