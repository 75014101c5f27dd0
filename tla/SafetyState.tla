---------------------------- MODULE SafetyState ----------------------------
(***************************************************************************)
(* The firmware's safety latch (safety/SafetyState.h): the emergency-stop  *)
(* flag, the watchdog flag and the time of the last heartbeat, on the      *)
(* 32-bit millisecond clock that wraps.                                    *)
(*                                                                         *)
(* The operators below are the methods of class SafetyState.  They constrain *)
(* the three members and nothing else, so a handler conjoins them with     *)
(* whatever else it does.                                                  *)
(***************************************************************************)
EXTENDS Integers

CONSTANTS
  ClockMod,         \* values of millis(): 2^32 on the board
  WatchdogTimeout   \* kDefaultWatchdogTimeoutMs

ASSUME ClockAssumption ==
  /\ ClockMod \in Nat
  /\ WatchdogTimeout \in Nat
  /\ WatchdogTimeout < ClockMod

VARIABLES
  millis,              \* what millis() returns
  last_heartbeat_ms_,
  emergency_stop_,
  watchdog_expired_

safetyVars == <<last_heartbeat_ms_, emergency_stop_, watchdog_expired_>>

Millis == 0 .. ClockMod - 1

(* Mutant: the clock does not wrap. *)
NextMillis_unwrapped == millis + 1

(* One millisecond later on the wrapping clock. *)
NextMillis == IF millis + 1 = ClockMod THEN 0 ELSE millis + 1

(* a - b on uint32_t. *)
Elapsed(a, b) == IF a >= b THEN a - b ELSE a - b + ClockMod

SafetyInit ==
  /\ millis = 0
  /\ last_heartbeat_ms_ = 0
  /\ emergency_stop_ = FALSE
  /\ watchdog_expired_ = FALSE

SafetyTypeOK ==
  /\ millis \in Millis
  /\ last_heartbeat_ms_ \in Millis
  /\ emergency_stop_ \in BOOLEAN
  /\ watchdog_expired_ \in BOOLEAN

outputs_allowed == ~emergency_stop_ /\ ~watchdog_expired_

heartbeat ==
  /\ last_heartbeat_ms_' = millis
  /\ watchdog_expired_' = FALSE
  /\ UNCHANGED emergency_stop_

emergency_stop ==
  /\ emergency_stop_' = TRUE
  /\ UNCHANGED <<last_heartbeat_ms_, watchdog_expired_>>

clear_emergency_stop ==
  /\ emergency_stop_' = FALSE
  /\ watchdog_expired_' = FALSE
  /\ last_heartbeat_ms_' = millis

(* The condition update() tests; from then on both flags are set. *)
WatchdogElapsed == Elapsed(millis, last_heartbeat_ms_) > WatchdogTimeout

update ==
  /\ watchdog_expired_' = (watchdog_expired_ \/ WatchdogElapsed)
  /\ emergency_stop_' = (emergency_stop_ \/ WatchdogElapsed)
  /\ UNCHANGED last_heartbeat_ms_

=============================================================================
