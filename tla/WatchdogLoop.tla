---------------------------- MODULE WatchdogLoop ----------------------------
(***************************************************************************)
(* loop() in main.cpp and the watchdog: the firmware reads and handles     *)
(* input as long as there is any, and calls update(), which holds the      *)
(* watchdog, only when there is none.                                      *)
(*                                                                         *)
(* The host is one of: "alive", it sends heartbeats and commands;          *)
(* "heartbeat lost", its heartbeat thread is gone while the application    *)
(* goes on sending commands; "gone", it sends nothing.  It only gets       *)
(* worse.  A frame is a member of the receive buffer; its bytes are taken  *)
(* together.  A millisecond passes at any time, but the clock does not     *)
(* overtake the processor: between two ticks loop() gets StepsPerMs steps. *)
(***************************************************************************)
EXTENDS SafetyState, Sequences

CONSTANTS
  RxFrames,     \* frames the receive buffer holds
  StepsPerMs    \* steps of loop() in a millisecond

ASSUME LoopAssumption ==
  /\ RxFrames \in Nat \ {0}
  /\ StepsPerMs \in Nat \ {0}
  /\ WatchdogTimeout + 1 < ClockMod

VARIABLES
  rx,      \* frames received and not yet read
  host,
  budget,  \* steps of loop() left before the clock may tick
  age      \* history: milliseconds since the host was last heard

vars == <<millis, safetyVars, rx, host, budget, age>>

Commands == {"Heartbeat", "ClearEmergencyStop", "EmergencyStop", "Other"}

Init ==
  /\ SafetyInit
  /\ rx = <<>>
  /\ host = "alive"
  /\ budget = StepsPerMs
  /\ age = 0

-----------------------------------------------------------------------------
(* The commands a host in this condition sends. *)
Sends(h) == CASE h = "alive" -> Commands
              [] h = "heartbeat lost" -> Commands \ {"Heartbeat", "ClearEmergencyStop"}
              [] h = "gone" -> {}

Arrive(c) ==
  /\ c \in Sends(host)
  /\ Len(rx) < RxFrames
  /\ rx' = Append(rx, c)
  /\ UNCHANGED <<millis, safetyVars, host, budget, age>>

HeartbeatThreadDies ==
  /\ host = "alive"
  /\ host' = "heartbeat lost"
  /\ UNCHANGED <<millis, safetyVars, rx, budget, age>>

HostDies ==
  /\ host # "gone"
  /\ host' = "gone"
  /\ UNCHANGED <<millis, safetyVars, rx, budget, age>>

-----------------------------------------------------------------------------
Step == budget' = IF budget > 0 THEN budget - 1 ELSE 0

(* The body of the while loop in loop(). *)
Handle ==
  /\ rx # <<>>
  /\ rx' = Tail(rx)
  /\ CASE Head(rx) = "Heartbeat" -> heartbeat /\ age' = 0
       [] Head(rx) = "ClearEmergencyStop" -> clear_emergency_stop /\ age' = 0
       [] Head(rx) = "EmergencyStop" -> emergency_stop /\ UNCHANGED age
       [] Head(rx) = "Other" -> UNCHANGED <<safetyVars, age>>
  /\ Step
  /\ UNCHANGED <<millis, host>>

(* Mutant: a loop() that read nothing does not call update(). *)
Update_not_idle ==
  /\ rx = <<>>
  /\ Step
  /\ UNCHANGED <<millis, safetyVars, rx, host, age>>

(* Serial.available() is 0: the while loop ends, update() runs. *)
Update ==
  /\ rx = <<>>
  /\ update
  /\ Step
  /\ UNCHANGED <<millis, rx, host, age>>

Loop == Handle \/ Update

Tick ==
  /\ budget = 0
  /\ budget' = StepsPerMs
  /\ millis' = NextMillis
  /\ age' = IF age < ClockMod THEN age + 1 ELSE age
  /\ UNCHANGED <<safetyVars, rx, host>>

Next ==
  \/ \E c \in Commands : Arrive(c)
  \/ HeartbeatThreadDies
  \/ HostDies
  \/ Loop
  \/ Tick

(* The processor runs loop() for ever and time passes. *)
Fairness == WF_vars(Loop) /\ WF_vars(Tick)

Spec == Init /\ [][Next]_vars /\ Fairness

-----------------------------------------------------------------------------
(* A host that is gone is noticed: the outputs are stopped, whatever was in
   the receive buffer and wherever on its turn the clock was. *)
SilentHostStops == (host = "gone") ~> []~outputs_allowed

(* docs/SAFETY_AND_CONFIG.md: "If heartbeats stop for the watchdog interval,
   firmware enters the safe state": a second interval later it surely has,
   loop() having run in every millisecond of both. *)
StoppedBySecondInterval == age > 2 * WatchdogTimeout => ~outputs_allowed

=============================================================================
