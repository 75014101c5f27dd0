---------------------------- MODULE OutputSafety ----------------------------
(***************************************************************************)
(* The output side of the firmware's CommandHandler: every command that    *)
(* can change what the board drives, the emergency stop and the watchdog   *)
(* that must silence it, and loop() calling update() in between.           *)
(*                                                                         *)
(* It composes SafetyState, PinDrive and I2cDac.  One action is one call   *)
(* of CommandHandler::handle with a command, or one call of update(); the  *)
(* firmware is single threaded and its interrupt handlers touch none of    *)
(* this state, so each is atomic.                                          *)
(*                                                                         *)
(* Three variables are history: age is the time since the host was last    *)
(* heard (heartbeat or clear), on a clock that does not wrap, lag the time *)
(* since the last update(), and latched whether there was an emergency stop *)
(* or a watchdog stop since the last clear.  A tick that would let lag pass MaxLag    *)
(* waits: loop() comes round at least every MaxLag milliseconds as long as *)
(* it is not kept busy by input, the case WatchdogLoop looks into.         *)
(***************************************************************************)
EXTENDS SafetyState, PinDrive, I2cDac

CONSTANT MaxLag

ASSUME LagAssumption ==
  /\ MaxLag \in Nat
  /\ WatchdogTimeout + MaxLag + 1 < ClockMod

VARIABLES
  reply,   \* what the last step answered, "none" when it answers nothing
  age,     \* milliseconds since the last heartbeat, up to ClockMod
  lag,     \* milliseconds since the last update()
  latched  \* a stop since the last ClearEmergencyStop

clockVars == <<millis, age, lag, latched>>
pinVars == <<pin, pwm_configured_>>
dacVars == <<i2c_configured_, dacs_, out>>
vars == <<millis, safetyVars, pinVars, dacVars, reply, age, lag, latched>>

Errors == {"UnknownCommand", "InvalidPayload", "InvalidPin",
           "ResourceUnavailable", "EmergencyStopActive"}

TypeOK ==
  /\ SafetyTypeOK
  /\ PinTypeOK
  /\ DacTypeOK
  /\ reply \in {"none", "Ack", "Data"} \cup Errors
  /\ age \in 0 .. ClockMod
  /\ lag \in 0 .. MaxLag
  /\ latched \in BOOLEAN

Init ==
  /\ SafetyInit
  /\ PinInit
  /\ DacInit
  /\ reply = "none"
  /\ age = 0
  /\ lag = 0
  /\ latched = FALSE

(* nack(): the handler returns having done nothing else. *)
Nack(code) ==
  /\ reply' = code
  /\ UNCHANGED <<safetyVars, pinVars, dacVars, clockVars>>

(* A handler that got as far as acting on a pin. *)
AckPin ==
  /\ reply' = "Ack"
  /\ UNCHANGED <<safetyVars, dacVars, clockVars>>

AckDac ==
  /\ reply' = "Ack"
  /\ UNCHANGED <<safetyVars, pinVars, clockVars>>

-----------------------------------------------------------------------------
(* System commands. *)

(* Mutant: the heartbeat releases the outputs too. *)
Heartbeat_clears ==
  /\ clear_emergency_stop
  /\ age' = 0
  /\ reply' = "Ack"
  /\ UNCHANGED <<millis, lag, latched, pinVars, dacVars>>

Heartbeat ==
  /\ heartbeat
  /\ age' = 0
  /\ reply' = "Ack"
  /\ UNCHANGED <<millis, lag, latched, pinVars, dacVars>>

EmergencyStop ==
  /\ emergency_stop
  /\ apply_safe_outputs
  /\ latched' = TRUE
  /\ reply' = "Ack"
  /\ UNCHANGED <<millis, age, lag, pwm_configured_, dacVars>>

ClearEmergencyStop ==
  /\ clear_emergency_stop
  /\ latched' = FALSE
  /\ age' = 0
  /\ reply' = "Ack"
  /\ UNCHANGED <<millis, lag, pinVars, dacVars>>

(* Mutant: the DAC slots outlive the buses they are on. *)
ResetConfig_keeps_dacs ==
  /\ apply_safe_outputs
  /\ pwm_configured_' = [p \in Pins |-> FALSE]
  /\ i2c_configured_' = [b \in Buses |-> FALSE]
  /\ reply' = "Ack"
  /\ UNCHANGED <<safetyVars, dacs_, out, clockVars>>

(* The slots of counters, encoders, subscriptions and outbound frames that
   ResetConfig clears too are those of Interrupts and AsyncOutbound. *)
ResetConfig ==
  /\ apply_safe_outputs
  /\ pwm_configured_' = [p \in Pins |-> FALSE]
  /\ i2c_configured_' = [b \in Buses |-> FALSE]
  /\ dacs_' = [d \in Dacs |-> NoDac]
  /\ reply' = "Ack"
  /\ UNCHANGED <<safetyVars, out, clockVars>>

-----------------------------------------------------------------------------
(* Digital commands. *)

(* Mutant: the pin is turned to output before the checks. *)
ConfigDigitalOutput_early(p, initial) ==
  IF initial /\ ~outputs_allowed
  THEN /\ p \in Pins
       /\ pin' = [pin EXCEPT ![p] = PinMode(@, "out")]
       /\ reply' = "EmergencyStopActive"
       /\ UNCHANGED <<pwm_configured_, safetyVars, dacVars, clockVars>>
  ELSE /\ p \in Pins
       /\ pin' = [pin EXCEPT ![p] = DigitalWriteTo(PinMode(@, "out"), initial)]
       /\ UNCHANGED pwm_configured_
       /\ AckPin

ConfigDigitalOutput(p, initial) ==
  \/ /\ initial /\ ~outputs_allowed
     /\ Nack("EmergencyStopActive")
  \/ /\ initial => outputs_allowed
     /\ p \notin Pins
     /\ Nack("InvalidPin")
  \/ /\ initial => outputs_allowed
     /\ p \in Pins
     /\ pin' = [pin EXCEPT ![p] = DigitalWriteTo(PinMode(@, "out"), initial)]
     /\ UNCHANGED pwm_configured_
     /\ AckPin

(* The three pulls differ in the pad's resistor alone. *)
ConfigDigitalInput(p) ==
  \/ /\ p \notin Pins
     /\ Nack("InvalidPin")
  \/ /\ p \in Pins
     /\ pin' = [pin EXCEPT ![p] = PinMode(@, "in")]
     /\ UNCHANGED pwm_configured_
     /\ AckPin

(* Mutant: the safety check is forgotten. *)
DigitalWrite_unchecked(p, value) ==
  /\ p \in Pins
  /\ pin' = [pin EXCEPT ![p] = DigitalWriteTo(@, value)]
  /\ UNCHANGED pwm_configured_
  /\ AckPin

DigitalWrite(p, value) ==
  \/ /\ ~outputs_allowed
     /\ Nack("EmergencyStopActive")
  \/ /\ outputs_allowed
     /\ p \notin Pins
     /\ Nack("InvalidPin")
  \/ /\ outputs_allowed
     /\ p \in Pins
     /\ pin' = [pin EXCEPT ![p] = DigitalWriteTo(@, value)]
     /\ UNCHANGED pwm_configured_
     /\ AckPin

-----------------------------------------------------------------------------
(* PWM commands. *)

ConfigPwm(p, duty) ==
  \/ /\ duty > 0 /\ ~outputs_allowed
     /\ Nack("EmergencyStopActive")
  \/ /\ duty > 0 => outputs_allowed
     /\ p \notin PwmPins
     /\ Nack("InvalidPin")
  \/ /\ duty > 0 => outputs_allowed
     /\ p \in PwmPins
     /\ pin' = [pin EXCEPT ![p] = AnalogWriteTo(PinMode(@, "out"), duty)]
     /\ pwm_configured_' = [pwm_configured_ EXCEPT ![p] = TRUE]
     /\ AckPin

PwmWrite(p, duty) ==
  \/ /\ ~outputs_allowed
     /\ Nack("EmergencyStopActive")
  \/ /\ outputs_allowed
     /\ p \in PwmPins => ~pwm_configured_[p]
     /\ Nack("InvalidPin")
  \/ /\ outputs_allowed
     /\ p \in PwmPins /\ pwm_configured_[p]
     /\ pin' = [pin EXCEPT ![p] = AnalogWriteTo(@, duty)]
     /\ UNCHANGED pwm_configured_
     /\ AckPin

PwmDisable(p) ==
  \/ /\ p \notin PwmPins
     /\ Nack("InvalidPin")
  \/ /\ p \in PwmPins
     /\ pin' = [pin EXCEPT ![p] = AnalogWriteTo(@, 0)]
     /\ pwm_configured_' = [pwm_configured_ EXCEPT ![p] = FALSE]
     /\ AckPin

-----------------------------------------------------------------------------
(* configure_encoder turns both its pins to inputs, whatever they were.  The
   rest of the command is in Interrupts. *)
ConfigEncoder(a, b) ==
  \/ /\ {a, b} \subseteq Pins
     /\ pin' = [p \in Pins |-> IF p \in {a, b} THEN PinMode(pin[p], "in")
                                               ELSE pin[p]]
     /\ UNCHANGED pwm_configured_
     /\ AckPin
  \/ /\ ~({a, b} \subseteq Pins)
     /\ Nack("InvalidPin")

-----------------------------------------------------------------------------
(* I2C and DAC commands. *)

ConfigI2cBus(bus) ==
  \/ /\ bus \notin Buses
     /\ Nack("InvalidPayload")
  \/ /\ bus \in Buses
     /\ i2c_configured_' = [i2c_configured_ EXCEPT ![bus] = TRUE]
     /\ UNCHANGED <<dacs_, out>>
     /\ AckDac

BusReady(bus) == bus \in Buses /\ i2c_configured_[bus]

(* A raw transfer; the address may be a DAC's, and then the bytes are the
   channel and the value its output takes.  No safety check is made. *)
I2cWrite(bus, address, channel, value) ==
  \/ /\ ~BusReady(bus)
     /\ Nack("InvalidPayload")
  \/ /\ BusReady(bus)
     /\ Nack("ResourceUnavailable")
  \/ /\ BusReady(bus)
     /\ out' = [out EXCEPT ![<<bus, address, channel>>] = value]
     /\ UNCHANGED <<i2c_configured_, dacs_>>
     /\ AckDac

ConfigDac(id, bus, address, channels, resolution) ==
  LET valid == /\ id \in Dacs
               /\ BusReady(bus)
               /\ channels > 0
               /\ resolution > 0 /\ resolution <= WordBits
  IN \/ /\ ~valid
        /\ Nack("InvalidPayload")
     \/ /\ valid
        /\ dacs_' = [dacs_ EXCEPT ![id] =
             [active |-> TRUE, bus |-> bus, address |-> address,
              channels |-> channels, resolution_bits |-> resolution,
              last_value |-> 0]]
        /\ UNCHANGED <<i2c_configured_, out>>
        /\ AckDac

(* Mutant: the safety check is forgotten. *)
DacWriteRaw_unchecked(id, channel, value) ==
  /\ DacReachable(id, channel)
  /\ write_dac_raw(id, channel, value)
  /\ UNCHANGED i2c_configured_
  /\ AckDac

DacWriteRaw(id, channel, value) ==
  \/ /\ ~outputs_allowed
     /\ Nack("EmergencyStopActive")
  \/ /\ outputs_allowed     \* also when the device does not answer
     /\ Nack("ResourceUnavailable")
  \/ /\ outputs_allowed
     /\ DacReachable(id, channel)
     /\ write_dac_raw(id, channel, value)
     /\ UNCHANGED i2c_configured_
     /\ AckDac

DacWriteNormalized(id, channel, normalized) ==
  \/ /\ ~outputs_allowed
     /\ Nack("EmergencyStopActive")
  \/ /\ outputs_allowed
     /\ id \in Dacs => ~dacs_[id].active
     /\ Nack("InvalidPayload")
  \/ /\ outputs_allowed
     /\ id \in Dacs /\ dacs_[id].active
     /\ Nack("ResourceUnavailable")
  \/ /\ outputs_allowed
     /\ DacReachable(id, channel)
     /\ write_dac_raw(id, channel,
                      FromNormalized(normalized, dacs_[id].resolution_bits))
     /\ UNCHANGED i2c_configured_
     /\ AckDac

-----------------------------------------------------------------------------
(* handle() refuses a frame that is not a command or is empty, every handler
   one that is too short for its command, before it looks at anything else;
   an identifier no handler knows is refused too. *)
Malformed == \E code \in {"InvalidPayload", "UnknownCommand"} : Nack(code)

(* Commands that change none of this state: ping, info, reads, I2cRead, the
   analog, counter, encoder and subscription commands. *)
OtherCommand ==
  /\ reply' \in {"Ack", "Data"} \cup Errors
  /\ UNCHANGED <<safetyVars, pinVars, dacVars, clockVars>>

(* Mutant: the watchdog sets the flags and leaves the outputs. *)
Update_flags_only ==
  /\ update
  /\ latched' = (latched \/ WatchdogElapsed)
  /\ lag' = 0
  /\ reply' = "none"
  /\ UNCHANGED <<millis, age, pinVars, dacVars>>

Update ==
  /\ update
  /\ IF outputs_allowed /\ ~outputs_allowed'
       THEN apply_safe_outputs
       ELSE UNCHANGED pin
  /\ latched' = (latched \/ WatchdogElapsed)
  /\ lag' = 0
  /\ reply' = "none"
  /\ UNCHANGED <<millis, age, pwm_configured_, dacVars>>

(* One millisecond passes while the handler is idle. *)
Tick ==
  /\ lag < MaxLag
  /\ millis' = NextMillis
  /\ lag' = lag + 1
  /\ age' = IF age < ClockMod THEN age + 1 ELSE age
  /\ reply' = "none"
  /\ UNCHANGED <<latched, safetyVars, pinVars, dacVars>>

AnyI2cWrite ==
  \E b \in BusArgs, a \in Addresses, c \in Channels, v \in Words :
    I2cWrite(b, a, c, v)

PinCommand ==
  \E p \in PinArgs :
    \/ \E v \in BOOLEAN : ConfigDigitalOutput(p, v)
    \/ ConfigDigitalInput(p)
    \/ \E v \in BOOLEAN : DigitalWrite(p, v)
    \/ \E d \in Duties : ConfigPwm(p, d)
    \/ \E d \in Duties : PwmWrite(p, d)
    \/ PwmDisable(p)
    \/ \E q \in PinArgs : ConfigEncoder(p, q)

DacCommand ==
  \/ \E b \in BusArgs : ConfigI2cBus(b)
  \/ AnyI2cWrite
  \/ \E d \in DacArgs, b \in BusArgs, a \in Addresses,
        c \in 0 .. MaxChannels, r \in 0 .. WordBits + 1 : ConfigDac(d, b, a, c, r)
  \/ \E d \in DacArgs, c \in 0 .. MaxChannels, v \in Words : DacWriteRaw(d, c, v)
  \/ \E d \in DacArgs, c \in 0 .. MaxChannels, v \in Words :
        DacWriteNormalized(d, c, v)

SystemCommand ==
  \/ Heartbeat
  \/ EmergencyStop
  \/ ClearEmergencyStop
  \/ ResetConfig
  \/ Malformed
  \/ OtherCommand

Next == SystemCommand \/ PinCommand \/ DacCommand \/ Update \/ Tick

Spec == Init /\ [][Next]_vars

-----------------------------------------------------------------------------
(* apply_safe_outputs: while the outputs are stopped, by command or by the
   watchdog, no pin the handler has recorded as PWM drives its load, whatever
   sequence of configurations led there. *)
StoppedPwmPinsOff ==
  ~outputs_allowed => \A p \in Pins : pwm_configured_[p] => ~Energized(p)

(* The guards of ConfigDigitalOutput, DigitalWrite, ConfigPwm and PwmWrite:
   nothing that happens while the outputs are stopped, nor the step that
   releases them, starts to drive a pin. *)
NoEnergizeWhileStopped ==
  [][~outputs_allowed =>
       \A p \in Pins : Energized(p)' => Energized(p)]_vars

(* docs/SAFETY_AND_CONFIG.md: "The stop remains latched until
   clear_emergency_stop() is called": the outputs are stopped from a stop, by
   command or by the watchdog, to the next clear and at no other time; a
   heartbeat after a watchdog stop, which resets watchdog_expired_, does not
   bring them back. *)
StopIsLatched == latched <=> ~outputs_allowed

(* The watchdog on the wrapping clock: a PWM pin drives its load only while
   the host was heard within the timeout, give or take one round of loop(). *)
DrivenPinIsFresh ==
  \A p \in Pins : pwm_configured_[p] /\ Energized(p)
                    => age <= WatchdogTimeout + lag

(* nack() comes before any effect: a refused command leaves pins, slots and
   flags as they were. *)
RefusedChangesNothing ==
  [][reply' \in Errors => UNCHANGED <<safetyVars, pinVars, dacVars>>]_vars

ActiveDacHasBus ==
  \A d \in Dacs : dacs_[d].active => i2c_configured_[dacs_[d].bus]

DacInRange ==
  \A d \in Dacs : dacs_[d].active =>
                    dacs_[d].last_value <= MaxValue(dacs_[d].resolution_bits)

(* A DAC slot in use is on a configured bus: ResetConfig may not leave one
   behind, or a later ConfigI2cBus would bring its writes back to life.  And
   the value recorded for it fits its resolution, behind the truncating cast of
   DacWriteNormalized too: write_dac_raw clamps it. *)
DacSlotsSound == ActiveDacHasBus /\ DacInRange

(* The guards of DacWriteRaw and DacWriteNormalized: while the outputs are
   stopped no DAC output moves, raw I2C transfers apart. *)
DacHeldWhileStopped ==
  [][(~outputs_allowed /\ out' # out) => AnyI2cWrite]_vars

(* docs/SAFETY_AND_CONFIG.md: an active stop "rejects output commands that
   could energize hardware".  Raw I2C transfers to a DAC are not rejected. *)
StoppedDacsHold ==
  [][~outputs_allowed => out' = out]_vars

=============================================================================
