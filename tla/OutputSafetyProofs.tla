------------------------- MODULE OutputSafetyProofs -------------------------
(***************************************************************************)
(* Proofs about OutputSafety for every board: any pins, duties, buses and  *)
(* DACs, any clock width, timeout and round time of loop() that satisfy    *)
(* the named assumptions.                                                  *)
(***************************************************************************)
EXTENDS OutputSafety, TLAPS

(* The two flags of SafetyState: update() sets both, and only
   ClearEmergencyStop resets emergency_stop_, which resets both. *)
FlagsAgree ==
  /\ watchdog_expired_ => emergency_stop_
  /\ latched <=> emergency_stop_

(* While the host has been heard within one turn of the clock, the unsigned
   difference the watchdog tests is the true age. *)
AgeOnClock == age < ClockMod => Elapsed(millis, last_heartbeat_ms_) = age

(* Outputs are allowed only while the host is fresh. *)
AllowedIsFresh == outputs_allowed => age <= WatchdogTimeout + lag

SafetyInv ==
  /\ FlagsAgree
  /\ AgeOnClock
  /\ AllowedIsFresh
  /\ StoppedPwmPinsOff

-----------------------------------------------------------------------------
(* What write_dac_raw sends is a word and fits the resolution: Clamped. *)
LEMMA ClampedInRange ==
  ASSUME NEW value \in Nat, NEW resolution \in 1 .. WordBits
  PROVE  /\ Clamped(value, resolution) \in Words
         /\ Clamped(value, resolution) <= MaxValue(resolution)
<1>1. /\ 2^resolution \in Nat /\ 2 <= 2^resolution
      /\ 2^resolution <= 2^WordBits
  BY PowerAssumption
<1>2. 2^WordBits \in Nat /\ 2 <= 2^WordBits
  BY PowerAssumption, DacAssumption
<1> QED
  BY <1>1, <1>2 DEF Clamped, MaxValue, Words

(* FromNormalized is a natural number, as the word it is cast to. *)
LEMMA FromNormalizedNat ==
  ASSUME NEW normalized \in Nat, NEW resolution \in 1 .. WordBits
  PROVE  FromNormalized(normalized, resolution) \in Nat
<1>1. 2^resolution \in Nat /\ 2 <= 2^resolution
  BY PowerAssumption
<1>2. 2^WordBits \in Nat /\ 2 <= 2^WordBits
  BY PowerAssumption, DacAssumption
<1>3. MaxValue(resolution) \in Nat
  BY <1>1 DEF MaxValue
<1>4. normalized * MaxValue(resolution) \in Nat
  BY <1>3
<1>5. (normalized * MaxValue(resolution)) \div Scale \in Int
  BY <1>4, DacAssumption
<1> QED
  BY <1>2, <1>5 DEF FromNormalized

(* pinMode, digitalWrite and analogWrite keep a pin in its type. *)
LEMMA PinCalls ==
  ASSUME NEW s \in PinState, NEW d \in {"in", "out"}, NEW v \in BOOLEAN,
         NEW duty \in Duties
  PROVE  /\ PinMode(s, d) \in PinState
         /\ DigitalWriteTo(s, v) \in PinState
         /\ AnalogWriteTo(s, duty) \in PinState
BY DEF PinState, PinMode, DigitalWriteTo, AnalogWriteTo

(* The checks of write_dac_raw leave a slot in use and a channel it has. *)
LEMMA ReachableDac ==
  ASSUME DacTypeOK, NEW id, NEW channel \in Nat, DacReachable(id, channel)
  PROVE  /\ id \in Dacs
         /\ dacs_[id] \in DacSlot
         /\ dacs_[id].bus \in Buses
         /\ dacs_[id].address \in Addresses
         /\ dacs_[id].resolution_bits \in 1 .. WordBits
         /\ channel \in Channels
<1>1. id \in Dacs /\ dacs_[id].active /\ channel < dacs_[id].channels
  BY DEF DacReachable
<1>2. dacs_[id] \in DacSlot \cup {NoDac}
  BY <1>1 DEF DacTypeOK
<1>3. NoDac.active = FALSE
  BY DEF NoDac
<1>4. dacs_[id] \in DacSlot
  BY <1>1, <1>2, <1>3
<1>5. dacs_[id].channels \in 1 .. MaxChannels
  BY <1>4 DEF DacSlot
<1>6. /\ dacs_[id].bus \in Buses
      /\ dacs_[id].address \in Addresses
      /\ dacs_[id].resolution_bits \in 1 .. WordBits
  BY <1>4 DEF DacSlot
<1>7. channel \in Channels
  BY <1>1, <1>5, DacAssumption DEF Channels
<1> QED
  BY <1>1, <1>4, <1>6, <1>7

-----------------------------------------------------------------------------
(* SystemCommand, PinCommand, DacCommand, Update and Tick keep every variable
   in its type; the DAC slots are the case that needs the lemmas above. *)
LEMMA TypeOKInductive == TypeOK /\ [Next]_vars => TypeOK'
<1> SUFFICES ASSUME TypeOK, [Next]_vars PROVE TypeOK'
  OBVIOUS
<1> USE DEF TypeOK, Errors
<1>1. ASSUME NEW code \in Errors, Nack(code) PROVE TypeOK'
  BY <1>1 DEF Nack, safetyVars, pinVars, dacVars, clockVars, SafetyTypeOK,
              PinTypeOK, DacTypeOK
<1>2. ASSUME safetyVars' \in Millis \X BOOLEAN \X BOOLEAN, pinVars' = pinVars,
             dacVars' = dacVars, millis' = millis, lag' = lag, age' \in {0, age},
             latched' \in BOOLEAN,
             reply' = "Ack"
      PROVE  TypeOK'
  BY <1>2, ClockAssumption DEF safetyVars, pinVars, dacVars, SafetyTypeOK,
                               PinTypeOK, DacTypeOK
<1>3. CASE Heartbeat
  BY <1>2, <1>3 DEF Heartbeat, heartbeat, safetyVars, SafetyTypeOK
<1>4. CASE ClearEmergencyStop
  BY <1>2, <1>4 DEF ClearEmergencyStop, clear_emergency_stop, safetyVars,
                    SafetyTypeOK
<1>5. ASSUME apply_safe_outputs PROVE pin' \in [Pins -> PinState]
  BY <1>5, PinAssumption DEF apply_safe_outputs, AnalogWriteTo, PinTypeOK, PinState
<1>6. CASE EmergencyStop
  BY <1>5, <1>6 DEF EmergencyStop, emergency_stop, dacVars, clockVars,
                    SafetyTypeOK, PinTypeOK, DacTypeOK
<1>7. CASE ResetConfig
  BY <1>5, <1>7 DEF ResetConfig, safetyVars, clockVars, SafetyTypeOK, PinTypeOK,
                    DacTypeOK
<1>8. CASE Malformed
  BY <1>1, <1>8 DEF Malformed
<1>9. CASE OtherCommand
  BY <1>9 DEF OtherCommand, safetyVars, pinVars, dacVars, clockVars, SafetyTypeOK,
              PinTypeOK, DacTypeOK
<1>10. ASSUME AckPin, pin' \in [Pins -> PinState],
              pwm_configured_' \in [Pins -> BOOLEAN]
       PROVE  TypeOK'
  BY <1>10 DEF AckPin, safetyVars, dacVars, clockVars, SafetyTypeOK, PinTypeOK,
               DacTypeOK
<1>11. CASE PinCommand
  <2> PICK p \in PinArgs :
        \/ \E v \in BOOLEAN : ConfigDigitalOutput(p, v)
        \/ ConfigDigitalInput(p)
        \/ \E v \in BOOLEAN : DigitalWrite(p, v)
        \/ \E d \in Duties : ConfigPwm(p, d)
        \/ \E d \in Duties : PwmWrite(p, d)
        \/ PwmDisable(p)
        \/ \E q \in PinArgs : ConfigEncoder(p, q)
    BY <1>11 DEF PinCommand
  <2> USE <1>1, PinAssumption DEF PinTypeOK
  <2>0. ASSUME NEW t \in PinState, p \in Pins, pin' = [pin EXCEPT ![p] = t], AckPin,
               NEW f \in BOOLEAN,
               pwm_configured_' \in {pwm_configured_, [pwm_configured_ EXCEPT ![p] = f]}
        PROVE  TypeOK'
    <3>1. pin' \in [Pins -> PinState]
      BY <2>0
    <3>2. pwm_configured_' \in [Pins -> BOOLEAN]
      BY <2>0
    <3> QED
      BY <1>10, <2>0, <3>1, <3>2
  <2> DEFINE s == pin[p]
  <2>a. p \in Pins => s \in PinState
    OBVIOUS
  <2> HIDE DEF s
  <2>1. ASSUME NEW v \in BOOLEAN, ConfigDigitalOutput(p, v) PROVE TypeOK'
    <3>1. p \in Pins => DigitalWriteTo(PinMode(s, "out"), v) \in PinState
      BY <2>a, PinCalls
    <3> QED
      BY <2>0, <2>1, <3>1 DEF ConfigDigitalOutput, s
  <2>2. CASE ConfigDigitalInput(p)
    <3>1. p \in Pins => PinMode(s, "in") \in PinState
      BY <2>a, PinCalls
    <3> QED
      BY <2>0, <2>2, <3>1 DEF ConfigDigitalInput, s
  <2>3. ASSUME NEW v \in BOOLEAN, DigitalWrite(p, v) PROVE TypeOK'
    <3>1. p \in Pins => DigitalWriteTo(s, v) \in PinState
      BY <2>a, PinCalls
    <3> QED
      BY <2>0, <2>3, <3>1 DEF DigitalWrite, s
  <2>4. ASSUME NEW d \in Duties, ConfigPwm(p, d) PROVE TypeOK'
    <3>1. p \in Pins => AnalogWriteTo(PinMode(s, "out"), d) \in PinState
      BY <2>a, PinCalls
    <3> QED
      BY <2>0, <2>4, <3>1 DEF ConfigPwm, s
  <2>5. ASSUME NEW d \in Duties, PwmWrite(p, d) PROVE TypeOK'
    <3>1. p \in Pins => AnalogWriteTo(s, d) \in PinState
      BY <2>a, PinCalls
    <3> QED
      BY <2>0, <2>5, <3>1 DEF PwmWrite, s
  <2>6. CASE PwmDisable(p)
    <3>1. p \in Pins => AnalogWriteTo(s, 0) \in PinState
      BY <2>a, PinCalls
    <3> QED
      BY <2>0, <2>6, <3>1 DEF PwmDisable, s
  <2>7. ASSUME NEW q \in PinArgs, ConfigEncoder(p, q) PROVE TypeOK'
    <3>1. \A x \in Pins : PinMode(pin[x], "in") \in PinState
      BY PinCalls
    <3> QED
      BY <1>10, <2>7, <3>1 DEF ConfigEncoder
  <2> QED
    BY <2>1, <2>2, <2>3, <2>4, <2>5, <2>6, <2>7
<1>12. ASSUME AckDac, i2c_configured_' \in [Buses -> BOOLEAN],
              dacs_' \in [Dacs -> DacSlot \cup {NoDac}], out' \in [Outputs -> Words]
       PROVE  TypeOK'
  BY <1>12 DEF AckDac, safetyVars, pinVars, clockVars, SafetyTypeOK, PinTypeOK,
               DacTypeOK
<1>13. ASSUME NEW id \in DacArgs, NEW channel \in 0 .. MaxChannels,
              NEW value \in Nat, DacReachable(id, channel),
              write_dac_raw(id, channel, value), UNCHANGED i2c_configured_, AckDac
       PROVE  TypeOK'
  <2> DEFINE d == dacs_[id]
             v == Clamped(value, d.resolution_bits)
  <2>1. /\ id \in Dacs /\ d \in DacSlot /\ channel \in Channels
        /\ d.bus \in Buses /\ d.address \in Addresses
        /\ d.resolution_bits \in 1 .. WordBits
    BY <1>13, ReachableDac, DacAssumption
  <2>2. v \in Words
    BY <2>1, ClampedInRange
  <2>3. <<d.bus, d.address, channel>> \in Outputs
    BY <2>1 DEF Outputs
  <2>4. out' \in [Outputs -> Words]
    BY <1>13, <2>2, <2>3 DEF write_dac_raw, DacTypeOK
  <2>5. dacs_' = [dacs_ EXCEPT ![id] = [d EXCEPT !.last_value = v]]
    BY <1>13, <2>1 DEF write_dac_raw
  <2>6. [d EXCEPT !.last_value = v] \in DacSlot
    BY <2>1, <2>2 DEF DacSlot
  <2>7. dacs_' \in [Dacs -> DacSlot \cup {NoDac}]
    BY <2>1, <2>5, <2>6 DEF DacTypeOK
  <2> QED
    BY <1>12, <1>13, <2>4, <2>7 DEF DacTypeOK
<1>14. CASE DacCommand
  <2> USE <1>1, <1>12 DEF DacTypeOK
  <2>1. ASSUME NEW b \in BusArgs, ConfigI2cBus(b) PROVE TypeOK'
    BY <2>1 DEF ConfigI2cBus
  <2>2. ASSUME NEW b \in BusArgs, NEW a \in Addresses, NEW c \in Channels,
               NEW v \in Words, I2cWrite(b, a, c, v)
        PROVE  TypeOK'
    BY <2>2 DEF I2cWrite, BusReady, Outputs
  <2>3. ASSUME NEW d \in DacArgs, NEW b \in BusArgs, NEW a \in Addresses,
               NEW c \in 0 .. MaxChannels, NEW r \in 0 .. WordBits + 1,
               ConfigDac(d, b, a, c, r)
        PROVE  TypeOK'
    <3>1. 0 \in Words
      BY PowerAssumption, DacAssumption DEF Words
    <3> DEFINE new == [active |-> TRUE, bus |-> b, address |-> a, channels |-> c,
                       resolution_bits |-> r, last_value |-> 0]
    <3>2. CASE Nack("InvalidPayload")
      BY <3>2
    <3>3. CASE ~Nack("InvalidPayload")
      <4>1. /\ d \in Dacs /\ b \in Buses /\ c \in 1 .. MaxChannels
            /\ r \in 1 .. WordBits
        BY <2>3, <3>3, DacAssumption DEF ConfigDac, BusReady
      <4>2. new \in DacSlot
        BY <3>1, <4>1 DEF DacSlot
      <4>3. /\ dacs_' = [dacs_ EXCEPT ![d] = new]
            /\ UNCHANGED <<i2c_configured_, out>> /\ AckDac
        BY <2>3, <3>3 DEF ConfigDac
      <4> HIDE DEF new
      <4>4. dacs_' \in [Dacs -> DacSlot \cup {NoDac}]
        BY <4>1, <4>2, <4>3
      <4> QED
        BY <4>3, <4>4
    <3> QED
      BY <3>2, <3>3
  <2>4. ASSUME NEW d \in DacArgs, NEW c \in 0 .. MaxChannels, NEW v \in Words,
               DacWriteRaw(d, c, v)
        PROVE  TypeOK'
    <3>1. v \in Nat
      BY PowerAssumption, DacAssumption DEF Words
    <3> QED
      BY <2>4, <3>1, <1>13 DEF DacWriteRaw
  <2>5. ASSUME NEW d \in DacArgs, NEW c \in 0 .. MaxChannels, NEW v \in Words,
               DacWriteNormalized(d, c, v)
        PROVE  TypeOK'
    <3>1. v \in Nat
      BY PowerAssumption, DacAssumption DEF Words
    <3>2. DacReachable(d, c) => dacs_[d].resolution_bits \in 1 .. WordBits
      BY ReachableDac, DacAssumption
    <3>3. DacReachable(d, c) => FromNormalized(v, dacs_[d].resolution_bits) \in Nat
      BY <3>1, <3>2, FromNormalizedNat
    <3> QED
      BY <2>5, <3>3, <1>13 DEF DacWriteNormalized
  <2> QED
    BY <1>14, <2>1, <2>2, <2>3, <2>4, <2>5 DEF DacCommand, AnyI2cWrite
<1>15. CASE Update
  BY <1>5, <1>15, LagAssumption DEF Update, update, dacVars, SafetyTypeOK, PinTypeOK,
                     DacTypeOK
<1>16. CASE Tick
  BY <1>16, ClockAssumption, LagAssumption
     DEF Tick, NextMillis, Millis, safetyVars, pinVars, dacVars, SafetyTypeOK,
         PinTypeOK, DacTypeOK
<1>17. CASE UNCHANGED vars
  BY <1>17 DEF vars, safetyVars, pinVars, dacVars, SafetyTypeOK, PinTypeOK, DacTypeOK
<1> QED
  BY <1>3, <1>4, <1>6, <1>7, <1>8, <1>9, <1>11, <1>14, <1>15, <1>16, <1>17
     DEF Next, SystemCommand

(* Type correctness of the firmware's output side. *)
THEOREM TypeCorrect == Spec => []TypeOK
<1>1. Init => TypeOK
  <2> SUFFICES ASSUME Init PROVE TypeOK
    OBVIOUS
  <2>a. 0 \in Millis /\ 0 \in 0 .. ClockMod /\ 0 \in 0 .. MaxLag
    BY ClockAssumption, LagAssumption DEF Millis
  <2>1. SafetyTypeOK /\ age \in 0 .. ClockMod /\ lag \in 0 .. MaxLag
    BY <2>a, Zenon DEF Init, SafetyInit, SafetyTypeOK
  <2>2. PinTypeOK
    BY PinAssumption DEF Init, PinInit, PinTypeOK, PinState
  <2>3. 0 \in Words
    BY PowerAssumption, DacAssumption DEF Words
  <2>4. DacTypeOK
    BY <2>3 DEF Init, DacInit, DacTypeOK
  <2> QED
    BY <2>1, <2>2, <2>4 DEF Init, TypeOK
<1> QED
  BY <1>1, TypeOKInductive, PTL DEF Spec

-----------------------------------------------------------------------------
(* Every step keeps the relation between the flags, the clock and the pins:
   the step that takes away outputs_allowed is the step that silences the PWM
   pins, and no later step drives one. *)
LEMMA SafetyInvInductive ==
  TypeOK /\ SafetyInv /\ [Next]_vars => SafetyInv'
<1> SUFFICES ASSUME TypeOK, SafetyInv, [Next]_vars PROVE SafetyInv'
  OBVIOUS
<1> USE DEF SafetyInv
<1> DEFINE Clock == FlagsAgree /\ AgeOnClock /\ AllowedIsFresh
<1>1. ASSUME safetyVars' = safetyVars, clockVars' = clockVars
      PROVE  Clock' /\ outputs_allowed' = outputs_allowed
  BY <1>1 DEF safetyVars, clockVars, FlagsAgree, AgeOnClock, AllowedIsFresh,
              outputs_allowed, Elapsed
<1>2. ASSUME safetyVars' = safetyVars, clockVars' = clockVars, pinVars' = pinVars
      PROVE  SafetyInv'
  BY <1>1, <1>2 DEF StoppedPwmPinsOff, Energized, pinVars
<1>3. ASSUME NEW code, Nack(code) PROVE SafetyInv'
  BY <1>2, <1>3 DEF Nack
<1>4. CASE AckDac
  BY <1>2, <1>4 DEF AckDac
<1>5. ASSUME apply_safe_outputs, NEW p \in Pins, pwm_configured_[p]
      PROVE  ~Energized(p)'
  <2>1. pin[p] \in PinState /\ pin'[p] = AnalogWriteTo(pin[p], 0)
    BY <1>5 DEF apply_safe_outputs, TypeOK, PinTypeOK
  <2>2. pin'[p].mux = "pwm" /\ pin'[p].duty = 0
    BY <2>1 DEF AnalogWriteTo, PinState
  <2> QED
    BY <2>2 DEF Energized
<1>6. ASSUME last_heartbeat_ms_' = millis, millis' = millis, lag' = lag, age' = 0
      PROVE  AgeOnClock' /\ AllowedIsFresh'
  BY <1>6, ClockAssumption DEF AgeOnClock, AllowedIsFresh, Elapsed, TypeOK,
     SafetyTypeOK, Millis
<1>7. CASE Heartbeat
  <2>1. outputs_allowed' = outputs_allowed /\ FlagsAgree'
    BY <1>7 DEF Heartbeat, heartbeat, FlagsAgree, outputs_allowed
  <2> QED
    BY <1>6, <1>7, <2>1 DEF Heartbeat, heartbeat, StoppedPwmPinsOff, Energized, pinVars
<1>8. CASE ClearEmergencyStop
  <2>1. outputs_allowed' /\ FlagsAgree'
    BY <1>8 DEF ClearEmergencyStop, clear_emergency_stop, FlagsAgree, outputs_allowed
  <2> QED
    BY <1>6, <1>8, <2>1 DEF ClearEmergencyStop, clear_emergency_stop,
                            StoppedPwmPinsOff
<1>9. CASE EmergencyStop
  <2>1. Clock'
    BY <1>9 DEF EmergencyStop, emergency_stop, clockVars, FlagsAgree, AgeOnClock,
                AllowedIsFresh, outputs_allowed, Elapsed
  <2>2. StoppedPwmPinsOff'
    BY <1>5, <1>9 DEF EmergencyStop, StoppedPwmPinsOff
  <2> QED
    BY <2>1, <2>2
<1>10. CASE ResetConfig
  <2>1. Clock'
    BY <1>1, <1>10 DEF ResetConfig
  <2>2. StoppedPwmPinsOff'
    BY <1>10 DEF ResetConfig, StoppedPwmPinsOff
  <2> QED
    BY <2>1, <2>2
<1>11. CASE Malformed
  BY <1>3, <1>11 DEF Malformed
<1>12. CASE OtherCommand
  BY <1>2, <1>12 DEF OtherCommand
<1>13. ASSUME NEW p \in Pins, NEW t \in PinState, pin' = [pin EXCEPT ![p] = t], AckPin,
              \/ outputs_allowed
              \/ ~(t.mux = "pwm" /\ t.duty > 0)
                 /\ ~(t.mux = "gpio" /\ t.dir = "out" /\ t.latch),
              \A q \in Pins \ {p} : pwm_configured_'[q] = pwm_configured_[q]
       PROVE  SafetyInv'
  <2>1. Clock' /\ outputs_allowed' = outputs_allowed
    BY <1>1, <1>13 DEF AckPin
  <2>2. \A q \in Pins \ {p} : pin'[q] = pin[q]
    BY <1>13 DEF TypeOK, PinTypeOK
  <2>3. pin'[p] = t
    BY <1>13 DEF TypeOK, PinTypeOK
  <2>4. StoppedPwmPinsOff'
    BY <1>13, <2>1, <2>2, <2>3 DEF StoppedPwmPinsOff, Energized
  <2> QED
    BY <2>1, <2>4
<1>14. CASE PinCommand
  <2> PICK p \in PinArgs :
        \/ \E v \in BOOLEAN : ConfigDigitalOutput(p, v)
        \/ ConfigDigitalInput(p)
        \/ \E v \in BOOLEAN : DigitalWrite(p, v)
        \/ \E d \in Duties : ConfigPwm(p, d)
        \/ \E d \in Duties : PwmWrite(p, d)
        \/ PwmDisable(p)
        \/ \E q \in PinArgs : ConfigEncoder(p, q)
    BY <1>14 DEF PinCommand
  <2> USE <1>3, PinAssumption
  <2> DEFINE s == pin[p]
  <2>a. p \in Pins => s \in PinState
    BY DEF TypeOK, PinTypeOK
  <2>b. \A q \in Pins \ {p} : \A f : [pwm_configured_ EXCEPT ![p] = f][q]
                                       = pwm_configured_[q]
    BY DEF TypeOK, PinTypeOK
  <2> HIDE DEF s
  <2>1. ASSUME NEW v \in BOOLEAN, ConfigDigitalOutput(p, v) PROVE SafetyInv'
    <3> DEFINE t == DigitalWriteTo(PinMode(s, "out"), v)
    <3>1. p \in Pins => /\ t \in PinState
                        /\ t.mux = "gpio" /\ t.latch = v
      BY <2>a, PinCalls DEF PinState, DigitalWriteTo, PinMode
    <3> HIDE DEF t
    <3>2. CASE ~(v => outputs_allowed) \/ p \notin Pins
      BY <2>1, <3>2 DEF ConfigDigitalOutput
    <3>3. CASE (v => outputs_allowed) /\ p \in Pins
      <4>1. AckPin /\ pin' = [pin EXCEPT ![p] = t] /\ UNCHANGED pwm_configured_
        BY <2>1, <3>3 DEF ConfigDigitalOutput, t, s
      <4> QED
        BY <1>13, <3>1, <3>3, <4>1
    <3> QED
      BY <3>2, <3>3
  <2>2. CASE ConfigDigitalInput(p)
    <3> DEFINE t == PinMode(s, "in")
    <3>1. p \in Pins => t \in PinState /\ t.mux = "gpio" /\ t.dir = "in"
      BY <2>a, PinCalls DEF PinState, PinMode
    <3>2. p \in Pins => AckPin /\ pin' = [pin EXCEPT ![p] = t]
                               /\ UNCHANGED pwm_configured_
      BY <2>2 DEF ConfigDigitalInput, s
    <3> HIDE DEF t
    <3>3. CASE p \in Pins
      BY <1>13, <3>1, <3>2, <3>3
    <3> QED
      BY <2>2, <3>3 DEF ConfigDigitalInput
  <2>3. ASSUME NEW v \in BOOLEAN, DigitalWrite(p, v) PROVE SafetyInv'
    <3> DEFINE t == DigitalWriteTo(s, v)
    <3>1. p \in Pins => t \in PinState
      BY <2>a, PinCalls
    <3>2. CASE outputs_allowed /\ p \in Pins
      <4>1. AckPin /\ pin' = [pin EXCEPT ![p] = t] /\ UNCHANGED pwm_configured_
        BY <2>3, <3>2 DEF DigitalWrite, s
      <4> HIDE DEF t
      <4> QED
        BY <1>13, <3>1, <3>2, <4>1
    <3> QED
      BY <2>3, <3>2 DEF DigitalWrite
  <2>4. ASSUME NEW d \in Duties, ConfigPwm(p, d) PROVE SafetyInv'
    <3> DEFINE t == AnalogWriteTo(PinMode(s, "out"), d)
    <3>1. p \in Pins => t \in PinState /\ t.mux = "pwm" /\ t.duty = d
      BY <2>a, PinCalls DEF PinState, AnalogWriteTo, PinMode
    <3>2. CASE (d > 0 => outputs_allowed) /\ p \in PwmPins
      <4>1. /\ AckPin /\ pin' = [pin EXCEPT ![p] = t]
            /\ pwm_configured_' = [pwm_configured_ EXCEPT ![p] = TRUE]
        BY <2>4, <3>2 DEF ConfigPwm, s
      <4> HIDE DEF t
      <4> QED
        BY <1>13, <2>b, <3>1, <3>2, <4>1
    <3> QED
      BY <2>4, <3>2 DEF ConfigPwm
  <2>5. ASSUME NEW d \in Duties, PwmWrite(p, d) PROVE SafetyInv'
    <3> DEFINE t == AnalogWriteTo(s, d)
    <3>1. p \in Pins => t \in PinState
      BY <2>a, PinCalls
    <3>2. CASE outputs_allowed /\ p \in PwmPins /\ pwm_configured_[p]
      <4>1. AckPin /\ pin' = [pin EXCEPT ![p] = t] /\ UNCHANGED pwm_configured_
        BY <2>5, <3>2 DEF PwmWrite, s
      <4> HIDE DEF t
      <4> QED
        BY <1>13, <3>1, <3>2, <4>1
    <3> QED
      BY <2>5, <3>2 DEF PwmWrite
  <2>6. CASE PwmDisable(p)
    <3> DEFINE t == AnalogWriteTo(s, 0)
    <3>1. p \in Pins => t \in PinState /\ t.mux = "pwm" /\ t.duty = 0
      BY <2>a, PinCalls DEF PinState, AnalogWriteTo
    <3>2. CASE p \in PwmPins
      <4>1. /\ AckPin /\ pin' = [pin EXCEPT ![p] = t]
            /\ pwm_configured_' = [pwm_configured_ EXCEPT ![p] = FALSE]
        BY <2>6, <3>2 DEF PwmDisable, s
      <4> HIDE DEF t
      <4>2. t \in PinState /\ t.mux # "gpio" /\ ~(t.duty > 0)
        BY <3>1, <3>2
      <4>3. \A x \in Pins \ {p} : pwm_configured_'[x] = pwm_configured_[x]
        BY <2>b, <4>1
      <4> QED
        BY <1>13, <3>2, <4>1, <4>2, <4>3
    <3> QED
      BY <2>6, <3>2 DEF PwmDisable
  <2>7. ASSUME NEW q \in PinArgs, ConfigEncoder(p, q) PROVE SafetyInv'
    <3>1. CASE Nack("InvalidPin")
      BY <3>1
    <3>2. CASE ~Nack("InvalidPin")
      <4>1. /\ pin' = [x \in Pins |-> IF x \in {p, q} THEN PinMode(pin[x], "in")
                                                       ELSE pin[x]]
            /\ UNCHANGED pwm_configured_ /\ AckPin
        BY <2>7, <3>2 DEF ConfigEncoder
      <4>2. Clock' /\ outputs_allowed' = outputs_allowed
        BY <1>1, <4>1 DEF AckPin
      <4>3. \A x \in Pins : Energized(x)' => Energized(x)
        BY <4>1 DEF Energized, PinMode, TypeOK, PinTypeOK, PinState
      <4>4. StoppedPwmPinsOff'
        BY <4>1, <4>2, <4>3 DEF StoppedPwmPinsOff
      <4> QED
        BY <4>2, <4>4
    <3> QED
      BY <3>1, <3>2
  <2> QED
    BY <2>1, <2>2, <2>3, <2>4, <2>5, <2>6, <2>7
<1>15. CASE DacCommand
  BY <1>3, <1>4, <1>15 DEF DacCommand, AnyI2cWrite, ConfigI2cBus, I2cWrite, ConfigDac,
                           DacWriteRaw, DacWriteNormalized
<1>16. CASE Update
  <2>1. FlagsAgree' /\ AgeOnClock'
    BY <1>16 DEF Update, update, FlagsAgree, AgeOnClock, Elapsed
  <2>2. outputs_allowed' => outputs_allowed /\ ~WatchdogElapsed
    BY <1>16 DEF Update, update, outputs_allowed
  <2>3. outputs_allowed /\ ~WatchdogElapsed => age <= WatchdogTimeout
    BY ClockAssumption, LagAssumption
       DEF AgeOnClock, AllowedIsFresh, WatchdogElapsed, TypeOK
  <2>4. age' = age /\ lag' = 0
    BY <1>16 DEF Update
  <2>5. AllowedIsFresh'
    BY <2>2, <2>3, <2>4, ClockAssumption DEF AllowedIsFresh
  <2>6. StoppedPwmPinsOff'
    <3>1. CASE outputs_allowed /\ ~outputs_allowed'
      BY <1>5, <1>16, <3>1 DEF Update, StoppedPwmPinsOff
    <3>2. CASE ~(outputs_allowed /\ ~outputs_allowed')
      BY <1>16, <2>2, <3>2 DEF Update, StoppedPwmPinsOff, Energized
    <3> QED
      BY <3>1, <3>2
  <2> QED
    BY <2>1, <2>5, <2>6
<1>17. CASE Tick
  <2>1. FlagsAgree' /\ StoppedPwmPinsOff' /\ outputs_allowed' = outputs_allowed
    BY <1>17 DEF Tick, safetyVars, pinVars, FlagsAgree, StoppedPwmPinsOff, Energized,
                 outputs_allowed
  <2>2. AgeOnClock'
    BY <1>17, ClockAssumption DEF Tick, safetyVars, AgeOnClock, Elapsed, NextMillis,
                                  TypeOK, SafetyTypeOK, Millis
  <2>3. AllowedIsFresh'
    BY <1>17, <2>1, ClockAssumption, LagAssumption DEF Tick, AllowedIsFresh, TypeOK
  <2> QED
    BY <2>1, <2>2, <2>3
<1>18. CASE UNCHANGED vars
  BY <1>2, <1>18 DEF vars, clockVars
<1> QED
  BY <1>7, <1>8, <1>9, <1>10, <1>11, <1>12, <1>14, <1>15, <1>16, <1>17, <1>18
     DEF Next, SystemCommand

(* The inductive invariant holds in every reachable state. *)
THEOREM SafetyInvariant == Spec => [](TypeOK /\ SafetyInv)
<1>1. Init => SafetyInv
  BY ClockAssumption, LagAssumption, PinAssumption
     DEF Init, SafetyInit, PinInit, SafetyInv, FlagsAgree, AgeOnClock, Elapsed,
         AllowedIsFresh, StoppedPwmPinsOff, outputs_allowed
<1> QED
  BY <1>1, TypeCorrect, SafetyInvInductive, PTL DEF Spec

(* apply_safe_outputs covers every PWM pin, on every path into the stop. *)
THEOREM StopSilencesPwm == Spec => []StoppedPwmPinsOff
<1>1. SafetyInv => StoppedPwmPinsOff
  BY DEF SafetyInv
<1> QED
  BY <1>1, SafetyInvariant, PTL

(* A pin is driven by PWM only while the host is fresh: the watchdog bound on
   the wrapping clock, for every clock width and timeout. *)
THEOREM WatchdogBoundsDrive == Spec => []DrivenPinIsFresh
<1>1. TypeOK /\ SafetyInv => DrivenPinIsFresh
  BY DEF SafetyInv, DrivenPinIsFresh, AllowedIsFresh, StoppedPwmPinsOff
<1> QED
  BY <1>1, SafetyInvariant, PTL

(* The outputs are stopped from a stop to the next ClearEmergencyStop. *)
THEOREM StopStaysLatched == Spec => []StopIsLatched
<1>1. SafetyInv => StopIsLatched
  BY DEF SafetyInv, StopIsLatched, FlagsAgree, outputs_allowed
<1> QED
  BY <1>1, SafetyInvariant, PTL

-----------------------------------------------------------------------------
(* Only ResetConfig takes a bus away, and it empties every slot; a slot is
   filled on a bus that is ready, and written with a clamped value. *)
LEMMA DacSlotsInductive == TypeOK /\ DacSlotsSound /\ [Next]_vars => DacSlotsSound'
<1> SUFFICES ASSUME TypeOK, DacSlotsSound, [Next]_vars PROVE DacSlotsSound'
  OBVIOUS
<1> USE DEF DacSlotsSound
<1>1. ASSUME dacs_' = dacs_, i2c_configured_' = i2c_configured_ PROVE DacSlotsSound'
  BY <1>1 DEF ActiveDacHasBus, DacInRange
<1>2. CASE ResetConfig
  BY <1>2 DEF ResetConfig, ActiveDacHasBus, DacInRange, NoDac
<1>3. ASSUME NEW id \in DacArgs, NEW channel \in 0 .. MaxChannels,
             NEW value \in Nat, DacReachable(id, channel),
             write_dac_raw(id, channel, value), UNCHANGED i2c_configured_
      PROVE  DacSlotsSound'
  <2> DEFINE v == Clamped(value, dacs_[id].resolution_bits)
  <2>1. id \in Dacs /\ dacs_[id] \in DacSlot
        /\ dacs_[id].resolution_bits \in 1 .. WordBits
    BY <1>3, ReachableDac, DacAssumption DEF TypeOK
  <2>2. v <= MaxValue(dacs_[id].resolution_bits)
    BY <2>1, ClampedInRange
  <2>3. dacs_' = [dacs_ EXCEPT ![id].last_value = v]
    BY <1>3 DEF write_dac_raw
  <2> HIDE DEF v
  <2>4. \A d \in Dacs : /\ dacs_'[d].active = dacs_[d].active
                        /\ dacs_'[d].bus = dacs_[d].bus
                        /\ dacs_'[d].resolution_bits = dacs_[d].resolution_bits
                        /\ \/ dacs_'[d].last_value = dacs_[d].last_value
                           \/ d = id /\ dacs_'[d].last_value = v
    <3> SUFFICES ASSUME NEW d \in Dacs
                 PROVE  /\ dacs_'[d].active = dacs_[d].active
                        /\ dacs_'[d].bus = dacs_[d].bus
                        /\ dacs_'[d].resolution_bits = dacs_[d].resolution_bits
                        /\ \/ dacs_'[d].last_value = dacs_[d].last_value
                           \/ d = id /\ dacs_'[d].last_value = v
      OBVIOUS
    <3>1. dacs_'[d] = IF d = id THEN [dacs_[id] EXCEPT !.last_value = v]
                                ELSE dacs_[d]
      BY <2>1, <2>3 DEF TypeOK, DacTypeOK
    <3>2. CASE d = id
      BY <2>1, <3>1, <3>2 DEF DacSlot
    <3>3. CASE d # id
      BY <3>1, <3>3
    <3> QED
      BY <3>2, <3>3
  <2> QED
    BY <1>3, <2>2, <2>4 DEF ActiveDacHasBus, DacInRange
<1>4. CASE DacCommand
  <2>1. ASSUME NEW b \in BusArgs, ConfigI2cBus(b) PROVE DacSlotsSound'
    <3>1. CASE Nack("InvalidPayload")
      BY <1>1, <3>1 DEF Nack, dacVars
    <3>2. CASE ~Nack("InvalidPayload")
      <4>1. /\ dacs_' = dacs_
            /\ i2c_configured_' = [i2c_configured_ EXCEPT ![b] = TRUE]
        BY <2>1, <3>2 DEF ConfigI2cBus
      <4>2. \A x \in Buses : i2c_configured_[x] => i2c_configured_'[x]
        BY <4>1 DEF TypeOK, DacTypeOK
      <4>3. \A d \in Dacs : dacs_[d].active => dacs_[d].bus \in Buses
        <5>1. \A d \in Dacs : dacs_[d] \in DacSlot \/ dacs_[d] = NoDac
          BY DEF TypeOK, DacTypeOK
        <5>2. \A slot \in DacSlot : slot.bus \in Buses
          BY DEF DacSlot
        <5>3. NoDac.active = FALSE
          BY DEF NoDac
        <5> QED
          BY <5>1, <5>2, <5>3
      <4> QED
        BY <4>1, <4>2, <4>3 DEF ActiveDacHasBus, DacInRange
    <3> QED
      BY <3>1, <3>2
  <2>2. CASE AnyI2cWrite
    BY <1>1, <2>2 DEF AnyI2cWrite, I2cWrite, Nack, dacVars
  <2>3. ASSUME NEW d \in DacArgs, NEW b \in BusArgs, NEW a \in Addresses,
               NEW c \in 0 .. MaxChannels, NEW r \in 0 .. WordBits + 1,
               ConfigDac(d, b, a, c, r)
        PROVE  DacSlotsSound'
    <3> DEFINE new == [active |-> TRUE, bus |-> b, address |-> a, channels |-> c,
                       resolution_bits |-> r, last_value |-> 0]
    <3>1. CASE Nack("InvalidPayload")
      BY <1>1, <3>1 DEF Nack, dacVars
    <3>2. CASE ~Nack("InvalidPayload")
      <4>1. /\ i2c_configured_[b] /\ r \in 1 .. WordBits
            /\ dacs_' = [dacs_ EXCEPT ![d] = new] /\ UNCHANGED i2c_configured_
        BY <2>3, <3>2, DacAssumption DEF ConfigDac, BusReady
      <4>2. new.bus = b /\ new.last_value = 0 /\ new.resolution_bits = r
        OBVIOUS
      <4>3. 0 <= MaxValue(r)
        BY <4>1, PowerAssumption DEF MaxValue
      <4> HIDE DEF new
      <4>4. \A x \in Dacs : dacs_'[x] = dacs_[x] \/ dacs_'[x] = new
        BY <4>1 DEF TypeOK, DacTypeOK
      <4> QED
        BY <4>1, <4>2, <4>3, <4>4 DEF ActiveDacHasBus, DacInRange
    <3> QED
      BY <3>1, <3>2
  <2>4. ASSUME NEW d \in DacArgs, NEW c \in 0 .. MaxChannels, NEW v \in Words,
               DacWriteRaw(d, c, v)
        PROVE  DacSlotsSound'
    <3>1. v \in Nat
      BY PowerAssumption, DacAssumption DEF Words
    <3> QED
      BY <1>1, <1>3, <2>4, <3>1 DEF DacWriteRaw, Nack, dacVars
  <2>5. ASSUME NEW d \in DacArgs, NEW c \in 0 .. MaxChannels, NEW v \in Words,
               DacWriteNormalized(d, c, v)
        PROVE  DacSlotsSound'
    <3>1. v \in Nat
      BY PowerAssumption, DacAssumption DEF Words
    <3>2. DacReachable(d, c) => FromNormalized(v, dacs_[d].resolution_bits) \in Nat
      BY <3>1, ReachableDac, FromNormalizedNat, DacAssumption DEF TypeOK
    <3> QED
      BY <1>1, <1>3, <2>5, <3>2 DEF DacWriteNormalized, Nack, dacVars
  <2> QED
    BY <1>4, <2>1, <2>2, <2>3, <2>4, <2>5 DEF DacCommand
<1>5. CASE PinCommand
  BY <1>1, <1>5 DEF PinCommand, ConfigDigitalOutput, ConfigDigitalInput, DigitalWrite,
                    ConfigPwm, PwmWrite, PwmDisable, ConfigEncoder, AckPin, Nack,
                    dacVars
<1>6. CASE Heartbeat \/ EmergencyStop \/ ClearEmergencyStop \/ Malformed
           \/ OtherCommand \/ Update \/ Tick \/ UNCHANGED vars
  BY <1>1, <1>6 DEF Heartbeat, EmergencyStop, ClearEmergencyStop, Malformed, Nack,
                    OtherCommand, Update, Tick, dacVars, vars
<1> QED
  BY <1>2, <1>4, <1>5, <1>6 DEF Next, SystemCommand

(* No DAC slot outlives its bus, and the clamp holds behind the truncating cast,
   for any buses, slots and word width. *)
THEOREM DacSlotsStaySound == Spec => []DacSlotsSound
<1>1. Init => DacSlotsSound
  BY DEF Init, DacInit, DacSlotsSound, ActiveDacHasBus, DacInRange, NoDac
<1> QED
  BY <1>1, TypeCorrect, DacSlotsInductive, PTL DEF Spec

-----------------------------------------------------------------------------
(* A command that is refused has had no effect: every nack() comes first. *)
THEOREM RefusalHasNoEffect == Spec => RefusedChangesNothing
<1> DEFINE Refusal ==
      reply' \in Errors => UNCHANGED <<safetyVars, pinVars, dacVars>>
<1>1. ASSUME NEW code, Nack(code) PROVE Refusal
  BY <1>1 DEF Nack
<1>2. ASSUME reply' \in {"Ack", "none"} PROVE Refusal
  BY <1>2 DEF Errors
<1>3. SystemCommand => Refusal
  BY <1>1, <1>2 DEF SystemCommand, Heartbeat, EmergencyStop, ClearEmergencyStop,
                    ResetConfig, Malformed, OtherCommand
<1>4. PinCommand => Refusal
  BY <1>1, <1>2 DEF PinCommand, ConfigDigitalOutput, ConfigDigitalInput,
                    DigitalWrite, ConfigPwm, PwmWrite, PwmDisable,
                    ConfigEncoder, AckPin
<1>5. DacCommand => Refusal
  BY <1>1, <1>2 DEF DacCommand, AnyI2cWrite, ConfigI2cBus, I2cWrite, ConfigDac,
                    DacWriteRaw, DacWriteNormalized, AckDac
<1>6. (Update \/ Tick) => Refusal
  BY <1>2 DEF Update, Tick
<1>7. [Next]_vars => [Refusal]_vars
  BY <1>3, <1>4, <1>5, <1>6 DEF Next
<1> QED
  BY <1>7, PTL DEF Spec, RefusedChangesNothing

(* DAC commands move no output while the outputs are stopped. *)
THEOREM DacsHoldInStop == Spec => DacHeldWhileStopped
<1> DEFINE Hold == (~outputs_allowed /\ out' # out) => AnyI2cWrite
<1>1. ASSUME NEW code, Nack(code) PROVE Hold
  BY <1>1 DEF Nack, dacVars
<1>2. DacCommand => Hold
  BY <1>1 DEF DacCommand, ConfigI2cBus, ConfigDac, DacWriteRaw,
              DacWriteNormalized
<1>3. (SystemCommand \/ Update \/ Tick) => Hold
  BY <1>1 DEF SystemCommand, Heartbeat, EmergencyStop, ClearEmergencyStop,
              ResetConfig, Malformed, OtherCommand, Update, Tick, dacVars
<1>4. PinCommand => Hold
  BY <1>1 DEF PinCommand, ConfigDigitalOutput, ConfigDigitalInput,
              DigitalWrite, ConfigPwm, PwmWrite, PwmDisable, ConfigEncoder,
              AckPin, dacVars
<1>5. [Next]_vars => [Hold]_vars
  BY <1>2, <1>3, <1>4 DEF Next
<1> QED
  BY <1>5, PTL DEF Spec, DacHeldWhileStopped

(* While the outputs are stopped a step may switch pins off, not on. *)
LEMMA StoppedStep ==
  ASSUME TypeOK, [Next]_vars, ~outputs_allowed, NEW x \in Pins, Energized(x)'
  PROVE  Energized(x)
<1>1. CASE pin' = pin
  BY <1>1 DEF Energized
<1>2. ASSUME NEW t \in PinState, NEW p \in Pins, pin' = [pin EXCEPT ![p] = t],
             ~(t.mux = "pwm" /\ t.duty > 0),
             ~(t.mux = "gpio" /\ t.dir = "out" /\ t.latch)
      PROVE  Energized(x)
  BY <1>2 DEF Energized, TypeOK, PinTypeOK
<1>3. CASE apply_safe_outputs
  <2>1. pin[x] \in PinState
    BY DEF TypeOK, PinTypeOK
  <2>2. pwm_configured_[x] => pin'[x].mux = "pwm" /\ pin'[x].duty = 0
    BY <1>3, <2>1 DEF apply_safe_outputs, AnalogWriteTo, PinState
  <2>3. ~pwm_configured_[x] => pin'[x] = pin[x]
    BY <1>3 DEF apply_safe_outputs
  <2> QED
    BY <2>2, <2>3 DEF Energized
<1>4. CASE SystemCommand \/ Update \/ Tick
  BY <1>1, <1>3, <1>4 DEF SystemCommand, Heartbeat, EmergencyStop,
       ClearEmergencyStop, ResetConfig, Malformed, Nack, OtherCommand, Update, Tick,
       pinVars
<1>5. CASE DacCommand
  BY <1>1, <1>5 DEF DacCommand, AnyI2cWrite, ConfigI2cBus, I2cWrite, ConfigDac,
       DacWriteRaw, DacWriteNormalized, AckDac, Nack, pinVars
<1>6. CASE PinCommand
  <2> PICK p \in PinArgs :
        \/ \E v \in BOOLEAN : ConfigDigitalOutput(p, v)
        \/ ConfigDigitalInput(p)
        \/ \E v \in BOOLEAN : DigitalWrite(p, v)
        \/ \E d \in Duties : ConfigPwm(p, d)
        \/ \E d \in Duties : PwmWrite(p, d)
        \/ PwmDisable(p)
        \/ \E q \in PinArgs : ConfigEncoder(p, q)
    BY <1>6 DEF PinCommand
  <2> DEFINE s == pin[p]
  <2>a. p \in Pins => s \in PinState
    BY DEF TypeOK, PinTypeOK
  <2>b. ASSUME NEW code, Nack(code) PROVE Energized(x)
    BY <1>1, <2>b DEF Nack, pinVars
  <2> HIDE DEF s
  <2>1. ASSUME NEW v \in BOOLEAN, ConfigDigitalOutput(p, v) PROVE Energized(x)
    <3> DEFINE t == DigitalWriteTo(PinMode(s, "out"), v)
    <3>1. p \in Pins => t \in PinState /\ t.mux = "gpio" /\ t.latch = v
      BY <2>a, PinCalls, PinAssumption DEF PinState, DigitalWriteTo, PinMode
    <3> HIDE DEF t
    <3>2. \/ \E code \in Errors : Nack(code)
          \/ p \in Pins /\ ~v /\ pin' = [pin EXCEPT ![p] = t]
      BY <2>1 DEF ConfigDigitalOutput, Errors, t, s
    <3> QED
      BY <1>2, <2>b, <3>1, <3>2
  <2>2. CASE ConfigDigitalInput(p)
    <3> DEFINE t == PinMode(s, "in")
    <3>1. p \in Pins => t \in PinState /\ t.mux = "gpio" /\ t.dir = "in"
      BY <2>a, PinCalls, PinAssumption DEF PinState, PinMode
    <3> HIDE DEF t
    <3>2. \/ \E code \in Errors : Nack(code)
          \/ p \in Pins /\ pin' = [pin EXCEPT ![p] = t]
      BY <2>2 DEF ConfigDigitalInput, Errors, t, s
    <3> QED
      BY <1>2, <2>b, <3>1, <3>2
  <2>3. ASSUME NEW v \in BOOLEAN, DigitalWrite(p, v) PROVE Energized(x)
    BY <2>3, <2>b DEF DigitalWrite
  <2>4. ASSUME NEW d \in Duties, ConfigPwm(p, d) PROVE Energized(x)
    <3> DEFINE t == AnalogWriteTo(PinMode(s, "out"), d)
    <3>1. p \in Pins => t \in PinState /\ t.mux = "pwm" /\ t.duty = d
      BY <2>a, PinCalls DEF PinState, AnalogWriteTo, PinMode
    <3> HIDE DEF t
    <3>2. \/ \E code \in Errors : Nack(code)
          \/ p \in Pins /\ ~(d > 0) /\ pin' = [pin EXCEPT ![p] = t]
      BY <2>4, PinAssumption DEF ConfigPwm, Errors, t, s
    <3> QED
      BY <1>2, <2>b, <3>1, <3>2
  <2>5. ASSUME NEW d \in Duties, PwmWrite(p, d) PROVE Energized(x)
    BY <2>5, <2>b DEF PwmWrite
  <2>6. CASE PwmDisable(p)
    <3> DEFINE t == AnalogWriteTo(s, 0)
    <3>1. p \in Pins => t \in PinState /\ t.mux = "pwm" /\ t.duty = 0
      BY <2>a, PinCalls, PinAssumption DEF PinState, AnalogWriteTo
    <3> HIDE DEF t
    <3>2. \/ \E code \in Errors : Nack(code)
          \/ p \in Pins /\ pin' = [pin EXCEPT ![p] = t]
      BY <2>6, PinAssumption DEF PwmDisable, Errors, t, s
    <3> QED
      BY <1>2, <2>b, <3>1, <3>2
  <2>7. ASSUME NEW q \in PinArgs, ConfigEncoder(p, q) PROVE Energized(x)
    <3>1. CASE Nack("InvalidPin")
      BY <2>b, <3>1
    <3>2. CASE ~Nack("InvalidPin")
      <4>1. pin' = [y \in Pins |-> IF y \in {p, q} THEN PinMode(pin[y], "in")
                                                   ELSE pin[y]]
        BY <2>7, <3>2 DEF ConfigEncoder
      <4> QED
        BY <4>1 DEF Energized, PinMode, TypeOK, PinTypeOK, PinState
    <3> QED
      BY <3>1, <3>2
  <2> QED
    BY <2>1, <2>2, <2>3, <2>4, <2>5, <2>6, <2>7
<1>7. CASE UNCHANGED vars
  BY <1>1, <1>7 DEF vars, pinVars
<1> QED
  BY <1>4, <1>5, <1>6, <1>7 DEF Next

(* Nothing starts to drive a pin between a stop and the step that clears it. *)
THEOREM StopStartsNothing == Spec => NoEnergizeWhileStopped
<1> DEFINE Quiet ==
      ~outputs_allowed => \A p \in Pins : Energized(p)' => Energized(p)
<1>1. TypeOK /\ [Next]_vars => [Quiet]_vars
  BY StoppedStep
<1> QED
  BY <1>1, TypeCorrect, PTL DEF Spec, NoEnergizeWhileStopped

=============================================================================
