-------------------------- MODULE InterruptsProofs --------------------------
(***************************************************************************)
(* Types of Interrupts, that no interrupt handler outlives the             *)
(* configuration of its slot, that a slot alone on its pins keeps its      *)
(* handlers, and that counters and encoders then count what happens, for   *)
(* any pins, slots, modes and count width.                                 *)
(***************************************************************************)
EXTENDS Interrupts, TLAPS

(* A raised interrupt has a handler, and the slot of a configure_encoder
   under way is already filled: without the two, the handler of NoDanglingIsr
   could be nobody's, or AttachEncoder could attach a cleared slot. *)
IsrInv ==
  /\ TypeOK
  /\ NoDanglingIsr
  /\ \A p \in pending : isr[p] # NobodysPin
  /\ ~Idle => g_encoders[config.id].active

-----------------------------------------------------------------------------
(* A count stays in its width. *)
LEMMA WrapRange == \A n \in Int : Wrap(n) \in 0 .. CountMod - 1
BY InterruptAssumption DEF Wrap

(* The width holds more than a bit. *)
LEMMA SmallCounts == {0, 1} \subseteq 0 .. CountMod - 1
BY InterruptAssumption

(* The two pins of an encoder are a number of two bits. *)
LEMMA StateRange ==
  ASSUME NEW lv \in [Pins -> BOOLEAN], NEW a \in Pins, NEW b \in Pins
  PROVE  encoder_state(a, b, lv) \in 0 .. 3
BY DEF encoder_state

(* encoder_delta looks its step up in a table of 16. *)
LEMMA DeltaRange ==
  \A m, n \in 0 .. 3 : encoder_delta(m, n) \in {-1, 0, 1}
<1>1. SUFFICES ASSUME NEW m \in 0 .. 3, NEW n \in 0 .. 3
               PROVE  encoder_delta(m, n) \in {-1, 0, 1}
  OBVIOUS
<1>2. m \in {0, 1, 2, 3} /\ n \in {0, 1, 2, 3}
  OBVIOUS
<1> QED
  BY <1>2 DEF encoder_delta

(* An active slot has all its fields. *)
LEMMA ActiveSlots ==
  ASSUME TypeOK
  PROVE  /\ \A c \in Counters : g_counters[c].active => g_counters[c] \in CounterSlot
         /\ \A e \in Encoders : g_encoders[e].active => g_encoders[e] \in EncoderSlot
<1>1. \A c \in Counters : g_counters[c] \in CounterSlot \cup {NoSlot}
  BY DEF TypeOK
<1>2. \A e \in Encoders : g_encoders[e] \in EncoderSlot \cup {NoSlot}
  BY DEF TypeOK
<1>3. NoSlot.active = FALSE
  BY DEF NoSlot
<1> QED
  BY <1>1, <1>2, <1>3

(* A slot that is configured is configured on pins of the board. *)
LEMMA PinsOfPins ==
  ASSUME TypeOK, NEW s \in Slots
  PROVE  PinsOf(s) \subseteq Pins
BY ActiveSlots DEF PinsOf, Slots, CounterSlot, EncoderSlot

(* No slot is taken at first. *)
LEMMA IsrInvInitially == Init => IsrInv
BY InterruptAssumption
DEF Init, IsrInv, TypeOK, NoDanglingIsr, Idle, Slots, CounterSlot, EncoderSlot, NoSlot

-----------------------------------------------------------------------------
(* A handler changes counts and samples, never what a slot is configured on. *)
LEMMA TicksKeepPins ==
  ASSUME IsrInv, NEW p \in Pins, Interrupt(p)
  PROVE  /\ TypeOK'
         /\ \A s \in Slots : PinsOf(s)' = PinsOf(s)
         /\ \A e \in Encoders : g_encoders'[e].active = g_encoders[e].active
<1>1. isr[p] \in Slots
  BY DEF Interrupt, IsrInv, TypeOK
<1>2. CASE isr[p] \in Counters
  <2> DEFINE c == isr[p]
  <2>1. CASE g_counters[c].active
    <3>1. g_counters[c] \in CounterSlot
      BY <1>2, <2>1, ActiveSlots DEF IsrInv
    <3>2. g_counters' = [g_counters EXCEPT ![c].count = Wrap(@ + 1)]
      BY <1>2, <2>1 DEF Interrupt, counter_tick
    <3>3. Wrap(g_counters[c].count + 1) \in 0 .. CountMod - 1
      <4>1. g_counters[c].count \in 0 .. CountMod - 1
        BY <3>1 DEF CounterSlot
      <4>2. g_counters[c].count + 1 \in Int
        BY <4>1
      <4> QED
        BY <4>2, WrapRange
    <3>4. /\ g_counters'[c] \in CounterSlot
          /\ g_counters'[c].pin = g_counters[c].pin
          /\ g_counters'[c].active = g_counters[c].active
          /\ g_counters' \in [Counters -> CounterSlot \cup {NoSlot}]
          /\ \A d \in Counters \ {c} : g_counters'[d] = g_counters[d]
      BY <1>2, <3>1, <3>2, <3>3 DEF IsrInv, TypeOK, CounterSlot
    <3>5. /\ g_encoders' = g_encoders
          /\ pending' \subseteq Pins
          /\ UNCHANGED <<isr, trigger, level, config, clash, edges, overrun, turn, missed>>
      BY <1>2 DEF Interrupt, counter_tick, historyVars, IsrInv, TypeOK
    <3>6. TypeOK'
      BY <3>4, <3>5 DEF IsrInv, TypeOK, CounterSlot, EncoderSlot
    <3>7. ASSUME NEW s \in Slots
          PROVE  PinsOf(s)' = PinsOf(s)
      <4>1. CASE s = c
        BY <1>2, <3>4, <4>1 DEF PinsOf
      <4>2. CASE s # c
        BY <3>4, <3>5, <4>2 DEF PinsOf, Slots
      <4> QED
        BY <4>1, <4>2
    <3> QED
      BY <3>5, <3>6, <3>7
  <2>2. CASE ~g_counters[c].active
    BY <1>2, <2>2 DEF Interrupt, counter_tick, IsrInv, TypeOK, PinsOf, Slots, historyVars
  <2> QED
    BY <2>1, <2>2
<1>3. CASE isr[p] \notin Counters
  <2> DEFINE e == isr[p]
             current == encoder_state(g_encoders[e].pin_a, g_encoders[e].pin_b, level)
             delta == encoder_delta(g_encoders[e].last_state, current)
  <2>1. e \in Encoders
    BY <1>1, <1>3 DEF Slots
  <2>2. CASE g_encoders[e].active
    <3>1. g_encoders[e] \in EncoderSlot
      BY <2>1, <2>2, ActiveSlots DEF IsrInv
    <3>2. current \in 0 .. 3
      BY <3>1, StateRange DEF EncoderSlot, IsrInv, TypeOK
    <3>3. delta \in {-1, 0, 1}
      BY <3>1, <3>2, DeltaRange DEF EncoderSlot
    <3>4. Wrap(g_encoders[e].position + delta) \in 0 .. CountMod - 1
      <4> HIDE DEF delta
      <4>1. g_encoders[e].position \in 0 .. CountMod - 1
        BY <3>1 DEF EncoderSlot
      <4>2. g_encoders[e].position + delta \in Int
        BY <3>3, <4>1
      <4> QED
        BY <4>2, WrapRange
    <3>5. g_encoders' = [g_encoders EXCEPT ![e].position = Wrap(@ + delta),
                                           ![e].last_state = current]
      BY <1>3, <2>2 DEF Interrupt, encoder_tick
    <3> HIDE DEF delta, current
    <3>6. /\ g_encoders'[e] \in EncoderSlot
          /\ g_encoders'[e].pin_a = g_encoders[e].pin_a
          /\ g_encoders'[e].pin_b = g_encoders[e].pin_b
          /\ g_encoders'[e].active = g_encoders[e].active
          /\ g_encoders' \in [Encoders -> EncoderSlot \cup {NoSlot}]
          /\ \A d \in Encoders \ {e} : g_encoders'[d] = g_encoders[d]
      BY <2>1, <3>1, <3>2, <3>4, <3>5 DEF IsrInv, TypeOK, EncoderSlot
    <3>7. /\ g_counters' = g_counters
          /\ pending' \subseteq Pins
          /\ UNCHANGED <<isr, trigger, level, config, clash, edges, overrun, turn, missed>>
      BY <1>3 DEF Interrupt, encoder_tick, historyVars, IsrInv, TypeOK
    <3>8. TypeOK'
      BY <3>6, <3>7 DEF IsrInv, TypeOK, CounterSlot, EncoderSlot
    <3>9. ASSUME NEW s \in Slots
          PROVE  PinsOf(s)' = PinsOf(s)
      <4>1. CASE s = e
        BY <1>3, <3>6, <3>7, <4>1 DEF PinsOf
      <4>2. CASE s # e
        BY <3>6, <3>7, <4>2 DEF PinsOf, Slots
      <4> QED
        BY <4>1, <4>2
    <3> QED
      BY <3>6, <3>8, <3>9
  <2>3. CASE ~g_encoders[e].active
    BY <1>3, <2>3 DEF Interrupt, encoder_tick, IsrInv, TypeOK, PinsOf, Slots, historyVars
  <2> QED
    BY <2>2, <2>3
<1> QED
  BY <1>2, <1>3

(* An edge raises interrupts and moves the histories. *)
LEMMA EdgeKeepsTypes ==
  ASSUME TypeOK, NEW p \in Pins, Edge(p)
  PROVE  TypeOK'
<1> DEFINE lv == [level EXCEPT ![p] = ~@]
<1>1. level' = lv /\ lv \in [Pins -> BOOLEAN]
  BY DEF Edge, TypeOK
<1>2. pending' \subseteq Pins
  BY DEF Edge, TypeOK
<1>3. edges' \in [Counters -> 0 .. CountMod - 1]
  BY WrapRange, InterruptAssumption DEF Edge, TypeOK
<1>4. overrun' \subseteq Counters /\ missed' \subseteq Encoders
  BY DEF Edge, TypeOK
<1>5. turn' \in [Encoders -> 0 .. CountMod - 1]
  <2>1. \A m, n : QuarterTurn(m, n) \in Int
    BY DEF QuarterTurn
  <2>2. \A e \in Encoders : \A m, n : Wrap(turn[e] + QuarterTurn(m, n)) \in 0 .. CountMod - 1
    BY <2>1, WrapRange, InterruptAssumption DEF TypeOK
  <2> QED
    BY <2>2 DEF Edge, TypeOK
<1> QED
  BY <1>1, <1>2, <1>3, <1>4, <1>5 DEF Edge, TypeOK, slotVars, CounterSlot, EncoderSlot

-----------------------------------------------------------------------------
(* One case per action: the pins of the slot that is (re)configured, and the
   handlers of the pins it leaves and takes. *)
LEMMA IsrInvInductive == IsrInv /\ [Next]_vars => IsrInv'
<1> SUFFICES ASSUME IsrInv, [Next]_vars
             PROVE  IsrInv'
  OBVIOUS
<1> USE DEF IsrInv
<1>0. ASSUME NEW s \in Slots
      PROVE  PinsOf(s) \subseteq Pins
  BY PinsOfPins
<1>1. ASSUME NEW c \in Counters, NEW p \in PinArgs,
             NEW edge \in {"Rising", "Falling", "Both"}, configure_counter(c, p, edge)
      PROVE  IsrInv'
  <2>1. c \in Slots /\ p \in Pins
    BY <1>1 DEF configure_counter, Slots
  <2>2. g_counters' = [g_counters EXCEPT ![c] =
                         [active |-> TRUE, pin |-> p, edge |-> edge, count |-> 0]]
    BY <1>1 DEF configure_counter
  <2>3. g_counters' \in [Counters -> CounterSlot \cup {NoSlot}]
    <3>1. [active |-> TRUE, pin |-> p, edge |-> edge, count |-> 0] \in CounterSlot
      BY <1>1, <2>1, SmallCounts DEF CounterSlot
    <3> QED
      BY <2>2, <3>1 DEF TypeOK
  <2>4. isr' = [q \in Pins |-> IF q = p THEN c
                               ELSE IF q \in PinsOf(c) THEN NobodysPin ELSE isr[q]]
    BY <1>1 DEF configure_counter
  <2>5. TypeOK'
    <3>1. clash' \subseteq Slots
      BY <1>1, <2>1 DEF configure_counter, TypeOK, NewClash, Sharers
    <3>2. isr' \in [Pins -> Slots \cup {NobodysPin}]
      BY <2>1, <2>4 DEF TypeOK
    <3>3. edges' \in [Counters -> 0 .. CountMod - 1] /\ overrun' \subseteq Counters
      BY <1>1, InterruptAssumption DEF configure_counter, TypeOK
    <3> QED
      BY <1>1, <2>3, <3>1, <3>2, <3>3
      DEF configure_counter, TypeOK, EncoderSlot, Idle
  <2>6. PinsOf(c)' = {p}
    BY <1>1, <2>2 DEF PinsOf, TypeOK
  <2>7. ASSUME NEW s \in Slots \ {c}
        PROVE  PinsOf(s)' = PinsOf(s)
    BY <1>1, <2>2 DEF PinsOf, configure_counter, Slots, TypeOK
  <2>8. NoDanglingIsr'
    BY <2>1, <2>4, <2>6, <2>7 DEF NoDanglingIsr, TypeOK
  <2>9. \A q \in pending' : isr'[q] # NobodysPin
    <3>1. pending' = pending \ (PinsOf(c) \cup {p})
      BY <1>1 DEF configure_counter
    <3> QED
      BY <2>4, <3>1 DEF TypeOK
  <2> QED
    BY <1>1, <2>5, <2>8, <2>9 DEF configure_counter, Idle
<1>2. ASSUME NEW c \in Counters, CounterReset(c)
      PROVE  IsrInv'
  <2>1. g_counters[c] \in CounterSlot
    BY <1>2, ActiveSlots DEF CounterReset
  <2>2. /\ g_counters' \in [Counters -> CounterSlot \cup {NoSlot}]
        /\ g_counters'[c].active = g_counters[c].active
        /\ g_counters'[c].pin = g_counters[c].pin
        /\ \A d \in Counters \ {c} : g_counters'[d] = g_counters[d]
    <3>1. g_counters' = [g_counters EXCEPT ![c] = [g_counters[c] EXCEPT !.count = 0]]
      BY <1>2 DEF CounterReset
    <3>2. /\ [g_counters[c] EXCEPT !.count = 0] \in CounterSlot
          /\ [g_counters[c] EXCEPT !.count = 0].active = g_counters[c].active
          /\ [g_counters[c] EXCEPT !.count = 0].pin = g_counters[c].pin
      BY <2>1, SmallCounts DEF CounterSlot
    <3> QED
      BY <3>1, <3>2 DEF TypeOK
  <2>3. edges' \in [Counters -> 0 .. CountMod - 1]
    <3> DEFINE n == IF g_counters[c].pin \in pending THEN 1 ELSE 0
    <3>1. n \in 0 .. CountMod - 1
      BY SmallCounts
    <3>2. edges' = [edges EXCEPT ![c] = n]
      BY <1>2 DEF CounterReset
    <3> HIDE DEF n
    <3> QED
      BY <3>1, <3>2 DEF TypeOK
  <2>4. TypeOK'
    BY <1>2, <2>2, <2>3 DEF CounterReset, TypeOK, irqVars, EncoderSlot
  <2>5. ASSUME NEW s \in Slots
        PROVE  PinsOf(s)' = PinsOf(s)
    BY <1>2, <2>2 DEF PinsOf, CounterReset, Slots
  <2> QED
    BY <1>2, <2>4, <2>5 DEF CounterReset, irqVars, NoDanglingIsr, Idle, TypeOK
<1>3. ASSUME NEW e \in Encoders, NEW a \in PinArgs, NEW b \in PinArgs, NEW m \in Modes,
             configure_encoder(e, a, b, m)
      PROVE  IsrInv'
  <2> DEFINE slot == [active |-> TRUE, pin_a |-> a, pin_b |-> b, mode |-> m,
                      position |-> 0, last_state |-> 0]
  <2>1. e \in Slots /\ e \notin Counters /\ a \in Pins /\ b \in Pins
    BY <1>3, InterruptAssumption DEF configure_encoder, Slots
  <2>2. g_encoders' = [g_encoders EXCEPT ![e] = slot] /\ UNCHANGED g_counters
    BY <1>3 DEF configure_encoder
  <2>3. g_encoders' \in [Encoders -> EncoderSlot \cup {NoSlot}]
    <3>1. slot \in EncoderSlot
      BY <1>3, <2>1, SmallCounts DEF EncoderSlot
    <3> QED
      BY <2>2, <3>1 DEF TypeOK
  <2>4. /\ isr' = [q \in Pins |-> IF q \in PinsOf(e) THEN NobodysPin ELSE isr[q]]
        /\ pending' = pending \ PinsOf(e)
    BY <1>3 DEF configure_encoder
  <2>5. TypeOK'
    <3>1. clash' \subseteq Slots
      BY <1>3, <2>1 DEF configure_encoder, TypeOK, NewClash, Sharers
    <3>2. isr' \in [Pins -> Slots \cup {NobodysPin}]
      BY <2>4 DEF TypeOK
    <3>3. config' \in [step : {"sample", "attach_a", "attach_b"}, id : Encoders]
      BY <1>3 DEF configure_encoder
    <3> QED
      BY <1>3, <2>2, <2>3, <2>4, <3>1, <3>2, <3>3
      DEF configure_encoder, TypeOK, CounterSlot
  <2>6. ASSUME NEW s \in Slots \ {e}
        PROVE  PinsOf(s)' = PinsOf(s)
    BY <2>2 DEF PinsOf, Slots, TypeOK
  <2>7. NoDanglingIsr'
    BY <2>4, <2>6 DEF NoDanglingIsr, TypeOK
  <2>8. \A q \in pending' : isr'[q] # NobodysPin
    BY <2>4 DEF TypeOK
  <2>9. g_encoders'[config'.id].active
    BY <1>3, <2>2 DEF configure_encoder, TypeOK
  <2> QED
    BY <2>5, <2>7, <2>8, <2>9
<1>4. ASSUME SampleEncoder
      PROVE  IsrInv'
  <2> DEFINE e == config.id
             s == g_encoders[e]
             sampled == encoder_state(s.pin_a, s.pin_b, level)
  <2>1. e \in Encoders /\ config \in [step : {"sample", "attach_a", "attach_b"},
                                      id : Encoders]
    BY <1>4 DEF SampleEncoder, TypeOK
  <2>2. s \in EncoderSlot
    BY <1>4, <2>1, ActiveSlots DEF SampleEncoder, Idle
  <2>3. sampled \in 0 .. 3
    BY <2>2, StateRange DEF EncoderSlot, TypeOK
  <2>4. /\ g_encoders' = [g_encoders EXCEPT ![e].last_state = sampled]
        /\ turn' = [turn EXCEPT ![e] = 0]
        /\ missed' = missed \ {e}
    BY <1>4 DEF SampleEncoder
  <2> HIDE DEF sampled
  <2>5. /\ g_encoders' \in [Encoders -> EncoderSlot \cup {NoSlot}]
        /\ g_encoders'[e].active /\ s.active
        /\ g_encoders'[e].pin_a = s.pin_a
        /\ g_encoders'[e].pin_b = s.pin_b
        /\ \A d \in Encoders \ {e} : g_encoders'[d] = g_encoders[d]
    BY <2>1, <2>2, <2>3, <2>4 DEF TypeOK, EncoderSlot
  <2>6. config' = [config EXCEPT !.step = "attach_a"]
    BY <1>4 DEF SampleEncoder
  <2>7. config' \in [step : {"sample", "attach_a", "attach_b"}, id : Encoders]
        /\ config'.id = e
    BY <2>1, <2>6
  <2>8. turn' \in [Encoders -> 0 .. CountMod - 1]
    BY <2>4, SmallCounts DEF TypeOK
  <2>9. TypeOK'
    BY <1>4, <2>4, <2>5, <2>7, <2>8 DEF SampleEncoder, TypeOK, irqVars, CounterSlot
  <2>10. ASSUME NEW t \in Slots
         PROVE  PinsOf(t)' = PinsOf(t)
    <3>1. g_counters' = g_counters
      BY <1>4 DEF SampleEncoder
    <3>2. CASE t = e
      BY <2>5, <3>1, <3>2 DEF PinsOf
    <3>3. CASE t # e
      BY <2>5, <3>1, <3>3 DEF PinsOf, Slots
    <3> QED
      BY <3>2, <3>3
  <2> QED
    BY <1>4, <2>5, <2>7, <2>9, <2>10 DEF SampleEncoder, irqVars, NoDanglingIsr, TypeOK
<1>5. ASSUME AttachEncoder
      PROVE  IsrInv'
  <2> DEFINE e == config.id
             p == IF config.step = "attach_a" THEN g_encoders[e].pin_a
                                              ELSE g_encoders[e].pin_b
  <2>1. config \in [step : {"sample", "attach_a", "attach_b"}, id : Encoders]
    BY <1>5 DEF AttachEncoder, TypeOK
  <2>2. e \in Encoders /\ e \notin Counters /\ g_encoders[e].active
    BY <1>5, <2>1, InterruptAssumption DEF AttachEncoder, Idle
  <2>3. p \in PinsOf(e) /\ p \in Pins /\ e \in Slots
    BY <1>0, <2>2 DEF PinsOf, Slots
  <2>4. /\ isr' = [isr EXCEPT ![p] = e]
        /\ trigger' = [trigger EXCEPT ![p] = "Both"]
        /\ pending' = pending \ {p}
        /\ UNCHANGED <<g_counters, g_encoders, level, clash, edges, overrun, turn, missed>>
    BY <1>5 DEF AttachEncoder, slotVars, historyVars
  <2> HIDE DEF p
  <2>5. /\ config' \in [step : {"done"}]
                \cup [step : {"sample", "attach_a", "attach_b"}, id : Encoders]
        /\ ~Idle' => config'.id = e
    BY <1>5, <2>1 DEF AttachEncoder, Idle
  <2>6. TypeOK'
    BY <2>3, <2>4, <2>5 DEF TypeOK, CounterSlot, EncoderSlot
  <2>7. \A t \in Slots : PinsOf(t)' = PinsOf(t)
    BY <2>4 DEF PinsOf
  <2>8. NoDanglingIsr'
    BY <2>3, <2>4, <2>7 DEF NoDanglingIsr, TypeOK
  <2>9. \A q \in pending' : isr'[q] # NobodysPin
    BY <2>4 DEF TypeOK
  <2> QED
    BY <2>2, <2>4, <2>5, <2>6, <2>8, <2>9
<1>6. ASSUME NEW e \in Encoders, EncoderReset(e)
      PROVE  IsrInv'
  <2> DEFINE s == g_encoders[e]
             step == encoder_delta(s.last_state, encoder_state(s.pin_a, s.pin_b, level))
             slot == [s EXCEPT !.position = 0]
  <2>1. s \in EncoderSlot
    BY <1>6, ActiveSlots DEF EncoderReset
  <2>2. step \in {-1, 0, 1}
    <3>1. encoder_state(s.pin_a, s.pin_b, level) \in 0 .. 3
      BY <2>1, StateRange DEF EncoderSlot, TypeOK
    <3> QED
      BY <2>1, <3>1, DeltaRange DEF EncoderSlot
  <2>3. g_encoders' = [g_encoders EXCEPT ![e] = slot]
    BY <1>6 DEF EncoderReset
  <2>4. slot \in EncoderSlot /\ slot.active = s.active /\ slot.pin_a = s.pin_a
                            /\ slot.pin_b = s.pin_b
    BY <2>1, SmallCounts DEF EncoderSlot
  <2>5. turn' = [turn EXCEPT ![e] = Wrap(step)]
    BY <1>6 DEF EncoderReset
  <2> HIDE DEF step, slot
  <2>6. turn' \in [Encoders -> 0 .. CountMod - 1]
    <3>1. Wrap(step) \in 0 .. CountMod - 1
      BY <2>2, WrapRange
    <3> QED
      BY <2>5, <3>1 DEF TypeOK
  <2>7. TypeOK'
    BY <1>6, <2>3, <2>4, <2>6 DEF EncoderReset, TypeOK, irqVars, CounterSlot
  <2>8. ASSUME NEW t \in Slots
        PROVE  PinsOf(t)' = PinsOf(t)
    BY <1>6, <2>3, <2>4 DEF PinsOf, EncoderReset, Slots, TypeOK
  <2>9. \A d \in Encoders : g_encoders'[d].active = g_encoders[d].active
    BY <2>3, <2>4 DEF TypeOK
  <2> QED
    BY <1>6, <2>7, <2>8, <2>9 DEF EncoderReset, irqVars, NoDanglingIsr, Idle, TypeOK
<1>7. ASSUME ResetConfig
      PROVE  IsrInv'
  <2> DEFINE held == UNION {PinsOf(s) : s \in Slots}
  <2>1. /\ isr' = [p \in Pins |-> IF p \in held THEN NobodysPin ELSE isr[p]]
        /\ pending' = pending \ held
    BY <1>7 DEF ResetConfig
  <2>2. \A p \in Pins : isr'[p] = NobodysPin
    <3>1. \A p \in Pins : isr[p] # NobodysPin => p \in held
      BY DEF NoDanglingIsr, TypeOK
    <3> HIDE DEF held
    <3> QED
      BY <2>1, <3>1
  <2>3. pending' = {}
    <3>1. \A p \in pending : p \in held
      BY DEF NoDanglingIsr, TypeOK
    <3> HIDE DEF held
    <3> QED
      BY <2>1, <3>1
  <2>4. TypeOK'
    <3>1. isr' \in [Pins -> Slots \cup {NobodysPin}]
      <4> HIDE DEF held
      <4> QED
        BY <2>1 DEF TypeOK
    <3> QED
      BY <1>7, <2>3, <3>1 DEF ResetConfig, TypeOK
  <2> QED
    BY <1>7, <2>2, <2>3, <2>4 DEF ResetConfig, NoDanglingIsr, Idle
<1>8. ASSUME NEW p \in Pins, Interrupt(p)
      PROVE  IsrInv'
  <2>1. /\ TypeOK'
        /\ \A s \in Slots : PinsOf(s)' = PinsOf(s)
        /\ \A e \in Encoders : g_encoders'[e].active = g_encoders[e].active
    BY <1>8, TicksKeepPins
  <2>2. isr' = isr /\ pending' = pending \ {p} /\ config' = config
    BY <1>8 DEF Interrupt
  <2> QED
    BY <2>1, <2>2 DEF NoDanglingIsr, Idle, TypeOK
<1>9. ASSUME NEW p \in Pins, Edge(p)
      PROVE  IsrInv'
  <2>1. TypeOK'
    BY <1>9, EdgeKeepsTypes
  <2>2. /\ UNCHANGED <<g_counters, g_encoders, isr, config>>
        /\ pending' \subseteq pending \cup {p}
        /\ p \in pending' \ pending => isr[p] # NobodysPin
    BY <1>9 DEF Edge, slotVars
  <2>3. \A s \in Slots : PinsOf(s)' = PinsOf(s)
    BY <2>2 DEF PinsOf
  <2> QED
    BY <2>1, <2>2, <2>3 DEF NoDanglingIsr, Idle, TypeOK
<1>10. ASSUME UNCHANGED vars
       PROVE  IsrInv'
  <2>1. UNCHANGED <<g_counters, g_encoders, isr, trigger, pending, level, config,
                    clash, edges, overrun, turn, missed>>
    BY <1>10 DEF vars, slotVars, irqVars, historyVars
  <2>2. TypeOK'
    BY <2>1 DEF TypeOK, CounterSlot, EncoderSlot
  <2>3. \A s \in Slots : PinsOf(s)' = PinsOf(s)
    BY <2>1 DEF PinsOf
  <2> QED
    BY <2>1, <2>2, <2>3 DEF NoDanglingIsr, Idle, TypeOK
<1> QED
  BY <1>1, <1>2, <1>3, <1>4, <1>5, <1>6, <1>7, <1>8, <1>9, <1>10 DEF Next

-----------------------------------------------------------------------------
(* The variables of Interrupts keep their types: counts and positions stay
   in their width, and a slot is cleared or configured on pins of the board. *)
THEOREM InterruptTypes == Spec => []TypeOK
<1>1. IsrInv => TypeOK
  BY DEF IsrInv
<1> QED
  BY <1>1, IsrInvInitially, IsrInvInductive, PTL DEF Spec

(* No interrupt handler serves a slot that is not configured on its pin
   (configure_counter, configure_encoder and ResetConfig). *)
THEOREM NoHandlerDangles == Spec => []NoDanglingIsr
<1>1. IsrInv => NoDanglingIsr
  BY DEF IsrInv
<1> QED
  BY <1>1, IsrInvInitially, IsrInvInductive, PTL DEF Spec

-----------------------------------------------------------------------------
(* A handler that configure_encoder has still to attach. *)
NotYet(s, p) ==
  /\ ~Idle
  /\ config.id = s
  /\ config.step = "attach_b" => p # g_encoders[s].pin_a

SharingIsNoted ==
  \A s, t \in Slots : s # t /\ PinsOf(s) \cap PinsOf(t) # {} => s \in clash

HasHandlers ==
  \A s \in Slots \ clash : \A p \in PinsOf(s) : isr[p] = s \/ NotYet(s, p)

(* A slot outside clash shares no pin now, so a configuration that detaches
   another slot's pins, or takes a pin, leaves its handlers alone. *)
AttachInv == SharingIsNoted /\ HasHandlers

(* Steps that move no pin, no handler and no configuration. *)
LEMMA AttachInvKept ==
  ASSUME AttachInv, \A s \in Slots : PinsOf(s)' = PinsOf(s),
         UNCHANGED <<isr, config, clash>>,
         ~Idle => g_encoders'[config.id].pin_a = g_encoders[config.id].pin_a
  PROVE  AttachInv'
<1>1. \A s, p : NotYet(s, p)' = NotYet(s, p)
  BY DEF NotYet, Idle
<1> QED
  BY <1>1 DEF AttachInv, SharingIsNoted, HasHandlers

(* The configuration of s on ps: it leaves its old pins, takes those of ps
   for itself or for AttachEncoder to come, and notes whom it shares with. *)
LEMMA AttachInvConfigured ==
  ASSUME IsrInv, AttachInv, Idle, NEW s \in Slots, NEW ps \in SUBSET Pins,
         PinsOf(s)' = ps,
         \A t \in Slots \ {s} : PinsOf(t)' = PinsOf(t),
         \A q \in Pins \ ps : isr'[q] = isr[q] \/ q \in PinsOf(s),
         \A t \in Slots \ {s} : \A q \in Pins :
            isr[q] = t /\ q \notin PinsOf(s) \cup ps => isr'[q] = t,
         NewClash(s, ps) \subseteq clash',
         s \notin clash' => \A q \in ps : (isr[q] = s \/ NotYet(s, q))'
  PROVE  AttachInv'
<1>1. \A t \in Slots \ {s} : t \notin clash' => t \notin clash /\ PinsOf(t) \cap ps = {}
  BY DEF NewClash, Sharers
<1>2. ASSUME NEW t \in Slots \ {s}, PinsOf(t) \cap ps # {}
      PROVE  s \in clash'
  BY <1>2 DEF NewClash, Sharers
<1>3. SharingIsNoted'
  <2> SUFFICES ASSUME NEW u \in Slots, NEW t \in Slots, u # t,
                      PinsOf(u)' \cap PinsOf(t)' # {}, u \notin clash'
               PROVE  FALSE
    BY DEF SharingIsNoted
  <2>1. CASE u = s
    BY <1>2, <2>1
  <2>2. CASE t = s
    BY <1>1, <2>2
  <2>3. CASE u # s /\ t # s
    BY <1>1, <2>3 DEF AttachInv, SharingIsNoted
  <2> QED
    BY <2>1, <2>2, <2>3
<1>4. HasHandlers'
  <2> SUFFICES ASSUME NEW t \in Slots, t \notin clash', NEW q \in PinsOf(t)'
               PROVE  (isr[q] = t \/ NotYet(t, q))'
    BY DEF HasHandlers
  <2>1. CASE t = s
    BY <2>1
  <2>2. CASE t # s
    <3>1. q \in PinsOf(t) /\ t \notin clash /\ q \notin ps
      BY <1>1, <2>2
    <3>2. q \in Pins
      BY <3>1, PinsOfPins DEF IsrInv
    <3>3. q \notin PinsOf(s)
      BY <2>2, <3>1 DEF AttachInv, SharingIsNoted
    <3>4. isr[q] = t
      BY <3>1 DEF AttachInv, HasHandlers, NotYet
    <3> QED
      BY <2>2, <3>1, <3>2, <3>3, <3>4
  <2> QED
    BY <2>1, <2>2
<1> QED
  BY <1>3, <1>4 DEF AttachInv

(* No interrupt is attached at first. *)
LEMMA AttachInvInitially == Init => AttachInv
BY InterruptAssumption
DEF Init, AttachInv, SharingIsNoted, HasHandlers, PinsOf, Slots, NoSlot

(* Every step keeps AttachInv. *)
LEMMA AttachInvInductive == IsrInv /\ AttachInv /\ [Next]_vars => AttachInv'
<1> SUFFICES ASSUME IsrInv, AttachInv, [Next]_vars
             PROVE  AttachInv'
  OBVIOUS
<1>1. ASSUME NEW c \in Counters, NEW p \in PinArgs,
             NEW edge \in {"Rising", "Falling", "Both"}, configure_counter(c, p, edge)
      PROVE  AttachInv'
  <2>1. Idle /\ c \in Slots /\ p \in Pins
    BY <1>1 DEF configure_counter, Slots
  <2>2. g_counters' = [g_counters EXCEPT ![c] =
                         [active |-> TRUE, pin |-> p, edge |-> edge, count |-> 0]]
    BY <1>1 DEF configure_counter
  <2>3. PinsOf(c)' = {p}
    BY <1>1, <2>2 DEF PinsOf, IsrInv, TypeOK
  <2>4. \A t \in Slots \ {c} : PinsOf(t)' = PinsOf(t)
    BY <1>1, <2>2 DEF PinsOf, configure_counter, Slots, IsrInv, TypeOK
  <2>5. /\ isr' = [q \in Pins |-> IF q = p THEN c
                                  ELSE IF q \in PinsOf(c) THEN NobodysPin ELSE isr[q]]
        /\ clash' = NewClash(c, {p})
    BY <1>1 DEF configure_counter
  <2>6. {p} \in SUBSET Pins
    BY <2>1
  <2>7. \A q \in {p} : (isr[q] = c \/ NotYet(c, q))'
    BY <2>1, <2>5
  <2>8. \A t \in Slots \ {c} : \A q \in Pins :
          isr[q] = t /\ q \notin PinsOf(c) \cup {p} => isr'[q] = t
    BY <2>5
  <2>9. \A q \in Pins \ {p} : isr'[q] = isr[q] \/ q \in PinsOf(c)
    BY <2>5
  <2> QED
    BY <2>1, <2>3, <2>4, <2>5, <2>6, <2>7, <2>8, <2>9, AttachInvConfigured
<1>2. ASSUME NEW c \in Counters, CounterReset(c)
      PROVE  AttachInv'
  <2>1. g_counters[c] \in CounterSlot
    BY <1>2, ActiveSlots DEF CounterReset, IsrInv
  <2>2. /\ g_counters'[c].active = g_counters[c].active
        /\ g_counters'[c].pin = g_counters[c].pin
        /\ \A d \in Counters \ {c} : g_counters'[d] = g_counters[d]
    BY <1>2, <2>1 DEF CounterReset, CounterSlot, IsrInv, TypeOK
  <2>3. \A s \in Slots : PinsOf(s)' = PinsOf(s)
    BY <1>2, <2>2 DEF PinsOf, CounterReset, Slots
  <2> QED
    BY <1>2, <2>3, AttachInvKept DEF CounterReset, irqVars
<1>3. ASSUME NEW e \in Encoders, NEW a \in PinArgs, NEW b \in PinArgs, NEW m \in Modes,
             configure_encoder(e, a, b, m)
      PROVE  AttachInv'
  <2> DEFINE slot == [active |-> TRUE, pin_a |-> a, pin_b |-> b, mode |-> m,
                      position |-> 0, last_state |-> 0]
  <2>1. Idle /\ e \in Slots /\ e \notin Counters /\ {a, b} \in SUBSET Pins
    BY <1>3, InterruptAssumption DEF configure_encoder, Slots
  <2>2. g_encoders' = [g_encoders EXCEPT ![e] = slot] /\ UNCHANGED g_counters
    BY <1>3 DEF configure_encoder
  <2>3. slot.active /\ slot.pin_a = a /\ slot.pin_b = b
    OBVIOUS
  <2> HIDE DEF slot
  <2>4. PinsOf(e)' = {a, b}
    BY <2>1, <2>2, <2>3 DEF PinsOf, IsrInv, TypeOK
  <2>5. \A t \in Slots \ {e} : PinsOf(t)' = PinsOf(t)
    BY <2>2 DEF PinsOf, Slots, IsrInv, TypeOK
  <2>6. /\ isr' = [q \in Pins |-> IF q \in PinsOf(e) THEN NobodysPin ELSE isr[q]]
        /\ config' = [step |-> "sample", id |-> e]
        /\ clash' = IF a = b THEN NewClash(e, {a}) \cup {e} ELSE NewClash(e, {a, b})
    BY <1>3 DEF configure_encoder
  <2>7. NewClash(e, {a, b}) \subseteq clash'
    <3>1. a = b => {a, b} = {a}
      OBVIOUS
    <3> QED
      BY <2>6, <3>1
  <2>8. \A q \in {a, b} : NotYet(e, q)'
    BY <2>6 DEF NotYet, Idle
  <2>9. \A t \in Slots \ {e} : \A q \in Pins :
          isr[q] = t /\ q \notin PinsOf(e) \cup {a, b} => isr'[q] = t
    BY <2>6
  <2>10. \A q \in Pins \ {a, b} : isr'[q] = isr[q] \/ q \in PinsOf(e)
    BY <2>6
  <2> QED
    BY <2>1, <2>4, <2>5, <2>7, <2>8, <2>9, <2>10, AttachInvConfigured
<1>4. ASSUME SampleEncoder
      PROVE  AttachInv'
  <2> DEFINE e == config.id
             s == g_encoders[e]
             sampled == encoder_state(s.pin_a, s.pin_b, level)
  <2>1. config \in [step : {"sample", "attach_a", "attach_b"}, id : Encoders]
    BY <1>4 DEF SampleEncoder, IsrInv, TypeOK
  <2>2. s \in EncoderSlot
    BY <1>4, <2>1, ActiveSlots DEF SampleEncoder, Idle, IsrInv
  <2>3. /\ g_encoders' = [g_encoders EXCEPT ![e].last_state = sampled]
        /\ config' = [config EXCEPT !.step = "attach_a"]
        /\ UNCHANGED <<g_counters, isr, clash>>
    BY <1>4 DEF SampleEncoder, irqVars
  <2> HIDE DEF sampled
  <2>4. /\ g_encoders'[e].active = s.active
        /\ g_encoders'[e].pin_a = s.pin_a
        /\ g_encoders'[e].pin_b = s.pin_b
        /\ \A d \in Encoders \ {e} : g_encoders'[d] = g_encoders[d]
    BY <2>1, <2>2, <2>3 DEF IsrInv, TypeOK, EncoderSlot
  <2>5. \A t \in Slots : PinsOf(t)' = PinsOf(t)
    <3> TAKE t \in Slots
    <3>1. CASE t = e
      BY <2>3, <2>4, <3>1 DEF PinsOf
    <3>2. CASE t # e
      BY <2>3, <2>4, <3>2 DEF PinsOf, Slots
    <3> QED
      BY <3>1, <3>2
  <2>6. config.step = "sample" /\ config'.step = "attach_a" /\ config'.id = e
    BY <1>4, <2>1, <2>3 DEF SampleEncoder
  <2>7. \A t, p : NotYet(t, p) => NotYet(t, p)'
    BY <2>6 DEF NotYet, Idle
  <2> QED
    BY <2>3, <2>5, <2>7 DEF AttachInv, SharingIsNoted, HasHandlers
<1>5. ASSUME AttachEncoder
      PROVE  AttachInv'
  <2> DEFINE e == config.id
             p == IF config.step = "attach_a" THEN g_encoders[e].pin_a
                                              ELSE g_encoders[e].pin_b
  <2>1. config \in [step : {"sample", "attach_a", "attach_b"}, id : Encoders]
    BY <1>5 DEF AttachEncoder, IsrInv, TypeOK
  <2>2. e \in Encoders /\ e \notin Counters /\ g_encoders[e].active
    BY <1>5, <2>1, InterruptAssumption DEF AttachEncoder, Idle, IsrInv
  <2>3. /\ PinsOf(e) = {g_encoders[e].pin_a, g_encoders[e].pin_b}
        /\ p \in PinsOf(e) /\ p \in Pins /\ e \in Slots
    BY <2>2, PinsOfPins DEF PinsOf, Slots, IsrInv
  <2>4. /\ isr' = [isr EXCEPT ![p] = e]
        /\ config' = IF config.step = "attach_a"
                       THEN [config EXCEPT !.step = "attach_b"] ELSE [step |-> "done"]
        /\ UNCHANGED <<g_counters, g_encoders, clash>>
    BY <1>5 DEF AttachEncoder, slotVars, historyVars
  <2>5. \A t \in Slots : PinsOf(t)' = PinsOf(t)
    BY <2>4 DEF PinsOf
  <2>6. ASSUME NEW t \in Slots, t \notin clash, NEW q \in PinsOf(t)
        PROVE  (isr[q] = t \/ NotYet(t, q))'
    <3>1. q \in Pins /\ (isr[q] = t \/ NotYet(t, q))
      BY <2>6, PinsOfPins DEF IsrInv, AttachInv, HasHandlers
    <3>2. CASE t # e
      <4>1. isr[q] = t
        BY <3>1, <3>2 DEF NotYet
      <4>2. q # p
        BY <2>3, <2>6, <3>2 DEF AttachInv, SharingIsNoted
      <4> HIDE DEF p
      <4> QED
        BY <2>4, <3>1, <4>1, <4>2 DEF IsrInv, TypeOK
    <3>3. CASE t = e /\ q = p
      <4> HIDE DEF p
      <4> QED
        BY <2>3, <2>4, <3>3 DEF IsrInv, TypeOK
    <3>4. CASE t = e /\ q # p /\ config.step = "attach_a"
      <4>1. config'.step = "attach_b" /\ config'.id = e
        BY <2>1, <2>4, <3>4
      <4> QED
        BY <2>4, <3>4, <4>1 DEF NotYet, Idle
    <3>5. CASE t = e /\ q # p /\ config.step # "attach_a"
      <4>1. config.step = "attach_b" /\ q = g_encoders[e].pin_a
        BY <1>5, <2>3, <2>6, <3>5 DEF AttachEncoder
      <4>2. isr[q] = t
        BY <3>1, <3>5, <4>1 DEF NotYet
      <4> HIDE DEF p
      <4> QED
        BY <2>4, <3>1, <3>5, <4>2 DEF IsrInv, TypeOK
    <3> QED
      BY <3>2, <3>3, <3>4, <3>5
  <2> QED
    BY <2>4, <2>5, <2>6 DEF AttachInv, SharingIsNoted, HasHandlers
<1>6. ASSUME NEW e \in Encoders, EncoderReset(e)
      PROVE  AttachInv'
  <2>1. g_encoders[e] \in EncoderSlot
    BY <1>6, ActiveSlots DEF EncoderReset, IsrInv
  <2>2. /\ g_encoders'[e].active = g_encoders[e].active
        /\ g_encoders'[e].pin_a = g_encoders[e].pin_a
        /\ g_encoders'[e].pin_b = g_encoders[e].pin_b
        /\ \A d \in Encoders \ {e} : g_encoders'[d] = g_encoders[d]
    BY <1>6, <2>1 DEF EncoderReset, EncoderSlot, IsrInv, TypeOK
  <2>3. \A t \in Slots : PinsOf(t)' = PinsOf(t)
    BY <1>6, <2>2 DEF PinsOf, EncoderReset, Slots
  <2> QED
    BY <1>6, <2>3, AttachInvKept DEF EncoderReset, irqVars
<1>7. ASSUME ResetConfig
      PROVE  AttachInv'
  <2>1. \A s \in Slots : PinsOf(s)' = {}
    BY <1>7 DEF ResetConfig, PinsOf, Slots, NoSlot
  <2> QED
    BY <2>1 DEF AttachInv, SharingIsNoted, HasHandlers
<1>8. ASSUME NEW p \in Pins, Interrupt(p)
      PROVE  AttachInv'
  <2>1. \A s \in Slots : PinsOf(s)' = PinsOf(s)
    BY <1>8, TicksKeepPins
  <2>2. UNCHANGED <<isr, config, clash>>
    BY <1>8 DEF Interrupt, historyVars
  <2>3. ASSUME NEW e \in Encoders, g_encoders[e].active
        PROVE  g_encoders'[e].pin_a = g_encoders[e].pin_a
    <3>1. g_encoders[e] \in EncoderSlot
      BY <2>3, ActiveSlots DEF IsrInv
    <3>2. CASE isr[p] \in Counters
      BY <1>8, <3>2 DEF Interrupt, counter_tick
    <3>3. CASE isr[p] \notin Counters
      BY <1>8, <3>1, <3>3 DEF Interrupt, encoder_tick, EncoderSlot, IsrInv, TypeOK
    <3> QED
      BY <3>2, <3>3
  <2>4. ~Idle => config.id \in Encoders /\ g_encoders[config.id].active
    BY DEF IsrInv, TypeOK, Idle
  <2> QED
    BY <2>1, <2>2, <2>3, <2>4, AttachInvKept
<1>9. ASSUME NEW p \in Pins, Edge(p)
      PROVE  AttachInv'
  <2>1. UNCHANGED <<g_counters, g_encoders, isr, config, clash>>
    BY <1>9 DEF Edge, slotVars
  <2>2. \A s \in Slots : PinsOf(s)' = PinsOf(s)
    BY <2>1 DEF PinsOf
  <2> QED
    BY <2>1, <2>2, AttachInvKept
<1>10. ASSUME UNCHANGED vars
       PROVE  AttachInv'
  <2>1. UNCHANGED <<g_counters, g_encoders, isr, config, clash>>
    BY <1>10 DEF vars, slotVars, irqVars, historyVars
  <2>2. \A s \in Slots : PinsOf(s)' = PinsOf(s)
    BY <2>1 DEF PinsOf
  <2> QED
    BY <2>1, <2>2, AttachInvKept
<1> QED
  BY <1>1, <1>2, <1>3, <1>4, <1>5, <1>6, <1>7, <1>8, <1>9, <1>10 DEF Next

(* A slot that shares no pin keeps its handlers through the configuration,
   reconfiguration and reset of every other slot. *)
THEOREM UnsharedKeepsHandlers == Spec => []UnsharedIsAttached
<1>1. Init => AttachInv
  BY AttachInvInitially
<1>2. AttachInv => UnsharedIsAttached
  BY DEF AttachInv, HasHandlers, NotYet, UnsharedIsAttached
<1> QED
  BY <1>1, <1>2, IsrInvInitially, IsrInvInductive, AttachInvInductive, PTL DEF Spec


(* What a count is one lap off its width. *)
LEMMA WrapShort ==
  /\ \A n \in 0 .. CountMod - 1 : Wrap(n) = n
  /\ \A n \in CountMod .. 2 * CountMod - 1 : Wrap(n) = n - CountMod
  /\ \A n \in -CountMod .. -1 : Wrap(n) = n + CountMod
BY InterruptAssumption DEF Wrap

(* Taking two short steps round the count is taking their sum. *)
LEMMA WrapAgain ==
  ASSUME NEW n \in -1 .. CountMod, NEW k \in {-1, 0, 1}
  PROVE  Wrap(Wrap(n) + k) = Wrap(n + k)
BY WrapShort, InterruptAssumption

(* From a sample no state away from its opposite, what encoder_delta reads off
   the table is the quarter turns since. *)
LEMMA Turns ==
  ASSUME NEW l \in 0 .. 3, NEW o \in 0 .. 3, NEW n \in 0 .. 3,
         o # n, o + n # 3, o + l # 3, n + l # 3
  PROVE  encoder_delta(l, n) = encoder_delta(l, o) + QuarterTurn(o, n)
<1>1. l \in {0, 1, 2, 3} /\ o \in {0, 1, 2, 3} /\ n \in {0, 1, 2, 3}
  OBVIOUS
<1> QED
  BY <1>1 DEF encoder_delta, QuarterTurn

(* A sample equal to the last one adds nothing. *)
LEMMA Rests == \A n \in 0 .. 3 : encoder_delta(n, n) = 0
<1>1. \A n \in 0 .. 3 : n \in {0, 1, 2, 3}
  OBVIOUS
<1> QED
  BY <1>1 DEF encoder_delta
-----------------------------------------------------------------------------
Raised(p) == IF p \in pending THEN 1 ELSE 0

(* A counter outside clash has its edge kind in its pin's trigger, so an edge
   it has to count raises its interrupt. *)
Tracked(c) ==
  c \notin clash /\ g_counters[c].active =>
    /\ trigger[g_counters[c].pin] = g_counters[c].edge
    /\ c \notin overrun =>
         edges[c] = Wrap(g_counters[c].count + Raised(g_counters[c].pin))

CounterInv == \A c \in Counters : Tracked(c)

(* A counter outside clash serves its pin alone. *)
LEMMA CounterAlone ==
  ASSUME IsrInv, AttachInv, NEW c \in Counters, c \notin clash, g_counters[c].active
  PROVE  /\ g_counters[c].pin \in Pins
         /\ PinsOf(c) = {g_counters[c].pin}
         /\ isr[g_counters[c].pin] = c
         /\ \A t \in Slots \ {c} : g_counters[c].pin \notin PinsOf(t)
<1>1. g_counters[c] \in CounterSlot /\ c \in Slots /\ c \notin Encoders
  BY ActiveSlots, InterruptAssumption DEF IsrInv, Slots
<1>2. g_counters[c].pin \in Pins
  BY <1>1 DEF CounterSlot
<1>3. PinsOf(c) = {g_counters[c].pin}
  BY DEF PinsOf
<1>4. \A t \in Slots \ {c} : g_counters[c].pin \notin PinsOf(t)
  BY <1>1, <1>3 DEF AttachInv, SharingIsNoted
<1>5. ~NotYet(c, g_counters[c].pin)
  BY <1>1 DEF NotYet, Idle, IsrInv, TypeOK
<1> QED
  BY <1>1, <1>2, <1>3, <1>4, <1>5 DEF AttachInv, HasHandlers

(* A step that leaves a counter, its pin and its history alone. *)
LEMMA TrackedKept ==
  ASSUME NEW c \in Counters, Tracked(c),
         g_counters'[c] = g_counters[c], edges'[c] = edges[c],
         c \notin clash' => c \notin clash,
         c \notin overrun' => c \notin overrun,
         c \notin clash /\ g_counters[c].active =>
            /\ trigger'[g_counters[c].pin] = trigger[g_counters[c].pin]
            /\ g_counters[c].pin \in pending' <=> g_counters[c].pin \in pending
  PROVE  Tracked(c)'
BY DEF Tracked, Raised

(* A configuration of another slot, which noted whom it shares its pins with. *)
LEMMA NotedApart ==
  ASSUME NEW c \in Counters, NEW s \in Slots \ {c}, NEW ps,
         NewClash(s, ps) \subseteq clash', c \notin clash'
  PROVE  c \notin clash /\ PinsOf(c) \cap ps = {}
BY DEF NewClash, Sharers, Slots

(* Only c's own commands, edges and interrupts reach a counter outside clash. *)
LEMMA CounterInvInductive ==
  IsrInv /\ AttachInv /\ CounterInv /\ [Next]_vars => CounterInv'
<1> SUFFICES ASSUME IsrInv, AttachInv, CounterInv, [Next]_vars, NEW d \in Counters
             PROVE  Tracked(d)'
  BY DEF CounterInv
<1>0. Tracked(d) /\ d \in Slots /\ g_counters \in [Counters -> CounterSlot \cup {NoSlot}]
  BY DEF CounterInv, Slots, IsrInv, TypeOK
<1>1. ASSUME NEW c \in Counters, NEW p \in PinArgs,
             NEW edge \in {"Rising", "Falling", "Both"}, configure_counter(c, p, edge)
      PROVE  Tracked(d)'
  <2> DEFINE slot == [active |-> TRUE, pin |-> p, edge |-> edge, count |-> 0]
  <2>1. /\ p \in Pins /\ c \in Slots
        /\ g_counters' = [g_counters EXCEPT ![c] = slot]
        /\ trigger' = [trigger EXCEPT ![p] = edge]
        /\ pending' = pending \ (PinsOf(c) \cup {p})
        /\ edges' = [edges EXCEPT ![c] = 0]
        /\ overrun' = overrun \ {c}
        /\ clash' = NewClash(c, {p})
    BY <1>1 DEF configure_counter, Slots
  <2>2. CASE d = c
    <3>1. g_counters'[c] = slot /\ trigger'[p] = edge /\ edges'[c] = 0 /\ p \notin pending'
      BY <1>0, <2>1 DEF IsrInv, TypeOK
    <3>2. Wrap(0) = 0
      BY WrapShort, InterruptAssumption
    <3>3. slot.pin = p /\ slot.edge = edge /\ slot.count = 0
      OBVIOUS
    <3> HIDE DEF slot
    <3> QED
      BY <2>2, <3>1, <3>2, <3>3 DEF Tracked, Raised
  <2>3. CASE d # c
    <3>1. CASE d \notin clash' /\ g_counters[d].active
      <4>1. d \notin clash /\ PinsOf(d) \cap {p} = {}
        BY <2>1, <2>3, <3>1, NotedApart DEF Slots
      <4>2. /\ g_counters[d].pin \in Pins /\ g_counters[d].pin # p
            /\ g_counters[d].pin \notin PinsOf(c)
        BY <2>1, <2>3, <3>1, <4>1, CounterAlone
      <4>3. trigger'[g_counters[d].pin] = trigger[g_counters[d].pin]
        BY <2>1, <4>2 DEF IsrInv, TypeOK
      <4>4. g_counters'[d] = g_counters[d] /\ edges'[d] = edges[d]
        BY <1>0, <2>1, <2>3 DEF IsrInv, TypeOK
      <4> QED
        BY <1>0, <2>1, <2>3, <4>1, <4>2, <4>3, <4>4, TrackedKept
    <3>2. CASE d \in clash' \/ ~g_counters[d].active
      <4>1. g_counters'[d] = g_counters[d]
        BY <1>0, <2>1, <2>3
      <4> QED
        BY <3>2, <4>1 DEF Tracked
    <3> QED
      BY <3>1, <3>2
  <2> QED
    BY <2>2, <2>3
<1>2. ASSUME NEW c \in Counters, CounterReset(c)
      PROVE  Tracked(d)'
  <2> DEFINE slot == [g_counters[c] EXCEPT !.count = 0]
             left == IF g_counters[c].pin \in pending THEN 1 ELSE 0
  <2>1. /\ g_counters' = [g_counters EXCEPT ![c] = slot]
        /\ edges' = [edges EXCEPT ![c] = left]
        /\ overrun' = overrun \ {c}
        /\ UNCHANGED <<trigger, pending, clash>>
    BY <1>2 DEF CounterReset, irqVars
  <2>2. CASE d = c
    <3>1. g_counters[c] \in CounterSlot
      BY <1>2, ActiveSlots DEF CounterReset, IsrInv
    <3>2. slot.active = g_counters[c].active /\ slot.pin = g_counters[c].pin
          /\ slot.edge = g_counters[c].edge /\ slot.count = 0
      BY <3>1 DEF CounterSlot
    <3>3. g_counters'[c] = slot /\ edges'[c] = left
      BY <1>0, <2>1 DEF IsrInv, TypeOK
    <3>4. left = Wrap(0 + left)
      BY WrapShort, SmallCounts
    <3>5. left = IF slot.pin \in pending' THEN 1 ELSE 0
      BY <2>1, <3>2
    <3> HIDE DEF slot, left
    <3> QED
      BY <1>0, <2>1, <2>2, <3>2, <3>3, <3>4, <3>5 DEF Tracked, Raised
  <2>3. CASE d # c
    BY <1>0, <2>1, <2>3, TrackedKept DEF IsrInv, TypeOK
  <2> QED
    BY <2>2, <2>3
<1>3. ASSUME NEW e \in Encoders, NEW a \in PinArgs, NEW b \in PinArgs, NEW m \in Modes,
             configure_encoder(e, a, b, m)
      PROVE  Tracked(d)'
  <2>1. e \in Slots /\ e # d
    BY InterruptAssumption DEF Slots
  <2>2. /\ pending' = pending \ PinsOf(e)
        /\ \E ps : NewClash(e, ps) \subseteq clash'
        /\ UNCHANGED <<g_counters, trigger, edges, overrun>>
    BY <1>3 DEF configure_encoder
  <2>3. d \notin clash' => d \notin clash
    BY <2>1, <2>2, NotedApart
  <2>4. ASSUME d \notin clash, g_counters[d].active
        PROVE  g_counters[d].pin \in pending' <=> g_counters[d].pin \in pending
    BY <2>1, <2>2, <2>4, CounterAlone
  <2> QED
    BY <1>0, <2>2, <2>3, <2>4, TrackedKept
<1>4. ASSUME SampleEncoder
      PROVE  Tracked(d)'
  BY <1>0, <1>4, TrackedKept DEF SampleEncoder, irqVars
<1>5. ASSUME AttachEncoder
      PROVE  Tracked(d)'
  <2> DEFINE e == config.id
             p == IF config.step = "attach_a" THEN g_encoders[e].pin_a
                                              ELSE g_encoders[e].pin_b
  <2>1. e \in Encoders /\ g_encoders[e].active
    BY <1>5 DEF AttachEncoder, Idle, IsrInv, TypeOK
  <2>2. e \in Slots /\ e # d /\ p \in PinsOf(e)
    BY <2>1, InterruptAssumption DEF Slots, PinsOf
  <2>3. /\ trigger' = [trigger EXCEPT ![p] = "Both"]
        /\ pending' = pending \ {p}
        /\ UNCHANGED <<g_counters, clash, edges, overrun>>
    BY <1>5 DEF AttachEncoder, slotVars, historyVars
  <2> HIDE DEF p
  <2>4. ASSUME d \notin clash, g_counters[d].active
        PROVE  /\ trigger'[g_counters[d].pin] = trigger[g_counters[d].pin]
               /\ g_counters[d].pin \in pending' <=> g_counters[d].pin \in pending
    <3>1. g_counters[d].pin \in Pins /\ g_counters[d].pin # p
      BY <2>2, <2>4, CounterAlone
    <3> QED
      BY <2>3, <3>1 DEF IsrInv, TypeOK
  <2> QED
    BY <1>0, <2>3, <2>4, TrackedKept
<1>6. ASSUME NEW e \in Encoders, EncoderReset(e)
      PROVE  Tracked(d)'
  BY <1>0, <1>6, TrackedKept DEF EncoderReset, irqVars
<1>7. ASSUME ResetConfig
      PROVE  Tracked(d)'
  BY <1>7 DEF ResetConfig, Tracked, NoSlot
<1>8. ASSUME NEW p \in Pins, Interrupt(p)
      PROVE  Tracked(d)'
  <2>1. /\ isr[p] \in Slots /\ p \in PinsOf(isr[p])
        /\ pending' = pending \ {p}
        /\ UNCHANGED <<isr, trigger, clash, edges, overrun>>
    BY <1>8 DEF Interrupt, historyVars, IsrInv, NoDanglingIsr, TypeOK
  <2>2. CASE isr[p] = d
    <3>1. g_counters[d].active /\ g_counters[d].pin = p
      BY <2>1, <2>2 DEF PinsOf
    <3>2. g_counters[d] \in CounterSlot
      BY <3>1, ActiveSlots DEF IsrInv
    <3> DEFINE n == Wrap(g_counters[d].count + 1)
    <3>3. g_counters' = [g_counters EXCEPT ![d].count = n]
      BY <1>8, <2>2, <3>1 DEF Interrupt, counter_tick
    <3>4. n = Wrap(n + 0)
      <4>1. g_counters[d].count \in 0 .. CountMod - 1
        BY <3>2 DEF CounterSlot
      <4>2. g_counters[d].count + 1 \in Int
        BY <4>1
      <4>3. n \in 0 .. CountMod - 1
        BY <4>2, WrapRange
      <4> QED
        BY <4>3, WrapShort
    <3> HIDE DEF n
    <3>5. /\ g_counters'[d].active = g_counters[d].active
          /\ g_counters'[d].pin = p
          /\ g_counters'[d].edge = g_counters[d].edge
          /\ g_counters'[d].count = n
      BY <1>0, <3>1, <3>2, <3>3 DEF CounterSlot
    <3>6. Raised(p) = 1 /\ Raised(p)' = 0
      BY <1>8, <2>1 DEF Raised, Interrupt
    <3> QED
      BY <1>0, <2>1, <3>1, <3>4, <3>5, <3>6 DEF Tracked, n
  <2>3. CASE isr[p] # d
    <3>1. g_counters'[d] = g_counters[d]
      BY <1>0, <1>8, <2>3 DEF Interrupt, counter_tick, encoder_tick
    <3>2. ASSUME d \notin clash, g_counters[d].active
          PROVE  g_counters[d].pin \in pending' <=> g_counters[d].pin \in pending
      <4>1. g_counters[d].pin # p
        BY <2>3, <3>2, CounterAlone
      <4> QED
        BY <2>1, <4>1
    <3> QED
      BY <1>0, <2>1, <3>1, <3>2, TrackedKept
  <2> QED
    BY <2>2, <2>3
<1>9. ASSUME NEW p \in Pins, Edge(p)
      PROVE  Tracked(d)'
  <2> DEFINE up == [level EXCEPT ![p] = ~@][p]
             counting == {c \in Counters : /\ p \in PinsOf(c)
                                           /\ Raises(g_counters[c].edge, up)}
  <2>1. /\ UNCHANGED <<g_counters, isr, trigger, clash>>
        /\ pending' = IF isr[p] # NobodysPin /\ Raises(trigger[p], up)
                        THEN pending \cup {p} ELSE pending
        /\ edges' = [c \in Counters |-> IF c \in counting THEN Wrap(edges[c] + 1)
                                                          ELSE edges[c]]
        /\ overrun' = overrun \cup {c \in counting : p \in pending}
    BY <1>9 DEF Edge, slotVars
  <2> HIDE DEF up
  <2>2. CASE d \in clash \/ ~g_counters[d].active
    BY <2>1, <2>2 DEF Tracked
  <2>3. CASE d \notin clash /\ g_counters[d].active /\ g_counters[d].pin # p
    <3>1. d \notin counting
      BY <2>3 DEF PinsOf
    <3> HIDE DEF counting
    <3> QED
      BY <1>0, <2>1, <2>3, <3>1, TrackedKept
  <2>4. CASE d \notin clash /\ g_counters[d].active /\ g_counters[d].pin = p
    <3>1. isr[p] = d /\ d # NobodysPin
      BY <2>4, CounterAlone, InterruptAssumption
    <3>2. trigger[p] = g_counters[d].edge
      BY <1>0, <2>4 DEF Tracked
    <3>3. d \in counting <=> Raises(trigger[p], up)
      BY <2>4, <3>2 DEF PinsOf
    <3>4. CASE d \notin counting
      <4> HIDE DEF counting
      <4> QED
        BY <1>0, <2>1, <2>4, <3>3, <3>4, TrackedKept
    <3>5. CASE d \in counting /\ p \in pending
      BY <1>0, <2>1, <2>4, <3>5 DEF Tracked
    <3>6. CASE d \in counting /\ p \notin pending
      <4>1. p \in pending'
        BY <2>1, <3>1, <3>3, <3>6
      <4>2. /\ g_counters[d].count \in 0 .. CountMod - 1
            /\ edges[d] = Wrap(g_counters[d].count + 0) \/ d \in overrun
        <5>1. g_counters[d] \in CounterSlot
          BY <2>4, ActiveSlots DEF IsrInv
        <5> QED
          BY <1>0, <2>4, <3>6, <5>1 DEF Tracked, Raised, CounterSlot
      <4>3. edges'[d] = Wrap(edges[d] + 1)
        BY <2>1, <3>6
      <4>4. g_counters[d].count + 0 = g_counters[d].count
        BY <4>2
      <4>5. Wrap(Wrap(g_counters[d].count) + 1) = Wrap(g_counters[d].count + 1)
        BY <4>2, WrapAgain, InterruptAssumption
      <4>6. d \notin overrun' => edges'[d] = Wrap(g_counters[d].count + 1)
        BY <2>1, <4>2, <4>3, <4>4, <4>5
      <4> QED
        BY <2>1, <2>4, <3>2, <4>1, <4>6 DEF Tracked, Raised
    <3> QED
      BY <3>4, <3>5, <3>6
  <2> QED
    BY <2>2, <2>3, <2>4
<1>10. ASSUME UNCHANGED vars
       PROVE  Tracked(d)'
  BY <1>0, <1>10, TrackedKept DEF vars, slotVars, irqVars, historyVars
<1> QED
  BY <1>1, <1>2, <1>3, <1>4, <1>5, <1>6, <1>7, <1>8, <1>9, <1>10 DEF Next
-----------------------------------------------------------------------------
StateOf(e) == encoder_state(g_encoders[e].pin_a, g_encoders[e].pin_b, level)

(* Until its levels are sampled, the encoder that is being configured stands
   at 0: the handlers of its old pins are gone and those of the new ones are
   not there yet.  Nothing else keeps its position at 0. *)
SampleInv ==
  config.step = "sample" =>
    /\ g_encoders[config.id].position = 0
    /\ \A p \in Pins : isr[p] # config.id

(* The last sample of an encoder outside missed is not the opposite of its
   present state, from which no quarter turn could be told; both pins of an
   encoder on one pin are equal in every sample. *)
Turned(e) ==
  /\ g_encoders[e].active /\ g_encoders[e].pin_a = g_encoders[e].pin_b =>
       g_encoders[e].last_state \in {0, 3}
  /\ e \notin missed /\ Watching(e) =>
       /\ StateOf(e) + g_encoders[e].last_state # 3
       /\ turn[e] = Wrap(g_encoders[e].position
                           + encoder_delta(g_encoders[e].last_state, StateOf(e)))

EncoderInv == SampleInv /\ \A e \in Encoders : Turned(e)

(* Every step keeps what has been sampled. *)
LEMMA SampleInvInductive == IsrInv /\ SampleInv /\ [Next]_vars => SampleInv'
<1> SUFFICES ASSUME IsrInv, SampleInv, [Next]_vars, config'.step = "sample"
             PROVE  /\ g_encoders'[config'.id].position = 0
                    /\ \A p \in Pins : isr'[p] # config'.id
  BY DEF SampleInv
<1>1. ASSUME NEW e \in Encoders, NEW a \in PinArgs, NEW b \in PinArgs, NEW m \in Modes,
             configure_encoder(e, a, b, m)
      PROVE  /\ g_encoders'[config'.id].position = 0
             /\ \A p \in Pins : isr'[p] # config'.id
  <2>1. /\ config' = [step |-> "sample", id |-> e]
        /\ isr' = [q \in Pins |-> IF q \in PinsOf(e) THEN NobodysPin ELSE isr[q]]
        /\ g_encoders' = [g_encoders EXCEPT ![e] =
             [active |-> TRUE, pin_a |-> a, pin_b |-> b, mode |-> m,
              position |-> 0, last_state |-> 0]]
    BY <1>1 DEF configure_encoder
  <2>2. \A q \in Pins : isr[q] = e => q \in PinsOf(e)
    BY InterruptAssumption DEF IsrInv, NoDanglingIsr
  <2>3. \A q \in Pins : isr'[q] # e
    BY <2>1, <2>2, InterruptAssumption
  <2> QED
    BY <2>1, <2>3 DEF IsrInv, TypeOK
<1>2. ASSUME NEW p \in Pins, Interrupt(p)
      PROVE  /\ g_encoders'[config'.id].position = 0
             /\ \A q \in Pins : isr'[q] # config'.id
  <2>1. config' = config /\ isr' = isr
    BY <1>2 DEF Interrupt
  <2>2. config.id \in Encoders /\ isr[p] # config.id
    BY <2>1 DEF SampleInv, IsrInv, TypeOK
  <2>3. g_encoders'[config.id] = g_encoders[config.id]
    BY <1>2, <2>2 DEF Interrupt, counter_tick, encoder_tick, IsrInv, TypeOK
  <2> QED
    BY <2>1, <2>3 DEF SampleInv
<1>3. ASSUME SampleEncoder \/ AttachEncoder
      PROVE  FALSE
  BY <1>3 DEF SampleEncoder, AttachEncoder, IsrInv, TypeOK
<1>4. ASSUME NEW c \in Counters, NEW p \in PinArgs,
             NEW edge \in {"Rising", "Falling", "Both"}, configure_counter(c, p, edge)
      PROVE  FALSE
  BY <1>4 DEF configure_counter, Idle
<1>5. ASSUME NEW c \in Counters, CounterReset(c)
      PROVE  FALSE
  BY <1>5 DEF CounterReset, Idle
<1>6. ASSUME NEW e \in Encoders, EncoderReset(e)
      PROVE  FALSE
  BY <1>6 DEF EncoderReset, Idle
<1>7. ASSUME ResetConfig
      PROVE  FALSE
  BY <1>7 DEF ResetConfig, Idle
<1>8. ASSUME NEW p \in Pins, Edge(p)
      PROVE  UNCHANGED <<g_encoders, config, isr>>
  BY <1>8 DEF Edge, slotVars
<1>9. ASSUME UNCHANGED vars
      PROVE  UNCHANGED <<g_encoders, config, isr>>
  BY <1>9 DEF vars, slotVars, irqVars
<1> QED
  BY <1>1, <1>2, <1>3, <1>4, <1>5, <1>6, <1>7, <1>8, <1>9 DEF Next, SampleInv

-----------------------------------------------------------------------------
(* What an edge on p does to the state of pins a and b. *)
LEMMA StateChanges ==
  ASSUME NEW lv \in [Pins -> BOOLEAN], NEW mv \in [Pins -> BOOLEAN], NEW p \in Pins,
         NEW a \in Pins, NEW b \in Pins,
         \A q \in Pins : mv[q] # lv[q] <=> q = p
  PROVE  /\ p \notin {a, b} => encoder_state(a, b, mv) = encoder_state(a, b, lv)
         /\ p \in {a, b} => encoder_state(a, b, mv) # encoder_state(a, b, lv)
         /\ p \in {a, b} /\ a # b => encoder_state(a, b, mv) + encoder_state(a, b, lv) # 3
         /\ a = b => encoder_state(a, b, lv) \in {0, 3}
<1> DEFINE A(v) == IF v[a] THEN 2 ELSE 0
           B(v) == IF v[b] THEN 1 ELSE 0
<1>1. encoder_state(a, b, lv) = A(lv) + B(lv) /\ encoder_state(a, b, mv) = A(mv) + B(mv)
  BY DEF encoder_state
<1>2. A(lv) \in {0, 2} /\ A(mv) \in {0, 2} /\ B(lv) \in {0, 1} /\ B(mv) \in {0, 1}
  OBVIOUS
<1>3. /\ IF p = a THEN A(mv) # A(lv) ELSE A(mv) = A(lv)
      /\ IF p = b THEN B(mv) # B(lv) ELSE B(mv) = B(lv)
  <2>1. \A q \in Pins : mv[q] \in BOOLEAN /\ lv[q] \in BOOLEAN
    OBVIOUS
  <2> QED
    BY <2>1
<1>4. a = b => (A(lv) = 2 <=> B(lv) = 1) /\ (A(mv) = 2 <=> B(mv) = 1)
  OBVIOUS
<1> HIDE DEF A, B
<1> QED
  BY <1>1, <1>2, <1>3, <1>4

(* A step that leaves an encoder, its state and its history alone. *)
LEMMA TurnedKept ==
  ASSUME NEW e \in Encoders, Turned(e), g_encoders'[e] = g_encoders[e],
         Watching(e)' => Watching(e), StateOf(e)' = StateOf(e) \/ ~g_encoders[e].active,
         e \notin missed' => e \notin missed, turn'[e] = turn[e]
  PROVE  Turned(e)'
BY DEF Turned, Watching

(* Every step keeps the position of an encoder at the turns of its pins. *)
LEMMA TurnedInductive ==
  ASSUME IsrInv, EncoderInv, [Next]_vars, NEW d \in Encoders
  PROVE  Turned(d)'
<1>0. /\ Turned(d) /\ d \in Slots /\ d \notin Counters
      /\ g_encoders \in [Encoders -> EncoderSlot \cup {NoSlot}]
      /\ level \in [Pins -> BOOLEAN]
  BY InterruptAssumption DEF EncoderInv, Slots, IsrInv, TypeOK
<1>a. ASSUME g_encoders[d].active
      PROVE  /\ g_encoders[d] \in EncoderSlot
             /\ StateOf(d) \in 0 .. 3
             /\ g_encoders[d].pin_a \in Pins /\ g_encoders[d].pin_b \in Pins
             /\ g_encoders[d].last_state \in 0 .. 3
             /\ g_encoders[d].position \in 0 .. CountMod - 1
             /\ encoder_delta(g_encoders[d].last_state, StateOf(d)) \in {-1, 0, 1}
  <2>1. g_encoders[d] \in EncoderSlot
    BY <1>0, <1>a, ActiveSlots DEF IsrInv
  <2>2. /\ g_encoders[d].pin_a \in Pins /\ g_encoders[d].pin_b \in Pins
        /\ g_encoders[d].last_state \in 0 .. 3
        /\ g_encoders[d].position \in 0 .. CountMod - 1
    BY <2>1 DEF EncoderSlot
  <2>3. StateOf(d) \in 0 .. 3
    BY <1>0, <2>2, StateRange DEF StateOf
  <2> QED
    BY <2>1, <2>2, <2>3, DeltaRange
<1>1. ASSUME NEW c \in Counters, NEW p \in PinArgs,
             NEW edge \in {"Rising", "Falling", "Both"}, configure_counter(c, p, edge)
      PROVE  Turned(d)'
  BY <1>0, <1>1, TurnedKept DEF configure_counter, Watching, StateOf
<1>2. ASSUME NEW c \in Counters, CounterReset(c)
      PROVE  Turned(d)'
  BY <1>0, <1>2, TurnedKept DEF CounterReset, Watching, StateOf
<1>3. ASSUME NEW e \in Encoders, NEW a \in PinArgs, NEW b \in PinArgs, NEW m \in Modes,
             configure_encoder(e, a, b, m)
      PROVE  Turned(d)'
  <2> DEFINE slot == [active |-> TRUE, pin_a |-> a, pin_b |-> b, mode |-> m,
                      position |-> 0, last_state |-> 0]
  <2>1. /\ Idle
        /\ g_encoders' = [g_encoders EXCEPT ![e] = slot]
        /\ config' = [step |-> "sample", id |-> e]
        /\ UNCHANGED <<level, turn, missed>>
    BY <1>3 DEF configure_encoder
  <2>2. CASE d = e
    <3>1. g_encoders'[d] = slot /\ ~Watching(d)'
      BY <1>0, <2>1, <2>2 DEF Watching
    <3>2. slot.last_state = 0
      OBVIOUS
    <3> HIDE DEF slot
    <3> QED
      BY <3>1, <3>2 DEF Turned
  <2>3. CASE d # e
    <3>1. g_encoders'[d] = g_encoders[d]
      BY <1>0, <2>1, <2>3
    <3>2. Watching(d)' => Watching(d)
      BY <2>1, <3>1 DEF Watching, Idle
    <3> QED
      BY <1>0, <2>1, <3>1, <3>2, TurnedKept DEF StateOf
  <2> QED
    BY <2>2, <2>3
<1>4. ASSUME SampleEncoder
      PROVE  Turned(d)'
  <2>1. /\ config.step = "sample" /\ config.id \in Encoders
        /\ config' = [config EXCEPT !.step = "attach_a"]
        /\ g_encoders' = [g_encoders EXCEPT ![config.id].last_state = StateOf(config.id)]
        /\ turn' = [turn EXCEPT ![config.id] = 0]
        /\ missed' = missed \ {config.id}
        /\ UNCHANGED level
    BY <1>4 DEF SampleEncoder, StateOf, IsrInv, TypeOK
  <2>2. config'.step = "attach_a" /\ config'.id = config.id
    BY <2>1 DEF IsrInv, TypeOK
  <2>3. CASE d = config.id
    <3>1. g_encoders[d].active /\ g_encoders[d].position = 0
      BY <2>1, <2>3 DEF IsrInv, Idle, EncoderInv, SampleInv
    <3>2. /\ g_encoders'[d].active
          /\ g_encoders'[d].pin_a = g_encoders[d].pin_a
          /\ g_encoders'[d].pin_b = g_encoders[d].pin_b
          /\ g_encoders'[d].position = 0
          /\ g_encoders'[d].last_state = StateOf(d)
          /\ turn'[d] = 0
      BY <1>0, <1>a, <2>1, <2>3, <3>1 DEF EncoderSlot, IsrInv, TypeOK
    <3>3. StateOf(d)' = StateOf(d)
      BY <2>1, <3>2 DEF StateOf
    <3>4. StateOf(d) \in 0 .. 3 /\ g_encoders[d].pin_a \in Pins /\ g_encoders[d].pin_b \in Pins
      BY <1>a, <3>1
    <3>5. g_encoders[d].pin_a = g_encoders[d].pin_b => StateOf(d) \in {0, 3}
      BY <3>4 DEF StateOf, encoder_state
    <3>6. StateOf(d) + StateOf(d) # 3
      BY <3>4
    <3>7. encoder_delta(StateOf(d), StateOf(d)) = 0
      BY <3>4, Rests
    <3>8. Wrap(0 + 0) = 0
      BY WrapShort, InterruptAssumption
    <3> QED
      BY <3>2, <3>3, <3>5, <3>6, <3>7, <3>8 DEF Turned
  <2>4. CASE d # config.id
    <3>1. g_encoders'[d] = g_encoders[d] /\ turn'[d] = turn[d]
      BY <1>0, <2>1, <2>4 DEF IsrInv, TypeOK
    <3> QED
      BY <1>0, <2>1, <2>2, <2>4, <3>1, TurnedKept DEF StateOf, Watching
  <2> QED
    BY <2>3, <2>4
<1>5. ASSUME AttachEncoder
      PROVE  Turned(d)'
  <2>1. UNCHANGED <<g_encoders, level, turn, missed>>
    BY <1>5 DEF AttachEncoder, slotVars, historyVars
  <2>2. Watching(d)' => Watching(d)
    BY <1>5, <2>1 DEF AttachEncoder, Watching
  <2> QED
    BY <1>0, <2>1, <2>2, TurnedKept DEF StateOf
<1>6. ASSUME NEW e \in Encoders, EncoderReset(e)
      PROVE  Turned(d)'
  <2> DEFINE slot == [g_encoders[e] EXCEPT !.position = 0]
             left == encoder_delta(g_encoders[e].last_state, StateOf(e))
  <2>1. /\ Idle
        /\ g_encoders[e].active
        /\ g_encoders' = [g_encoders EXCEPT ![e] = slot]
        /\ turn' = [turn EXCEPT ![e] = Wrap(left)]
        /\ UNCHANGED <<config, level, missed>>
    BY <1>6 DEF EncoderReset, StateOf
  <2>2. CASE d = e
    <3>1. left \in {-1, 0, 1} /\ 0 + left = left
      BY <1>a, <2>1, <2>2
    <3>2. /\ slot.active /\ slot.pin_a = g_encoders[d].pin_a
          /\ slot.pin_b = g_encoders[d].pin_b /\ slot.position = 0
          /\ slot.last_state = g_encoders[d].last_state
      BY <1>a, <2>1, <2>2 DEF EncoderSlot
    <3>3. g_encoders'[d] = slot
      BY <1>0, <2>1, <2>2
    <3> HIDE DEF slot
    <3>4. StateOf(d)' = StateOf(d) /\ Watching(d)
      BY <2>1, <2>2, <3>2, <3>3 DEF StateOf, Watching, Idle
    <3>5. left = encoder_delta(g_encoders[d].last_state, StateOf(d))
      BY <2>2
    <3> HIDE DEF left
    <3>6. turn'[d] = Wrap(left)
      BY <2>1, <2>2 DEF IsrInv, TypeOK
    <3> QED
      BY <1>0, <2>1, <3>1, <3>2, <3>3, <3>4, <3>5, <3>6 DEF Turned
  <2>3. CASE d # e
    <3>1. g_encoders'[d] = g_encoders[d] /\ turn'[d] = turn[d]
      BY <1>0, <2>1, <2>3 DEF IsrInv, TypeOK
    <3> QED
      BY <1>0, <2>1, <3>1, TurnedKept DEF StateOf, Watching
  <2> QED
    BY <2>2, <2>3
<1>7. ASSUME ResetConfig
      PROVE  Turned(d)'
  BY <1>7 DEF ResetConfig, Turned, Watching, NoSlot
<1>8. ASSUME NEW p \in Pins, Interrupt(p)
      PROVE  Turned(d)'
  <2>1. UNCHANGED <<level, config, turn, missed>>
    BY <1>8 DEF Interrupt, historyVars
  <2>2. CASE isr[p] = d /\ g_encoders[d].active
    <3> DEFINE moved == Wrap(g_encoders[d].position
                               + encoder_delta(g_encoders[d].last_state, StateOf(d)))
    <3>1. g_encoders' = [g_encoders EXCEPT ![d].position = moved,
                                           ![d].last_state = StateOf(d)]
      BY <1>0, <1>8, <2>2 DEF Interrupt, encoder_tick, StateOf
    <3>2. moved \in 0 .. CountMod - 1
      <4> DEFINE delta == encoder_delta(g_encoders[d].last_state, StateOf(d))
      <4>1. delta \in {-1, 0, 1} /\ g_encoders[d].position \in 0 .. CountMod - 1
        BY <1>a, <2>2
      <4> HIDE DEF delta
      <4>2. g_encoders[d].position + delta \in Int
        BY <4>1
      <4> QED
        BY <4>2, WrapRange DEF delta
    <3>3. moved = turn[d] \/ ~Watching(d) \/ d \in missed
      BY <1>0 DEF Turned
    <3> HIDE DEF moved
    <3>4. /\ g_encoders'[d].active
          /\ g_encoders'[d].pin_a = g_encoders[d].pin_a
          /\ g_encoders'[d].pin_b = g_encoders[d].pin_b
          /\ g_encoders'[d].position = moved
          /\ g_encoders'[d].last_state = StateOf(d)
      BY <1>0, <1>a, <2>2, <3>1 DEF EncoderSlot
    <3>5. StateOf(d)' = StateOf(d) /\ Watching(d)' = Watching(d)
      BY <2>1, <2>2, <3>4 DEF StateOf, Watching
    <3>6. StateOf(d) \in 0 .. 3 /\ g_encoders[d].pin_a \in Pins
      BY <1>a, <2>2
    <3>7. g_encoders[d].pin_a = g_encoders[d].pin_b => StateOf(d) \in {0, 3}
      BY <3>6 DEF StateOf, encoder_state
    <3>8. StateOf(d) + StateOf(d) # 3
      BY <3>6
    <3>9. encoder_delta(StateOf(d), StateOf(d)) = 0
      BY <3>6, Rests
    <3>10. Wrap(moved + 0) = moved
      BY <3>2, WrapShort
    <3> QED
      BY <2>1, <3>3, <3>4, <3>5, <3>7, <3>8, <3>9, <3>10 DEF Turned
  <2>3. CASE isr[p] # d \/ ~g_encoders[d].active
    <3>1. g_encoders'[d] = g_encoders[d]
      BY <1>0, <1>8, <2>3 DEF Interrupt, counter_tick, encoder_tick
    <3> QED
      BY <1>0, <2>1, <3>1, TurnedKept DEF StateOf, Watching
  <2> QED
    BY <2>2, <2>3
<1>9. ASSUME NEW p \in Pins, Edge(p)
      PROVE  Turned(d)'
  <2> DEFINE lv == [level EXCEPT ![p] = ~@]
             o == StateOf(d)
             n == encoder_state(g_encoders[d].pin_a, g_encoders[d].pin_b, lv)
             l == g_encoders[d].last_state
  <2>1. level' = lv /\ UNCHANGED <<g_encoders, config>>
    BY <1>9 DEF Edge, slotVars
  <2>2. StateOf(d)' = n /\ Watching(d)' = Watching(d)
    BY <2>1 DEF StateOf, Watching
  <2>3. ASSUME Watching(d), p \in PinsOf(d)
        PROVE  /\ turn'[d] = Wrap(turn[d] + QuarterTurn(o, n))
               /\ n + l = 3 => d \in missed'
    BY <1>9, <2>3 DEF Edge, StateOf
  <2>4. ASSUME ~(Watching(d) /\ p \in PinsOf(d))
        PROVE  turn'[d] = turn[d]
    BY <1>9, <2>4 DEF Edge
  <2>5. d \notin missed' => d \notin missed
    BY <1>9 DEF Edge
  <2>6. CASE ~Watching(d) \/ d \in missed
    BY <1>0, <2>1, <2>2, <2>5, <2>6 DEF Turned
  <2>7. CASE Watching(d) /\ d \notin missed /\ p \notin PinsOf(d)
    <3>1. g_encoders[d].active /\ p \notin {g_encoders[d].pin_a, g_encoders[d].pin_b}
      BY <1>0, <2>7 DEF Watching, PinsOf
    <3>2. lv \in [Pins -> BOOLEAN] /\ \A q \in Pins : lv[q] # level[q] <=> q = p
      BY <1>0
    <3> HIDE DEF lv
    <3>3. n = o
      BY <1>0, <1>a, <3>1, <3>2, StateChanges DEF StateOf
    <3> QED
      BY <1>0, <2>1, <2>2, <2>4, <2>5, <2>7, <3>3, TurnedKept
  <2>8. CASE Watching(d) /\ d \notin missed /\ p \in PinsOf(d)
    <3>1. /\ p \in {g_encoders[d].pin_a, g_encoders[d].pin_b}
          /\ g_encoders[d].active
      BY <1>0, <2>8 DEF Watching, PinsOf
    <3>2. /\ n # o
          /\ g_encoders[d].pin_a # g_encoders[d].pin_b => o + n # 3
          /\ g_encoders[d].pin_a = g_encoders[d].pin_b => o \in {0, 3}
      <4>1. lv \in [Pins -> BOOLEAN] /\ \A q \in Pins : lv[q] # level[q] <=> q = p
        BY <1>0
      <4> HIDE DEF lv
      <4> QED
        BY <1>0, <1>a, <3>1, <4>1, StateChanges DEF StateOf
    <3>3. l \in 0 .. 3 /\ o \in 0 .. 3 /\ n \in 0 .. 3
      <4>1. lv \in [Pins -> BOOLEAN]
        BY <1>0
      <4> QED
        BY <1>a, <3>1, <4>1, StateRange
    <3>4. /\ o + l # 3
          /\ turn[d] = Wrap(g_encoders[d].position + encoder_delta(l, o))
          /\ g_encoders[d].pin_a = g_encoders[d].pin_b => l \in {0, 3}
      BY <1>0, <2>8, <3>1 DEF Turned
    <3> HIDE DEF lv, o, n, l
    <3>5. CASE n + l = 3
      BY <2>1, <2>3, <2>8, <3>1, <3>4, <3>5 DEF Turned, l
    <3>6. CASE n + l # 3
      <4>1. g_encoders[d].pin_a # g_encoders[d].pin_b
        <5>1. g_encoders[d].pin_a = g_encoders[d].pin_b => n \in {0, 3}
          BY DEF n, encoder_state
        <5> QED
          BY <3>2, <3>4, <3>6, <5>1
      <4>2. encoder_delta(l, n) = encoder_delta(l, o) + QuarterTurn(o, n)
        BY <3>2, <3>3, <3>4, <3>6, <4>1, Turns
      <4>3. /\ encoder_delta(l, o) \in {-1, 0, 1}
            /\ g_encoders[d].position \in 0 .. CountMod - 1
        BY <1>a, <3>1 DEF l, o
      <4>4. QuarterTurn(o, n) \in {-1, 0, 1}
        BY DEF QuarterTurn
      <4>5. Wrap(turn[d] + QuarterTurn(o, n))
              = Wrap(g_encoders[d].position + encoder_delta(l, n))
        <5> DEFINE x == g_encoders[d].position + encoder_delta(l, o)
        <5>1. x \in -1 .. CountMod
          BY <4>3, InterruptAssumption
        <5>2. Wrap(Wrap(x) + QuarterTurn(o, n)) = Wrap(x + QuarterTurn(o, n))
          BY <4>4, <5>1, WrapAgain
        <5>3. x + QuarterTurn(o, n) = g_encoders[d].position + encoder_delta(l, n)
          BY <4>2, <4>3, <4>4
        <5> QED
          BY <3>4, <5>2, <5>3
      <4> QED
        BY <2>1, <2>2, <2>3, <2>8, <3>4, <3>6, <4>1, <4>5 DEF Turned, l
    <3> QED
      BY <3>5, <3>6
  <2> QED
    BY <2>6, <2>7, <2>8
<1>10. ASSUME UNCHANGED vars
       PROVE  Turned(d)'
  BY <1>0, <1>10, TurnedKept DEF vars, slotVars, historyVars, Watching, StateOf
<1> QED
  BY <1>1, <1>2, <1>3, <1>4, <1>5, <1>6, <1>7, <1>8, <1>9, <1>10 DEF Next

-----------------------------------------------------------------------------
(* A counter that shares no pin and whose interrupts are served in time counts
   every edge of its kind once, over the wraps of its count (counter_tick). *)
THEOREM CountersCount == Spec => []CounterTracks
<1>1. Init => CounterInv
  BY DEF Init, CounterInv, Tracked, NoSlot
<1>2. Init => AttachInv
  BY AttachInvInitially
<1>3. CounterInv => CounterTracks
  BY DEF CounterInv, Tracked, CounterTracks, Raised
<1> QED
  BY <1>1, <1>2, <1>3, IsrInvInitially, IsrInvInductive, AttachInvInductive,
     CounterInvInductive, PTL DEF Spec

(* An encoder's position and its next sample are the travel of its shaft, as
   long as no two quarter turns fall between two samples (encoder_tick). *)
THEOREM EncodersFollow == Spec => []EncoderTracks
<1>1. Init => EncoderInv
  BY DEF Init, EncoderInv, SampleInv, Turned, Watching, NoSlot
<1>2. IsrInv /\ EncoderInv /\ [Next]_vars => EncoderInv'
  BY SampleInvInductive, TurnedInductive DEF EncoderInv
<1>3. EncoderInv => EncoderTracks
  BY DEF EncoderInv, Turned, EncoderTracks, StateOf
<1> QED
  BY <1>1, <1>2, <1>3, IsrInvInitially, IsrInvInductive, PTL DEF Spec

=============================================================================
