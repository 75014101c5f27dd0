----------------------------- MODULE Interrupts -----------------------------
(***************************************************************************)
(* The firmware's counters and encoders: the slots g_counters and          *)
(* g_encoders, the commands that configure, reset and clear them, and the  *)
(* interrupt handlers that count under the commands' feet.                 *)
(*                                                                         *)
(* A pin has one interrupt handler, so attaching a second slot to a pin    *)
(* takes it from the first.  An edge that the handler waits for raises the *)
(* pin's interrupt; edges that come before it is served leave it raised.   *)
(* Handlers run between any two foreground steps except where the code     *)
(* disables interrupts; configure_encoder does not, so it is taken in the  *)
(* steps at which an edge makes a difference.                              *)
(*                                                                         *)
(* Counts wrap at CountMod (2^32 on the board) and are compared modulo it. *)
(***************************************************************************)
EXTENDS Integers

CONSTANTS
  Pins,      \* is_valid_digital_pin
  PinArgs,   \* pin numbers commands carry
  Counters,  \* id < kMaxCounters
  Encoders,  \* id < kMaxEncoders
  Modes,     \* encoder modes commands carry
  CountMod   \* values of a count

(* isr of a pin without a handler. *)
NobodysPin == "none"

ASSUME InterruptAssumption ==
  /\ Pins \subseteq PinArgs
  /\ CountMod \in Nat \ {0, 1}
  /\ Counters \cap Encoders = {}
  /\ NobodysPin \notin Counters \cup Encoders

VARIABLES
  g_counters,
  g_encoders,
  isr,       \* pin -> the slot its interrupt handler serves
  trigger,   \* pin -> the edges that raise its interrupt
  pending,   \* pins whose interrupt is raised
  level,     \* pin -> BOOLEAN, the signal
  config,    \* the configure_encoder under way
  clash,     \* history: slots that shared a pin since they were configured
  edges,     \* history: edges a counter had to count
  overrun,   \* history: counters that had an edge while one was pending
  turn,      \* history: quarter turns of an encoder's shaft
  missed     \* history: encoders both of whose pins changed unseen

slotVars == <<g_counters, g_encoders>>
irqVars == <<isr, trigger, pending>>
historyVars == <<clash, edges, overrun, turn, missed>>
vars == <<slotVars, irqVars, level, config, historyVars>>

Slots == Counters \cup Encoders
NoSlot == [active |-> FALSE]

CounterSlot == [active : {TRUE}, pin : Pins, edge : {"Rising", "Falling", "Both"},
                count : 0 .. CountMod - 1]
EncoderSlot == [active : {TRUE}, pin_a : Pins, pin_b : Pins, mode : Modes,
                position : 0 .. CountMod - 1, last_state : 0 .. 3]

(* The steps of configure_encoder left to do, none when it is not running. *)
Idle == config.step = "done"

TypeOK ==
  /\ g_counters \in [Counters -> CounterSlot \cup {NoSlot}]
  /\ g_encoders \in [Encoders -> EncoderSlot \cup {NoSlot}]
  /\ isr \in [Pins -> Slots \cup {NobodysPin}]
  /\ trigger \in [Pins -> {"Rising", "Falling", "Both"}]
  /\ pending \subseteq Pins
  /\ level \in [Pins -> BOOLEAN]
  /\ config \in [step : {"done"}]
               \cup [step : {"sample", "attach_a", "attach_b"}, id : Encoders]
  /\ clash \subseteq Slots
  /\ overrun \subseteq Counters
  /\ missed \subseteq Encoders
  /\ edges \in [Counters -> 0 .. CountMod - 1]
  /\ turn \in [Encoders -> 0 .. CountMod - 1]

Init ==
  /\ g_counters = [c \in Counters |-> NoSlot]
  /\ g_encoders = [e \in Encoders |-> NoSlot]
  /\ isr = [p \in Pins |-> NobodysPin]
  /\ trigger = [p \in Pins |-> "Rising"]
  /\ pending = {}
  /\ level \in [Pins -> BOOLEAN]
  /\ config = [step |-> "done"]
  /\ clash = {}
  /\ edges = [c \in Counters |-> 0]
  /\ overrun = {}
  /\ turn = [e \in Encoders |-> 0]
  /\ missed = {}

-----------------------------------------------------------------------------
(* Mutant: a count that does not wrap. *)
Wrap_not(n) == n

Wrap(n) == n % CountMod

(* The pins an active slot is configured on. *)
PinsOf(s) ==
  IF s \in Counters
    THEN IF g_counters[s].active THEN {g_counters[s].pin} ELSE {}
    ELSE IF g_encoders[s].active
           THEN {g_encoders[s].pin_a, g_encoders[s].pin_b} ELSE {}

(* The other slots that are configured on one of these pins. *)
Sharers(s, ps) == {t \in Slots \ {s} : PinsOf(t) \cap ps # {}}

(* What a configuration of s on ps does to the history of shared pins. *)
NewClash(s, ps) ==
  IF Sharers(s, ps) = {} THEN clash \ {s} ELSE clash \cup Sharers(s, ps) \cup {s}

(* encoder_state over given levels. *)
encoder_state(a, b, lv) == (IF lv[a] THEN 2 ELSE 0) + (IF lv[b] THEN 1 ELSE 0)

(* Mutant: the rows for a falling A have their signs swapped. *)
encoder_delta_swapped(previous, current) ==
  LET table == <<0, -1, 1, 0,  1, 0, 0, -1,  1, 0, 0, -1,  0, 1, -1, 0>>
  IN table[previous * 4 + current + 1]

encoder_delta(previous, current) ==
  LET table == <<0, -1, 1, 0,  1, 0, 0, -1,  -1, 0, 0, 1,  0, 1, -1, 0>>
  IN table[previous * 4 + current + 1]

-----------------------------------------------------------------------------
(* Commands. *)

(* Mutant: the slot is cleared before its old pin is read, so the old pin
   stays attached. *)
configure_counter_keeps_old(c, p, edge) ==
  /\ Idle
  /\ p \in Pins
  /\ isr' = [isr EXCEPT ![p] = c]
  /\ pending' = pending \ {p}
  /\ trigger' = [trigger EXCEPT ![p] = edge]
  /\ g_counters' = [g_counters EXCEPT ![c] =
       [active |-> TRUE, pin |-> p, edge |-> edge, count |-> 0]]
  /\ clash' = NewClash(c, {p})
  /\ edges' = [edges EXCEPT ![c] = 0]
  /\ overrun' = overrun \ {c}
  /\ UNCHANGED <<g_encoders, level, config, turn, missed>>

(* Detach the old pin, clear the slot, attach the new pin. *)
configure_counter(c, p, edge) ==
  /\ Idle
  /\ p \in Pins
  /\ isr' = [q \in Pins |-> IF q = p THEN c
                            ELSE IF q \in PinsOf(c) THEN NobodysPin ELSE isr[q]]
  /\ pending' = pending \ (PinsOf(c) \cup {p})
  /\ trigger' = [trigger EXCEPT ![p] = edge]
  /\ g_counters' = [g_counters EXCEPT ![c] =
       [active |-> TRUE, pin |-> p, edge |-> edge, count |-> 0]]
  /\ clash' = NewClash(c, {p})
  /\ edges' = [edges EXCEPT ![c] = 0]
  /\ overrun' = overrun \ {c}
  /\ UNCHANGED <<g_encoders, level, config, turn, missed>>

(* Mutant: the period is reset, the count is not. *)
CounterReset_keeps_count(c) ==
  /\ Idle
  /\ g_counters[c].active
  /\ edges' = [edges EXCEPT ![c] = IF g_counters[c].pin \in pending THEN 1 ELSE 0]
  /\ overrun' = overrun \ {c}
  /\ UNCHANGED <<slotVars, irqVars, level, config, clash, turn, missed>>

(* An edge that is pending is counted after the reset. *)
CounterReset(c) ==
  /\ Idle
  /\ g_counters[c].active
  /\ g_counters' = [g_counters EXCEPT ![c].count = 0]
  /\ edges' = [edges EXCEPT ![c] = IF g_counters[c].pin \in pending THEN 1 ELSE 0]
  /\ overrun' = overrun \ {c}
  /\ UNCHANGED <<g_encoders, irqVars, level, config, clash, turn, missed>>

(* configure_encoder: detach the old pins, clear the slot and fill it. *)
configure_encoder(e, a, b, mode) ==
  /\ Idle
  /\ {a, b} \subseteq Pins
  /\ isr' = [q \in Pins |-> IF q \in PinsOf(e) THEN NobodysPin ELSE isr[q]]
  /\ pending' = pending \ PinsOf(e)
  /\ g_encoders' = [g_encoders EXCEPT ![e] =
       [active |-> TRUE, pin_a |-> a, pin_b |-> b, mode |-> mode,
        position |-> 0, last_state |-> 0]]
  /\ config' = [step |-> "sample", id |-> e]
  /\ clash' = IF a = b THEN NewClash(e, {a}) \cup {e} ELSE NewClash(e, {a, b})
  /\ UNCHANGED <<g_counters, trigger, level, edges, overrun, turn, missed>>

(* The levels the encoder starts from. *)
SampleEncoder ==
  /\ config.step = "sample"
  /\ LET e == config.id
         s == g_encoders[e]
     IN /\ g_encoders' = [g_encoders EXCEPT ![e].last_state =
                             encoder_state(s.pin_a, s.pin_b, level)]
        /\ turn' = [turn EXCEPT ![e] = 0]
        /\ missed' = missed \ {e}
  /\ config' = [config EXCEPT !.step = "attach_a"]
  /\ UNCHANGED <<g_counters, irqVars, level, clash, edges, overrun>>

(* Mutant: only pin_a is attached. *)
AttachEncoder_a ==
  LET e == config.id
      p == g_encoders[e].pin_a
  IN /\ config.step = "attach_a"
     /\ isr' = [isr EXCEPT ![p] = e]
     /\ trigger' = [trigger EXCEPT ![p] = "Both"]
     /\ pending' = pending \ {p}
     /\ config' = [step |-> "done"]
     /\ UNCHANGED <<slotVars, level, historyVars>>

(* attachInterrupt of one pin of the encoder. *)
AttachEncoder ==
  LET e == config.id
      p == IF config.step = "attach_a" THEN g_encoders[e].pin_a
                                       ELSE g_encoders[e].pin_b
  IN /\ config.step \in {"attach_a", "attach_b"}
     /\ isr' = [isr EXCEPT ![p] = e]
     /\ trigger' = [trigger EXCEPT ![p] = "Both"]
     /\ pending' = pending \ {p}
     /\ config' = IF config.step = "attach_a"
                    THEN [config EXCEPT !.step = "attach_b"]
                    ELSE [step |-> "done"]
     /\ UNCHANGED <<slotVars, level, historyVars>>

(* A quarter turn not yet sampled is still counted after the reset. *)
EncoderReset(e) ==
  LET s == g_encoders[e]
  IN /\ Idle
     /\ s.active
     /\ g_encoders' = [g_encoders EXCEPT ![e].position = 0]
     /\ turn' = [turn EXCEPT ![e] =
          Wrap(encoder_delta(s.last_state, encoder_state(s.pin_a, s.pin_b, level)))]
     /\ UNCHANGED <<g_counters, irqVars, level, config, clash, edges, overrun, missed>>

(* The part of the ResetConfig command that is about the slots: the pins of
   every active slot are detached and the slots cleared. *)
ResetConfig ==
  /\ Idle
  /\ LET held == UNION {PinsOf(s) : s \in Slots}
     IN /\ isr' = [p \in Pins |-> IF p \in held THEN NobodysPin ELSE isr[p]]
        /\ pending' = pending \ held
  /\ g_counters' = [c \in Counters |-> NoSlot]
  /\ g_encoders' = [e \in Encoders |-> NoSlot]
  /\ clash' = {}
  /\ UNCHANGED <<trigger, level, config, edges, overrun, turn, missed>>

-----------------------------------------------------------------------------
(* Interrupt handlers. *)

counter_tick(c) ==
  /\ IF g_counters[c].active
       THEN g_counters' = [g_counters EXCEPT ![c].count = Wrap(@ + 1)]
       ELSE UNCHANGED g_counters
  /\ UNCHANGED g_encoders

encoder_tick(e) ==
  LET s == g_encoders[e]
      current == encoder_state(s.pin_a, s.pin_b, level)
      delta == encoder_delta(s.last_state, current)
  IN /\ IF s.active
          THEN g_encoders' = [g_encoders EXCEPT ![e].position = Wrap(@ + delta),
                                                ![e].last_state = current]
          ELSE UNCHANGED g_encoders
     /\ UNCHANGED g_counters

(* The handler of a raised interrupt runs. *)
Interrupt(p) ==
  /\ p \in pending
  /\ pending' = pending \ {p}
  /\ IF isr[p] \in Counters THEN counter_tick(isr[p]) ELSE encoder_tick(isr[p])
  /\ UNCHANGED <<isr, trigger, level, config, historyVars>>

-----------------------------------------------------------------------------
(* The world: a pin changes its level. *)

Raises(edge, rising) == edge = "Both" \/ (edge = "Rising") = rising

(* The direction the shaft turns when its state goes from one value to the
   next: forwards is 0, 2, 3, 1 and round again. *)
QuarterTurn(from, to) ==
  LET forwards == {<<0, 2>>, <<2, 3>>, <<3, 1>>, <<1, 0>>}
  IN IF <<from, to>> \in forwards THEN 1 ELSE IF <<to, from>> \in forwards THEN -1 ELSE 0

Watching(e) == g_encoders[e].active /\ ~(config.step = "sample" /\ config.id = e)

Edge(p) ==
  LET lv == [level EXCEPT ![p] = ~@]
      counting == {c \in Counters : /\ p \in PinsOf(c)
                                    /\ Raises(g_counters[c].edge, lv[p])}
      State(e, l) == encoder_state(g_encoders[e].pin_a, g_encoders[e].pin_b, l)
      turning == {e \in Encoders : Watching(e) /\ p \in PinsOf(e)}
  IN /\ level' = lv
     /\ pending' = IF isr[p] # NobodysPin /\ Raises(trigger[p], lv[p])
                     THEN pending \cup {p} ELSE pending
     /\ edges' = [c \in Counters |-> IF c \in counting THEN Wrap(edges[c] + 1)
                                                       ELSE edges[c]]
     /\ overrun' = overrun \cup {c \in counting : p \in pending}
     /\ turn' = [e \in Encoders |->
          IF e \in turning THEN Wrap(turn[e] + QuarterTurn(State(e, level), State(e, lv)))
                           ELSE turn[e]]
     /\ missed' = missed \cup
          {e \in turning : State(e, lv) + g_encoders[e].last_state = 3}
     /\ UNCHANGED <<slotVars, isr, trigger, config, clash>>

Next ==
  \/ \E c \in Counters, p \in PinArgs, edge \in {"Rising", "Falling", "Both"} :
        configure_counter(c, p, edge)
  \/ \E c \in Counters : CounterReset(c)
  \/ \E e \in Encoders, a, b \in PinArgs, m \in Modes : configure_encoder(e, a, b, m)
  \/ SampleEncoder
  \/ AttachEncoder
  \/ \E e \in Encoders : EncoderReset(e)
  \/ ResetConfig
  \/ \E p \in Pins : Interrupt(p) \/ Edge(p)

Spec == Init /\ [][Next]_vars

-----------------------------------------------------------------------------
(* No interrupt handler serves a slot that is not configured on its pin:
   re-configuration and ResetConfig detach what they leave. *)
NoDanglingIsr ==
  \A p \in Pins : isr[p] # NobodysPin => p \in PinsOf(isr[p])

(* A slot that never shared a pin keeps its handlers: no configuration of
   another slot takes them away. *)
UnsharedIsAttached ==
  \A s \in Slots \ clash :
    Idle => \A p \in PinsOf(s) : isr[p] = s

(* A counter that shares no pin counts every edge of its kind once, as long
   as its interrupt is served before the next edge. *)
CounterTracks ==
  \A c \in Counters \ (clash \cup overrun) :
    g_counters[c].active =>
      edges[c] = Wrap(g_counters[c].count
                        + IF g_counters[c].pin \in pending THEN 1 ELSE 0)

(* An encoder's position and what its next sample will add is the travel of
   its shaft, unless both pins changed between two samples. *)
EncoderTracks ==
  \A e \in Encoders \ missed :
    Watching(e) =>
      LET s == g_encoders[e]
      IN turn[e] = Wrap(s.position + encoder_delta(s.last_state,
                                       encoder_state(s.pin_a, s.pin_b, level)))

(* The example configuration of docs/SAFETY_AND_CONFIG.md puts a counter on
   pin 6 and an encoder's pin_b on pin 6: an active slot has its handlers,
   shared pins or not. *)
ActiveIsAttached ==
  \A s \in Slots : Idle => \A p \in PinsOf(s) : isr[p] = s

=============================================================================
