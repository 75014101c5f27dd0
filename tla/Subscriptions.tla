---------------------------- MODULE Subscriptions ----------------------------
(***************************************************************************)
(* The firmware's subscription slots: Subscribe and Unsubscribe, and       *)
(* update_subscriptions, which samples a slot's resource, queues an event  *)
(* when the value has changed and a telemetry frame when one is due.       *)
(*                                                                         *)
(* What happens to a queued frame is AsyncOutbound's matter.  A slot is a  *)
(* step of update_subscriptions, because the signals move while it runs;   *)
(* the clock stands still meanwhile (it is read once).  A rate is in       *)
(* frames per Second milliseconds.                                         *)
(***************************************************************************)
EXTENDS Integers, FiniteSetsExt

CONSTANTS
  DigitalPins,       \* resources that can always be read
  Counters,          \* resources that can be read while they are configured:
                     \* counters, encoders, DACs and analog pins
  Rates, Flags,      \* what Subscribe carries
  Second,            \* 1000 on the board
  SubClockMod,       \* 2^32 on the board
  kMaxSubscriptions

ASSUME SubAssumption ==
  /\ DigitalPins # {}
  /\ Rates \subseteq Nat
  /\ Second \in Nat \ {0}
  /\ SubClockMod \in Nat \ {0}
  /\ kMaxSubscriptions \in Nat

Resources == DigitalPins \cup Counters
SubSlots == 0 .. kMaxSubscriptions - 1
Unknown == -1

VARIABLES
  subscriptions_,
  millis,
  turn,              \* the slot update_subscriptions is at
  signal,            \* value of each resource
  configured,        \* the counters in use
  age,               \* history: time since a slot was due first or last reported
  wrapped,           \* history: the clock, or the due time, has wrapped since
  sampled,           \* history: what the firmware last read for a slot
  known              \* history: what a host knows that was told the first sample
                     \* and has followed the slot's events

subVars == <<subscriptions_, millis, turn, signal, configured, age, wrapped,
             sampled, known>>

SubscriptionSlot ==
  [active |-> FALSE, resource |-> CHOOSE r \in DigitalPins : TRUE, rate_hz |-> 0,
   flags |-> {}, next_due_ms |-> 0, last_value |-> 0, has_last_value |-> FALSE]

SubInit ==
  /\ subscriptions_ = [i \in SubSlots |-> SubscriptionSlot]
  /\ millis = 0
  /\ turn = kMaxSubscriptions
  /\ signal \in [Resources -> {0, 1}]
  /\ configured = {}
  /\ age = [i \in SubSlots |-> 0]
  /\ wrapped = [i \in SubSlots |-> FALSE]
  /\ sampled = [i \in SubSlots |-> Unknown]
  /\ known = [i \in SubSlots |-> Unknown]

Idle == turn = kMaxSubscriptions

CanRead(r) == r \in DigitalPins \cup configured

(* 1000 / rate_hz, and at least a millisecond. *)
Interval(rate) == Max({1, Second \div rate})

SubTypeOK ==
  /\ subscriptions_ \in
       [SubSlots -> [active : BOOLEAN, resource : Resources, rate_hz : Rates \cup {0},
                     flags : Flags \cup {{}}, next_due_ms : 0 .. SubClockMod - 1,
                     last_value : {0, 1}, has_last_value : BOOLEAN]]
  /\ millis \in 0 .. SubClockMod - 1
  /\ turn \in 0 .. kMaxSubscriptions
  /\ signal \in [Resources -> {0, 1}]
  /\ configured \subseteq Counters
  /\ age \in [SubSlots -> 0 .. Second]
  /\ wrapped \in [SubSlots -> BOOLEAN]
  /\ {sampled, known} \subseteq [SubSlots -> {0, 1, Unknown}]
  /\ \A i \in SubSlots : subscriptions_[i].active \/ subscriptions_[i] = SubscriptionSlot

-----------------------------------------------------------------------------
(* The first free slot; when there is none the command is refused. *)
Subscribe(r, rate, flags) ==
  LET free == {i \in SubSlots : ~subscriptions_[i].active}
  IN /\ Idle /\ CanRead(r) /\ free # {}
     /\ subscriptions_' = [subscriptions_ EXCEPT ![Min(free)] =
          [SubscriptionSlot EXCEPT !.active = TRUE, !.resource = r, !.rate_hz = rate,
                                   !.flags = flags, !.next_due_ms = millis]]
     /\ age' = [age EXCEPT ![Min(free)] = Second]
     /\ wrapped' = [wrapped EXCEPT ![Min(free)] = FALSE]
     /\ sampled' = [sampled EXCEPT ![Min(free)] = Unknown]
     /\ known' = [known EXCEPT ![Min(free)] = Unknown]
     /\ UNCHANGED <<millis, turn, signal, configured>>

(* Mutant: a slot is marked free and keeps what it held. *)
Free_flag_only(slots) ==
  /\ subscriptions_' = [i \in SubSlots |->
       IF i \in slots THEN [subscriptions_[i] EXCEPT !.active = FALSE] ELSE subscriptions_[i]]
  /\ UNCHANGED <<age, wrapped, sampled, known>>

Free(slots) ==
  LET Without(f, x) == [i \in SubSlots |-> IF i \in slots THEN x ELSE f[i]]
  IN /\ subscriptions_' = Without(subscriptions_, SubscriptionSlot)
     /\ age' = Without(age, 0) /\ wrapped' = Without(wrapped, FALSE)
     /\ sampled' = Without(sampled, Unknown) /\ known' = Without(known, Unknown)

Unsubscribe(r) ==
  /\ Idle
  /\ Free({i \in SubSlots : subscriptions_[i].active /\ subscriptions_[i].resource = r})
  /\ UNCHANGED <<millis, turn, signal, configured>>

(* The part of ResetConfig that is about counters and subscriptions. *)
SubResetConfig ==
  /\ Idle
  /\ Free(SubSlots)
  /\ configured' = {}
  /\ UNCHANGED <<millis, turn, signal>>

ConfigCounter(r) ==
  /\ Idle
  /\ configured' = configured \cup {r}
  /\ UNCHANGED <<subscriptions_, millis, turn, signal, age, wrapped, sampled, known>>

(* Mutant: a slot that wants no edge in particular gets no event. *)
Wants_named_edge(s, value) ==
  s.resource \in Counters \/ (IF value = 1 THEN "rising" ELSE "falling") \in s.flags

(* Only a digital pin's slot can ask for one kind of edge. *)
Wants(s, value) ==
  \/ s.resource \in Counters
  \/ s.flags \cap {"rising", "falling"} = {}
  \/ (IF value = 1 THEN "rising" ELSE "falling") \in s.flags

HasEvent(s, value) ==
  /\ "on_change" \in s.flags
  /\ s.has_last_value /\ value # s.last_value
  /\ Wants(s, value)

(* Mutant: the clock that has just passed the due time is early. *)
IsDue_after(s) == s.rate_hz # 0 /\ millis > s.next_due_ms

(* Both times are on the wrapping clock. *)
IsDue(s) == s.rate_hz # 0 /\ millis >= s.next_due_ms

StartSubscriptions ==
  /\ Idle
  /\ turn' = 0
  /\ UNCHANGED <<subscriptions_, millis, signal, configured, age, wrapped, sampled, known>>

(* Between two updates, or between two slots. *)
SignalChanges(r) ==
  /\ signal' = [signal EXCEPT ![r] = 1 - @]
  /\ UNCHANGED <<subscriptions_, millis, turn, configured, age, wrapped, sampled, known>>

(* A slot whose resource cannot be read any more is freed. *)
SkipSlot ==
  /\ ~Idle
  /\ turn' = turn + 1
  /\ LET s == subscriptions_[turn]
     IN /\ ~(s.active /\ CanRead(s.resource))
        /\ Free({turn})
  /\ UNCHANGED <<millis, signal, configured>>

UpdateSlot ==
  /\ ~Idle
  /\ turn' = turn + 1
  /\ LET s == subscriptions_[turn]
         value == signal[s.resource]
         due == millis + Interval(s.rate_hz)
         told == ~s.has_last_value \/ HasEvent(s, value)
     IN /\ s.active /\ CanRead(s.resource)
        /\ subscriptions_' = [subscriptions_ EXCEPT ![turn] =
             [s EXCEPT !.last_value = value, !.has_last_value = TRUE,
                       !.next_due_ms = IF IsDue(s) THEN due % SubClockMod ELSE @]]
        /\ known' = [known EXCEPT ![turn] = IF told THEN value ELSE @]
        /\ sampled' = [sampled EXCEPT ![turn] = value]
        /\ age' = [age EXCEPT ![turn] = IF IsDue(s) THEN 0 ELSE @]
        /\ wrapped' = [wrapped EXCEPT ![turn] = IF IsDue(s) THEN due >= SubClockMod ELSE @]
  /\ UNCHANGED <<millis, signal, configured>>

SubTick ==
  /\ Idle
  /\ millis' = (millis + 1) % SubClockMod
  /\ LET running(i) == subscriptions_[i].active /\ subscriptions_[i].rate_hz # 0
     IN /\ age' = [i \in SubSlots |-> IF running(i) THEN Min({Second, age[i] + 1}) ELSE age[i]]
        /\ wrapped' = [i \in SubSlots |-> wrapped[i] \/ (running(i) /\ millis' = 0)]
  /\ UNCHANGED <<subscriptions_, turn, signal, configured, sampled, known>>

SubNext ==
  \/ \E r \in Resources :
       \/ \E rate \in Rates, flags \in Flags : Subscribe(r, rate, flags)
       \/ Unsubscribe(r) \/ SignalChanges(r)
  \/ \E r \in Counters : ConfigCounter(r)
  \/ SubResetConfig
  \/ StartSubscriptions \/ SkipSlot \/ UpdateSlot
  \/ SubTick

SubSpec == SubInit /\ [][SubNext]_subVars

-----------------------------------------------------------------------------
EdgesAsked(s) ==
  LET named == s.flags \cap {"rising", "falling"}
  IN IF s.resource \in Counters \/ named = {} THEN {"rising", "falling"} ELSE named

(* update_subscriptions compares with the last sample, not with the last event:
   an on_change slot tells of every edge it was asked for, and of no other, so
   whoever follows its events is right whenever the last edge was one of those. *)
EventsTrackValue ==
  \A i \in SubSlots :
    LET s == subscriptions_[i]
    IN s.active /\ "on_change" \in s.flags =>
         /\ sampled[i] = 1 /\ "rising" \in EdgesAsked(s) => known[i] = 1
         /\ sampled[i] = 0 /\ "falling" \in EdgesAsked(s) => known[i] = 0

(* next_due_ms and its comparison with the clock: a slot reports no sooner than
   its interval after its last report, and in the first update from then on,
   except where the clock or the due time has wrapped in between (there the
   comparison is wrong: the slot reports in every update, or not at all until
   the clock has come round). *)
TelemetryAtRate ==
  [][\A i \in SubSlots :
       LET s == subscriptions_[i]
           reports == age[i] # 0 /\ age'[i] = 0
       IN s.active /\ turn = i /\ turn' = i + 1 /\ CanRead(s.resource) /\ ~wrapped[i] =>
            reports = (s.rate_hz # 0 /\ age[i] >= Interval(s.rate_hz))]_subVars

=============================================================================
