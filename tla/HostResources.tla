---------------------------- MODULE HostResources ----------------------------
(***************************************************************************)
(* The host's view of the board: the YAML file and its validation, the     *)
(* handles of resources/*.py, the identifiers the client gives them,       *)
(* configure_all, and calls on handles, one after the other.  The board is *)
(* what it remembers of them; any command may be refused, or be lost on    *)
(* its way or on the way back.                                             *)
(*                                                                         *)
(* A handle is <<class, name>>; it is configured when it has a number in   *)
(* ref: physical_pin, id or bus.  The board's slots are <<class, number>>, *)
(* with "gpio" for pins and PWMs, which share the physical pins.  Of an    *)
(* entry's fields the model has what it is attached to, whether its        *)
(* options are supported ones, whether its numbers fit the payload, and    *)
(* whether it starts an output high.                                       *)
(*                                                                         *)
(* Bounds: MaxWork on entries and calls together, MaxEdges, MaxTimeouts.   *)
(***************************************************************************)
EXTENDS Integers, SequencesExt, FiniteSetsExt

CONSTANTS
  Names,
  Pins,
  Junk,          \* a YAML value that is neither an integer nor a name
  Resolutions,   \* resolution_bits of DACs
  CountMod,      \* values of the board's counts: 2^32
  MaxEntries, MaxWork, MaxEdges, MaxTimeouts

ASSUME HostAssumption ==
  /\ CountMod \in Nat \ {0}
  /\ Resolutions \subseteq Nat
  /\ Pins \subseteq Nat
  /\ {MaxEntries, MaxTimeouts} \subseteq Nat
  /\ \A n \in Names \cup {Junk} : n \notin Int   \* names are strings
  /\ Junk \notin Names

VARIABLES
  config,        \* the file, _config once it is loaded
  todo,          \* entries configure_all has not come to
  configured,    \* how far the last configure_all got
  ref,           \* physical_pin, id or bus of the handles that have one
  ids,           \* _counter_ids, _encoder_ids, _dac_ids: names by identifier
  bits,          \* resolution_bits of DAC handles
  last,          \* _last_count, _last_position
  board,         \* slots in use, what they hold and for which handle
  stopped,       \* the board refuses to energize outputs
  call,          \* the last call
  result,        \* how it ended
  calls, edges, timeouts,
  since,         \* history: edges since a handle was last read or reset
  skewed,        \* history: handles whose count the board has cleared since
  doubtful       \* history: handles whose last configuration was not acknowledged

configVars == <<config, todo, configured>>
handleVars == <<ref, ids, bits, last>>
callVars == <<call, result>>
historyVars == <<since, skewed, doubtful>>
vars == <<configVars, handleVars, board, stopped, callVars, calls, edges, timeouts, historyVars>>

-----------------------------------------------------------------------------
(* The file. *)

(* Where configure_all comes to a type of entry, and the handle it uses. *)
Section == [digital_output |-> 1, pwm |-> 1, analog |-> 1, input |-> 2,
            counter |-> 3, encoder |-> 4, i2c_bus |-> 5, dac |-> 6]

ClassOf == [digital_output |-> "pin", input |-> "pin", pwm |-> "pwm", analog |-> "analog",
            counter |-> "counter", encoder |-> "encoder", i2c_bus |-> "bus", dac |-> "dac"]

Handle(e) == <<ClassOf[e.type], e.name>>

Counting == {"counter", "encoder"}

Energizing == {"digital_output", "pwm"}

Entry(types, at, resolutions) ==
  [type : types, name : Names, at : at, bits : resolutions, high : {FALSE},
   supported : {TRUE}, fits : {TRUE}]

Entries ==
  LET plain == Entry({"digital_output", "pwm", "input"}, Pins, {0})
                 \cup Entry({"analog", "encoder"}, {1}, {0})
                 \cup Entry({"counter"}, Pins \cup Names, {0})
  IN plain \cup {[e EXCEPT !.high = TRUE] : e \in {d \in plain : d.type \in Energizing}}

I2cEntries == Entry({"i2c_bus"}, {0, 1}, {0}) \cup Entry({"dac"}, Names, Resolutions)

Flawed(e) == {[e EXCEPT !.supported = FALSE], [e EXCEPT !.fits = FALSE], [e EXCEPT !.at = Junk]}

(* Sections in their order, a name once in each; in a file of less than the most
   entries, the last may have a flaw. *)
Files ==
  {f \in UNION {BoundedSeq(S, MaxEntries) : S \in {Entries, I2cEntries}} :
     \A i, j \in DOMAIN f : i < j =>
       /\ Section[f[i].type] <= Section[f[j].type]
       /\ Section[f[i].type] = Section[f[j].type] => f[i].name # f[j].name}

FlawedFiles == UNION {{Append(Front(f), e) : e \in Flawed(Last(f))} :
                        f \in {g \in Files : Len(g) \in 1 .. MaxEntries - 1}}

(* Mutant: an option that is not supported is left to configure_all. *)
validate_config_any_option(c) ==
  \A e \in Range(c) : IF e.type = "dac" THEN e.at \in Names ELSE e.type = "counter" \/ e.at \in Int

(* validate_config raises for any other file.  It takes any source of a counter,
   and does not compare numbers with the range of their field. *)
validate_config(c) ==
  \A e \in Range(c) :
    /\ e.supported
    /\ CASE e.type = "counter" -> TRUE
         [] e.type = "dac" -> e.at \in Names
         [] OTHER -> e.at \in Int

-----------------------------------------------------------------------------
(* What configuring a handle does: the number it takes, the slot it asks for and
   what the slot is to hold, and whether the call raises "first", before the
   handle changes, or "late", after that and before the command. *)

HasRef(h) == h \in DOMAIN ref

Plan(e, number, slot, holds, error) ==
  [entry |-> e, number |-> number, slot |-> slot, error |-> error,
   holds |-> [by |-> Handle(e), holds |-> holds, value |-> IF e.high THEN 1 ELSE 0]]

Error(e, first, late) == CASE first \/ ~e.supported \/ e.at = Junk -> "first"
                           [] OTHER -> IF late THEN "late" ELSE "none"

(* Mutant: every name gets the first identifier. *)
IdOf_first(class, name) == 0

(* _counter_id, _encoder_id, _dac_id: len(dict) for a new name. *)
IdOf(class, name) ==
  IF name \in Range(ids[class])
    THEN (CHOOSE i \in DOMAIN ids[class] : ids[class][i] = name) - 1
    ELSE Len(ids[class])

(* Pin.configure_output and configure_input, PwmOutput.configure. *)
ConfigureGpio(e) ==
  Plan(e, e.at, <<"gpio", e.at>>, e.type, Error(e, FALSE, ~e.fits))

(* AnalogInput.configure. *)
ConfigureAnalog(e) == Plan(e, e.at, <<"analog", e.at>>, "analog", Error(e, FALSE, ~e.fits))

(* spec.get("pin") or spec.get("input"): pin 0 counts as missing. *)
Source(e) == IF e.at = 0 THEN Junk ELSE e.at

(* PulseCounter.attach and _resolve_pin. *)
AttachCounter(e) ==
  LET source == Source(e)
      known == source \in Int \/ HasRef(<<"pin", source>>)
      pin == IF source \in Int THEN source ELSE IF known THEN ref[<<"pin", source>>] ELSE 0
      id == IdOf("counter", e.name)
  IN Plan(e, id, <<"counter", id>>, pin, Error(e, ~known, ~e.fits))

(* QuadratureEncoder.attach. *)
AttachEncoder(e) ==
  LET id == IdOf("encoder", e.name)
  IN Plan(e, id, <<"encoder", id>>, e.at, Error(e, FALSE, ~e.fits))

(* I2cBus.configure. *)
ConfigureBus(e) == Plan(e, e.at, <<"bus", e.at>>, "bus", Error(e, ~e.fits, FALSE))

(* DacOutput.attach_i2c: the address is looked at after the identifier is taken. *)
AttachDac(e) ==
  LET bus == <<"bus", e.at>>
      id == IdOf("dac", e.name)
  IN Plan(e, id, <<"dac", id>>, [bus |-> IF HasRef(bus) THEN ref[bus] ELSE 0, bits |-> e.bits],
          Error(e, ~HasRef(bus), ~e.fits))

PlanOf(e) == CASE ClassOf[e.type] \in {"pin", "pwm"} -> ConfigureGpio(e)
               [] e.type = "analog" -> ConfigureAnalog(e)
               [] e.type = "counter" -> AttachCounter(e)
               [] e.type = "encoder" -> AttachEncoder(e)
               [] e.type = "i2c_bus" -> ConfigureBus(e)
               [] e.type = "dac" -> AttachDac(e)

-----------------------------------------------------------------------------
Results == {"acknowledged", "refused", "timeout", "raised"}

TypeOK ==
  /\ Range(todo) \subseteq Range(config)
  /\ configured \in {"no", "running", "returned"} \cup Results
  /\ \A h \in DOMAIN ref : h[2] \in Names /\ ref[h] \in Nat
  /\ \A class \in DOMAIN ids : IsInjective(ids[class]) /\ Range(ids[class]) \subseteq Names
  /\ bits \in [Names -> {12} \cup Resolutions]
  /\ \A s \in DOMAIN board : board[s].value \in Nat
  /\ result \in Results
  /\ timeouts \in 0 .. MaxTimeouts

Init ==
  /\ config \in {f \in Files \cup FlawedFiles : validate_config(f)}
  /\ todo = <<>> /\ configured = "no"
  /\ ref = <<>> /\ ids = [class \in {"counter", "encoder", "dac"} |-> <<>>]
  /\ bits = [n \in Names |-> 12]
  /\ last = [h \in Counting \X Names |-> 0]
  /\ board = <<>> /\ stopped \in BOOLEAN
  /\ call = [op |-> "none"] /\ result = "acknowledged"
  /\ calls = 0 /\ edges = 0 /\ timeouts = 0
  /\ since = [h \in Counting \X Names |-> 0] /\ skewed = {} /\ doubtful = {}

(* _command: the board refuses or does what it is asked to, and either the
   command or its answer may be lost. *)
Command(c, refused, after) ==
  /\ call' = c
  /\ \/ /\ board' = IF refused THEN board ELSE after
        /\ result' = IF refused THEN "refused" ELSE "acknowledged"
        /\ UNCHANGED timeouts
     \/ /\ timeouts < MaxTimeouts
        /\ timeouts' = timeouts + 1
        /\ board' = board \/ (~refused /\ board' = after)
        /\ result' = "timeout"

Raise(c) == call' = c /\ result' = "raised" /\ UNCHANGED <<board, timeouts>>

Acknowledged == result' = "acknowledged"

(* f with y at x, which need not be in its domain. *)
With(f, x, y) == [z \in DOMAIN f \cup {x} |-> IF z = x THEN y ELSE f[z]]

(* A call that configures e's handle. *)
Configure(e) ==
  LET p == PlanOf(e)
      h == Handle(e)
      c == [op |-> "configure", handle |-> h]
      refused == (e.high /\ stopped)
                   \/ (e.type = "dac" /\ <<"bus", p.holds.holds.bus>> \notin DOMAIN board)
  IN /\ IF p.error = "none" THEN Command(c, refused, With(board, p.slot, p.holds))
                            ELSE Raise(c)
     /\ ref' = IF p.error = "first" THEN ref ELSE With(ref, h, p.number)
     /\ ids' = IF p.error = "first" \/ h[1] \notin DOMAIN ids \/ h[2] \in Range(ids[h[1]]) THEN ids
               ELSE [ids EXCEPT ![h[1]] = Append(@, h[2])]
     /\ bits' = IF p.error = "none" /\ e.type = "dac" THEN [bits EXCEPT ![h[2]] = e.bits] ELSE bits
     /\ doubtful' = CASE Acknowledged -> doubtful \ {h}
                      [] p.error = "first" -> doubtful
                      [] OTHER -> doubtful \cup {h}
     /\ skewed' = IF h[1] \in Counting /\ HasRef(h) /\ board' # board THEN skewed \cup {h} ELSE skewed
     /\ UNCHANGED <<config, last, stopped, edges, since>>

(* configure_all, an entry at a time; the first exception ends it. *)
ConfigureAll ==
  /\ todo' = config
  /\ configured' = IF config = <<>> THEN "returned" ELSE "running"
  /\ UNCHANGED <<config, handleVars, board, stopped, callVars, edges, timeouts, historyVars>>

ConfigureNext ==
  /\ todo # <<>>
  /\ Configure(Head(todo))
  /\ todo' = IF Acknowledged THEN Tail(todo) ELSE <<>>
  /\ configured' = IF ~Acknowledged THEN result'
                   ELSE IF Len(todo) = 1 THEN "returned" ELSE "running"
  /\ UNCHANGED calls

(* A script attaches a DAC again, to another bus or with another resolution. *)
AttachAgain(e) == Configure(e) /\ configured' = "no" /\ UNCHANGED todo

reset_config ==
  /\ Command([op |-> "reset_config"], FALSE, <<>>)
  /\ configured' = "no"
  /\ skewed' = IF board' # board THEN skewed \cup {h \in DOMAIN ref : h[1] \in Counting} ELSE skewed
  /\ doubtful' = doubtful \cup DOMAIN ref
  /\ UNCHANGED <<config, todo, handleVars, stopped, edges, since>>

emergency_stop(active) ==
  /\ Command([op |-> "emergency_stop", active |-> active], FALSE, board)
  /\ stopped' \in IF Acknowledged THEN {active} ELSE {active, stopped}
  /\ UNCHANGED <<configVars, handleVars, edges, historyVars>>

-----------------------------------------------------------------------------
(* Counters and encoders. *)

SlotOf(h) == <<IF h[1] \in {"pin", "pwm"} THEN "gpio" ELSE h[1], ref[h]>>

Signed(v) == IF v >= CountMod \div 2 THEN v - CountMod ELSE v

(* An edge on the board. *)
Edge(s) ==
  /\ edges < MaxEdges /\ s[1] \in Counting
  /\ edges' = edges + 1
  /\ board' = [board EXCEPT ![s].value = (@ + 1) % CountMod]
  /\ since' = [since EXCEPT ![board[s].by] = @ + 1]
  /\ UNCHANGED <<configVars, handleVars, stopped, callVars, calls, timeouts, skewed, doubtful>>

(* Mutant: the count is not kept. *)
delta_forgets(h) ==
  LET known == SlotOf(h) \in DOMAIN board
      count == IF known THEN Signed(board[SlotOf(h)].value) ELSE 0
  IN /\ h[1] \in Counting
     /\ Command([op |-> "delta", error |-> count - last[h] - since[h], excused |-> h \in skewed],
                ~known, board)
     /\ IF Acknowledged
          THEN /\ since' = [since EXCEPT ![h] = 0]
               /\ skewed' = skewed \ {h}
          ELSE UNCHANGED <<since, skewed>>
     /\ UNCHANGED <<configVars, last, ref, ids, bits, stopped, edges, doubtful>>

(* delta(): the count against that of the last delta() or reset(), here
   compared with the edges since then. *)
delta(h) ==
  LET known == SlotOf(h) \in DOMAIN board
      count == IF known THEN Signed(board[SlotOf(h)].value) ELSE 0
  IN /\ h[1] \in Counting
     /\ Command([op |-> "delta", error |-> count - last[h] - since[h], excused |-> h \in skewed],
                ~known, board)
     /\ IF Acknowledged
          THEN /\ last' = [last EXCEPT ![h] = count]
               /\ since' = [since EXCEPT ![h] = 0]
               /\ skewed' = skewed \ {h}
          ELSE UNCHANGED <<last, since, skewed>>
     /\ UNCHANGED <<configVars, ref, ids, bits, stopped, edges, doubtful>>

(* PulseCounter.reset, QuadratureEncoder.reset. *)
reset(h) ==
  LET known == SlotOf(h) \in DOMAIN board
  IN /\ h[1] \in Counting
     /\ Command([op |-> "reset"], ~known,
                IF known THEN [board EXCEPT ![SlotOf(h)].value = 0] ELSE board)
     /\ IF Acknowledged
          THEN /\ last' = [last EXCEPT ![h] = 0]
               /\ since' = [since EXCEPT ![h] = 0]
               /\ skewed' = skewed \ {h}
          ELSE /\ skewed' = IF board' # board THEN skewed \cup {h} ELSE skewed
               /\ UNCHANGED <<last, since>>
     /\ UNCHANGED <<configVars, ref, ids, bits, stopped, edges, doubtful>>

-----------------------------------------------------------------------------
(* Outputs. *)

MaxValue(resolution_bits) == 2^resolution_bits - 1

(* Mutant: the handle's resolution is not looked at. *)
InRange_any(h, v) == TRUE

(* The check of DacOutput.write_raw. *)
InRange(h, v) == h[1] = "dac" => v <= MaxValue(bits[h[2]])

(* Pin.write, PwmOutput.write, DacOutput.write_raw: the board clamps a DAC's
   value, and takes a digital write to any pin. *)
write(h, v) ==
  LET s == SlotOf(h)
      known == s \in DOMAIN board
      clamped == IF h[1] = "dac" THEN Min({v, MaxValue(board[s].holds.bits)}) ELSE v
      put == IF known THEN [board EXCEPT ![s].value = clamped] ELSE board
      refused == \/ stopped
                 \/ h[1] = "pwm" /\ ~(known /\ board[s].holds = "pwm")
                 \/ h[1] = "dac" /\ ~known
      c == [op |-> "write", handle |-> h, value |-> v]
  IN /\ h[1] \in {"pin", "pwm", "dac"}
     /\ IF InRange(h, v) THEN Command(c, refused, put) ELSE Raise(c)
     /\ UNCHANGED <<configVars, handleVars, stopped, edges, historyVars>>

-----------------------------------------------------------------------------
Values == {0, 1} \cup {MaxValue(r) : r \in Resolutions}

Idle == todo = <<>>

(* The calls of a script. *)
Call ==
  /\ Idle
  /\ Len(config) + calls < MaxWork
  /\ calls' = calls + 1
  /\ \/ ConfigureAll
     \/ \E e \in {d \in I2cEntries : d.type = "dac" /\ Handle(d) \in DOMAIN ref} : AttachAgain(e)
     \/ reset_config
     \/ \E active \in BOOLEAN : emergency_stop(active)
     \/ \E h \in DOMAIN ref : delta(h) \/ reset(h) \/ (\E v \in Values : write(h, v))

Next == Call \/ ConfigureNext \/ \E s \in DOMAIN board : Edge(s)

Spec == Init /\ [][Next]_vars

-----------------------------------------------------------------------------
(* configure_all: when it returns, every entry is on the board as the file has
   it, in a slot of its own: later sections find the pins and buses of earlier
   ones, and no two names share an identifier.  Where two entries are for one
   pin or one handle, the later one has it. *)
AppliedAsWritten ==
  configured = "returned" =>
    \A i \in DOMAIN config :
      LET e == config[i]
          s == SlotOf(Handle(e))
          taken(d) == \/ Handle(d) = Handle(e)
                      \/ /\ SlotOf(Handle(d))[1] = s[1] /\ d.at = e.at
                         /\ s[1] \in {"gpio", "analog", "bus"}
          source == {j \in DOMAIN config : ClassOf[config[j].type] = "pin" /\ config[j].name = e.at}
          target == {j \in DOMAIN config : config[j].type = "i2c_bus" /\ config[j].name = e.at}
      IN \/ \E j \in i + 1 .. Len(config) : taken(config[j])
         \/ /\ s \in DOMAIN board
            /\ board[s].by = Handle(e)
            /\ e.type = "counter" =>
                 board[s].holds = IF e.at \in Int THEN e.at ELSE config[Max(source)].at
            /\ e.type = "dac" =>
                 board[s].holds = [bus |-> config[Max(target)].at, bits |-> e.bits]

(* load_config and configure_all: a file that validates, whose names resolve and
   whose numbers fit, is applied whatever the state of the stop, unless it
   starts an output high; only a lost answer can get in the way. *)
QuietConfigApplies ==
  LET resolves(e) ==
        CASE e.type = "counter" ->
               e.at \in Int \ {0}
                 \/ \E d \in Range(config) : ClassOf[d.type] = "pin" /\ d.name = e.at
          [] e.type = "dac" -> \E d \in Range(config) : d.type = "i2c_bus" /\ d.name = e.at
          [] OTHER -> TRUE
  IN /\ configured = "raised" => \E e \in Range(config) : ~resolves(e) \/ ~e.fits
     /\ configured = "refused" => \E e \in Range(config) : e.high

(* delta(): the edges since the last delta() or reset(), modulo the width of the
   count, also around its wrap and when an answer was lost; a count that the
   board has cleared behind the handle's back spoils one delta and no more. *)
DeltaExact ==
  call.op = "delta" /\ result = "acknowledged" /\ ~call.excused
    => call.error % CountMod = 0

(* A write that is acknowledged puts the very value where the name says: the
   range the host checks is the one the board has, unless the last configuration
   of the handle was not acknowledged or another handle took its slot. *)
WriteExact ==
  call.op = "write" /\ result = "acknowledged" /\ call.handle \notin doubtful =>
    LET s == SlotOf(call.handle)
    IN s \in DOMAIN board /\ (board[s].by = call.handle => board[s].value = call.value)

=============================================================================
