----------------------------- MODULE HostProofs -----------------------------
(***************************************************************************)
(* Proofs about HostResources and Bridge: what is read from a count and    *)
(* written to an output is exact, and configure_all puts on the board what *)
(* the file says, for scripts and under the bridge; what the bridge        *)
(* publishes is in order and under its name; ok means done.                *)
(*                                                                         *)
(* The invariant of the host, HostInv, relates the handles to the board:   *)
(* identifiers are never shared (HandlesInv), a counting slot is for a     *)
(* handle that refers to it (SlotsInv), its count is that of the handle    *)
(* and the edges since, but for whole rounds (CountsInv), and a handle     *)
(* whose configuration was acknowledged has its slot (SettledInv).  On top *)
(* of it, BridgeInv relates names, subscriptions and queues, and RunInv    *)
(* the entries configure_all has gone through to the board.                *)
(* TypesInv adds that every number and every value is one; it needs that   *)
(* the file validated.  ApplicationInv is what holds of the two            *)
(* applications that TLC runs, a script and the bridge.                    *)
(***************************************************************************)
EXTENDS MCBridge, InductionLemmas, FiniteSetTheorems

Classes == {"pin", "pwm", "analog", "counter", "encoder", "bus", "dac"}

Handles == Classes \X Names

Types == {"digital_output", "pwm", "analog", "input", "counter", "encoder", "i2c_bus", "dac"}

(* The entries of a file. *)
FileEntry ==
  {e \in [type : Types, name : Names, at : Pins \cup Names \cup {0, 1, Junk},
          bits : {0} \cup Resolutions, high : BOOLEAN, supported : BOOLEAN, fits : BOOLEAN] :
     /\ e.high => e.type \in Energizing
     /\ e.type = "dac" => e.bits \in Resolutions}

FilesInv == config \in Seq(FileEntry) /\ todo \in Seq(FileEntry)

(* The classes whose handles get an identifier. *)
Numbering == {"counter", "encoder", "dac"}

(* A handle that has an identifier is the one that has this name. *)
HandlesInv ==
  /\ DOMAIN ref \subseteq Handles
  /\ ids \in [Numbering -> Seq(Names)]
  /\ \A class \in Numbering : \A i, j \in DOMAIN ids[class] :
        ids[class][i] = ids[class][j] => i = j
  /\ \A h \in DOMAIN ref : h[1] \in Numbering =>
        ref[h] \in Nat /\ ref[h] + 1 \in DOMAIN ids[h[1]] /\ ids[h[1]][ref[h] + 1] = h[2]
  /\ bits \in [Names -> Nat]

Counts == Counting \X Names

(* A count on the board is for a handle that refers to its slot. *)
SlotsInv ==
  \A s \in DOMAIN board :
    /\ board[s] = [by |-> board[s].by, holds |-> board[s].holds, value |-> board[s].value]
    /\ s[1] \in Counting =>
        /\ board[s].by \in DOMAIN ref /\ board[s].by \in Counts /\ s = SlotOf(board[s].by)
        /\ board[s].value \in Nat

Same(m, n) == (m - n) % CountMod = 0

(* What a count is the count of: last and the edges since. *)
CountsInv ==
  /\ since \in [Counts -> Int] /\ last \in [Counts -> Int]
  /\ \A h \in Counts \ DOMAIN ref : since[h] = 0 /\ last[h] = 0
  /\ \A h \in Counts \cap DOMAIN ref :
       h \notin skewed /\ SlotOf(h) \in DOMAIN board =>
         Same(board[SlotOf(h)].value, last[h] + since[h])

(* The board has the slot, and a DAC as the host knows it. *)
Settled(h) ==
  /\ SlotOf(h) \in DOMAIN board
  /\ h[1] = "dac" => board[SlotOf(h)].holds.bits = bits[h[2]]

SettledInv == \A h \in DOMAIN ref : h \notin doubtful => Settled(h)

CallInv ==
  /\ DeltaExact /\ WriteExact
  /\ call.op = "write" => call.handle \in DOMAIN ref /\ call.handle[1] \in {"pin", "pwm", "dac"}

-----------------------------------------------------------------------------
(* Differences that are whole rounds of the counter. *)
LEMMA SameRounds ==
  ASSUME NEW m \in Int, NEW n \in Int
  PROVE  /\ Same(m, n) => \E k \in Int : m - n = k * CountMod
         /\ \A k \in Int : m - n = k * CountMod => Same(m, n)
<1>1. ASSUME NEW x \in Int, x % CountMod = 0
      PROVE  x = (x \div CountMod) * CountMod /\ x \div CountMod \in Int
  BY <1>1, HostAssumption
<1>2. ASSUME NEW x \in Int, NEW k \in Int, x = k * CountMod
      PROVE  x % CountMod = 0
  BY <1>2, HostAssumption
<1>3. m - n \in Int
  OBVIOUS
<1> QED
  BY <1>1, <1>2, <1>3 DEF Same

(* An edge, at the wrap too. *)
LEMMA SameEdge ==
  ASSUME NEW m \in Nat, NEW n \in Int, Same(m, n)
  PROVE  (m + 1) % CountMod \in Nat /\ Same((m + 1) % CountMod, n + 1)
<1> DEFINE M == CountMod
           q == (m + 1) \div M
           r == (m + 1) % M
<1>1. PICK k \in Int : m - n = k * M
  BY SameRounds
<1>2. q \in Int /\ r \in Nat /\ m + 1 = M * q + r
  BY HostAssumption
<1>3. M \in Int
  BY HostAssumption
<1> HIDE DEF q, r, M
<1>4. r - (n + 1) = (k - q) * M
  <2>1. (k - q) * M = k * M - M * q /\ k * M \in Int /\ M * q \in Int
    BY <1>2, <1>3
  <2> QED
    BY <1>1, <1>2, <1>3, <2>1
<1>5. Same(r, n + 1)
  <2>1. r \in Int /\ n + 1 \in Int /\ k - q \in Int
    BY <1>2
  <2> QED
    BY <1>4, <2>1, SameRounds DEF M
<1> QED
  BY <1>2, <1>5 DEF q, r, M

(* A count read as a signed number is the same count. *)
LEMMA SameSigned ==
  ASSUME NEW m \in Nat, NEW n \in Int, Same(m, n)
  PROVE  Signed(m) \in Int /\ Same(Signed(m), n)
<1> DEFINE M == CountMod
<1>1. PICK k \in Int : m - n = k * M
  BY SameRounds
<1>2. M \in Int
  BY HostAssumption
<1>3. Signed(m) = m \/ Signed(m) = m - M
  BY DEF Signed
<1> HIDE DEF M
<1>4. (m - M) - n = (k - 1) * M
  <2>1. (k - 1) * M = k * M - M /\ k * M \in Int
    BY <1>2
  <2> QED
    BY <1>1, <1>2, <2>1
<1>5. Same(m - M, n)
  <2>1. m - M \in Int /\ k - 1 \in Int
    BY <1>2
  <2> QED
    BY <1>4, <2>1, SameRounds DEF M
<1> QED
  BY <1>2, <1>3, <1>5

(* A number is itself, and a signed count too. *)
LEMMA SameSelf ==
  ASSUME NEW n \in Int
  PROVE  Same(n, n)
<1>1. n - n = 0 * CountMod
  BY HostAssumption
<1> QED
  BY <1>1, SameRounds

(* What a slot holds but for its value stays. *)
LEMMA Revalued ==
  ASSUME SlotsInv, NEW s \in DOMAIN board, NEW v
  PROVE  LET b == [board EXCEPT ![s].value = v]
         IN /\ DOMAIN b = DOMAIN board
            /\ b[s] = [by |-> board[s].by, holds |-> board[s].holds, value |-> v]
            /\ \A z \in DOMAIN board : z # s => b[z] = board[z]
<1>1. board[s] = [by |-> board[s].by, holds |-> board[s].holds, value |-> board[s].value]
  BY DEF SlotsInv
<1>2. [board[s] EXCEPT !.value = v] = [by |-> board[s].by, holds |-> board[s].holds, value |-> v]
  BY <1>1
<1> QED
  BY <1>2

(* What a command leaves behind. *)
LEMMA CommandEnds ==
  ASSUME NEW c, NEW refused, NEW after, Command(c, refused, after)
  PROVE  /\ call' = c
         /\ board' = board \/ (~refused /\ board' = after)
         /\ Acknowledged => ~refused /\ board' = after
BY DEF Command, Acknowledged

(* The identifier of a name, a new one for a new name. *)
LEMMA IdOfName ==
  ASSUME HandlesInv, NEW class \in Numbering, NEW name \in Names
  PROVE  LET i == IdOf(class, name)
             s == ids[class]
         IN /\ i \in Nat
            /\ name \in Range(s) => i + 1 \in DOMAIN s /\ s[i + 1] = name
            /\ name \notin Range(s) => i = Len(s)
<1> DEFINE s == ids[class]
<1>1. s \in Seq(Names)
  BY DEF HandlesInv
<1> HIDE DEF s
<1>2. Len(s) \in Nat /\ DOMAIN s = 1 .. Len(s)
  BY <1>1
<1>3. IdOf(class, name) = IF name \in Range(s) THEN (CHOOSE j \in DOMAIN s : s[j] = name) - 1 ELSE Len(s)
  BY DEF IdOf, s
<1>4. CASE name \in Range(s)
  <2> DEFINE j == CHOOSE j \in DOMAIN s : s[j] = name
  <2>1. j \in DOMAIN s /\ s[j] = name
    BY <1>4 DEF Range
  <2>2. IdOf(class, name) = j - 1
    BY <1>3, <1>4
  <2> HIDE DEF j
  <2>3. j - 1 \in Nat /\ (j - 1) + 1 = j
    BY <1>2, <2>1
  <2> QED
    BY <1>4, <2>1, <2>2, <2>3 DEF s
<1>5. CASE name \notin Range(s)
  BY <1>2, <1>3, <1>5 DEF s
<1> QED
  BY <1>4, <1>5

(* A handle keeps its identifier. *)
LEMMA IdStays ==
  ASSUME HandlesInv, NEW h \in DOMAIN ref, h[1] \in Numbering
  PROVE  IdOf(h[1], h[2]) = ref[h] /\ h[2] \in Range(ids[h[1]])
<1> DEFINE s == ids[h[1]]
           i == IdOf(h[1], h[2])
<1>1. h[2] \in Names
  BY DEF HandlesInv, Handles
<1>2. ref[h] \in Nat /\ ref[h] + 1 \in DOMAIN s /\ s[ref[h] + 1] = h[2]
  BY DEF HandlesInv
<1>3. h[2] \in Range(s)
  BY <1>2 DEF Range
<1>4. i \in Nat /\ i + 1 \in DOMAIN s /\ s[i + 1] = h[2]
  BY <1>1, <1>3, IdOfName
<1>5. i + 1 = ref[h] + 1
  BY <1>2, <1>4 DEF HandlesInv
<1> HIDE DEF i
<1>6. i = ref[h]
  BY <1>2, <1>4, <1>5
<1> QED
  BY <1>3, <1>6 DEF i

(* What configuring an entry's handle comes to, whatever its class. *)
LEMMA PlanFacts ==
  ASSUME NEW e \in FileEntry
  PROVE  LET p == PlanOf(e)
             h == Handle(e)
         IN /\ h \in Handles
            /\ p.slot = <<IF h[1] \in {"pin", "pwm"} THEN "gpio" ELSE h[1], p.number>>
            /\ h[1] \in Numbering => p.number = IdOf(h[1], h[2])
            /\ p.holds = [by |-> h, holds |-> p.holds.holds, value |-> IF e.high THEN 1 ELSE 0]
            /\ h[1] = "dac" <=> e.type = "dac"
            /\ h[1] = "dac" => p.holds.holds.bits = e.bits
            /\ h[1] \in Counting => ~e.high
<1>1. /\ e.type \in Types /\ e.name \in Names
      /\ e.high => e.type \in Energizing
  BY DEF FileEntry
<1>2. CASE e.type \in {"digital_output", "input", "pwm"}
  BY <1>1, <1>2 DEF PlanOf, ConfigureGpio, Plan, Handle, ClassOf, Handles, Classes, Numbering, Counting
<1>3. CASE e.type = "analog"
  BY <1>1, <1>3 DEF PlanOf, ConfigureAnalog, Plan, Handle, ClassOf, Handles, Classes, Numbering, Counting
<1>4. CASE e.type = "counter"
  BY <1>1, <1>4 DEF PlanOf, AttachCounter, Plan, Handle, ClassOf, Handles, Classes, Numbering, Counting, Energizing
<1>5. CASE e.type = "encoder"
  BY <1>1, <1>5 DEF PlanOf, AttachEncoder, Plan, Handle, ClassOf, Handles, Classes, Numbering, Counting, Energizing
<1>6. CASE e.type = "i2c_bus"
  BY <1>1, <1>6 DEF PlanOf, ConfigureBus, Plan, Handle, ClassOf, Handles, Classes, Numbering, Counting
<1>7. CASE e.type = "dac"
  BY <1>1, <1>7 DEF PlanOf, AttachDac, Plan, Handle, ClassOf, Handles, Classes, Numbering, Counting
<1> QED
  BY <1>1, <1>2, <1>3, <1>4, <1>5, <1>6, <1>7 DEF Types

(* Two handles that both have a number share it only in different classes, and
   so have different slots. *)
LEMMA SlotsDiffer ==
  ASSUME HandlesInv, NEW g \in DOMAIN ref, NEW h \in DOMAIN ref, g # h, g[1] \in Numbering
  PROVE  SlotOf(g) # SlotOf(h)
<1>1. g \in Handles /\ h \in Handles
  BY DEF HandlesInv
<1>2. g = <<g[1], g[2]>> /\ h = <<h[1], h[2]>> /\ h[1] \in Classes
  BY <1>1 DEF Handles
<1> SUFFICES ASSUME SlotOf(g) = SlotOf(h) PROVE FALSE
  OBVIOUS
<1>3. g[1] = h[1] /\ ref[g] = ref[h]
  <2>1. /\ (IF g[1] \in {"pin", "pwm"} THEN "gpio" ELSE g[1])
             = (IF h[1] \in {"pin", "pwm"} THEN "gpio" ELSE h[1])
        /\ ref[g] = ref[h]
    BY DEF SlotOf
  <2>2. g[1] \notin {"pin", "pwm"} /\ g[1] # "gpio"
    BY DEF Numbering
  <2> QED
    BY <2>1, <2>2
<1>4. g[2] = h[2]
  BY <1>3 DEF HandlesInv
<1> QED
  BY <1>2, <1>3, <1>4

(* A call that configures leaves the handles, identifiers and resolutions like this. *)
LEMMA ConfigureHandles ==
  ASSUME HandlesInv, NEW e \in FileEntry, Configure(e), PlanOf(e).error # "first"
  PROVE  LET p == PlanOf(e)
             h == Handle(e)
         IN /\ HandlesInv'
            /\ DOMAIN ref' = DOMAIN ref \cup {h} /\ ref'[h] = p.number
            /\ \A g \in DOMAIN ref : g[1] \in Numbering \/ g # h => ref'[g] = ref[g]
            /\ \A n \in Names : h[1] # "dac" \/ n # h[2] => bits'[n] = bits[n]
<1> DEFINE p == PlanOf(e)
           h == Handle(e)
<1>1. /\ h \in Handles
      /\ h[1] \in Numbering => p.number = IdOf(h[1], h[2])
      /\ h[1] = "dac" <=> e.type = "dac"
  BY PlanFacts
<1>2. /\ ref' = With(ref, h, p.number)
      /\ ids' = IF h[1] \notin DOMAIN ids \/ h[2] \in Range(ids[h[1]]) THEN ids
                ELSE [ids EXCEPT ![h[1]] = Append(@, h[2])]
      /\ bits' = IF p.error = "none" /\ e.type = "dac" THEN [bits EXCEPT ![h[2]] = e.bits] ELSE bits
  BY DEF Configure
<1> HIDE DEF p, h
<1>3. h = <<h[1], h[2]>> /\ h[1] \in Classes /\ h[2] \in Names
  BY <1>1 DEF Handles
<1>4. /\ DOMAIN ref \subseteq Handles
      /\ ids \in [Numbering -> Seq(Names)] /\ DOMAIN ids = Numbering
      /\ \A class \in Numbering : \A i, j \in DOMAIN ids[class] : ids[class][i] = ids[class][j] => i = j
      /\ \A g \in DOMAIN ref : g[1] \in Numbering =>
            ref[g] \in Nat /\ ref[g] + 1 \in DOMAIN ids[g[1]] /\ ids[g[1]][ref[g] + 1] = g[2]
      /\ bits \in [Names -> Nat]
  BY DEF HandlesInv
<1>5. /\ DOMAIN ref' = DOMAIN ref \cup {h} /\ ref'[h] = p.number
      /\ \A g \in DOMAIN ref : g # h => ref'[g] = ref[g]
  BY <1>2 DEF With
<1>6. \A g \in DOMAIN ref : g[1] \in Numbering => ref'[g] = ref[g]
  <2> SUFFICES ASSUME NEW g \in DOMAIN ref, g[1] \in Numbering
               PROVE  ref'[g] = ref[g]
    OBVIOUS
  <2>1. CASE g = h
    BY <1>1, <1>5, <2>1, IdStays
  <2> QED
    BY <1>5, <2>1
<1>7. bits' \in [Names -> Nat] /\ \A n \in Names : h[1] # "dac" \/ n # h[2] => bits'[n] = bits[n]
  <2>1. e.bits \in Nat
    <3>1. e.bits = 0 \/ e.bits \in Resolutions
      BY DEF FileEntry
    <3>2. \A r \in Resolutions : r \in Nat
      BY HostAssumption
    <3> QED
      BY <3>1, <3>2
  <2> QED
    BY <1>1, <1>2, <1>4, <2>1
<1>8. /\ ids' \in [Numbering -> Seq(Names)]
      /\ \A class \in Numbering : \A i, j \in DOMAIN ids'[class] : ids'[class][i] = ids'[class][j] => i = j
      /\ \A class \in Numbering : \A i \in DOMAIN ids[class] :
            i \in DOMAIN ids'[class] /\ ids'[class][i] = ids[class][i]
      /\ h[1] \in Numbering =>
            p.number \in Nat /\ p.number + 1 \in DOMAIN ids'[h[1]] /\ ids'[h[1]][p.number + 1] = h[2]
  <2> DEFINE c == h[1]
             s == ids[c]
  <2>1. CASE c \notin Numbering
    <3>1. ids' = ids
      BY <1>2, <1>4, <2>1
    <3> QED
      BY <1>4, <2>1, <3>1
  <2>2. CASE c \in Numbering /\ h[2] \in Range(s)
    <3>1. ids' = ids
      BY <1>2, <2>2
    <3>2. p.number \in Nat /\ p.number + 1 \in DOMAIN s /\ s[p.number + 1] = h[2]
      BY <1>1, <1>3, <2>2, IdOfName
    <3> QED
      BY <1>4, <3>1, <3>2
  <2>3. CASE c \in Numbering /\ h[2] \notin Range(s)
    <3>1. ids' = [ids EXCEPT ![c] = Append(s, h[2])]
      BY <1>2, <1>4, <2>3
    <3>2. s \in Seq(Names) /\ Len(s) \in Nat /\ DOMAIN s = 1 .. Len(s)
      BY <1>4, <2>3
    <3> DEFINE t == Append(s, h[2])
    <3>3. /\ t \in Seq(Names) /\ DOMAIN t = 1 .. Len(s) + 1
          /\ \A i \in 1 .. Len(s) : t[i] = s[i]
          /\ t[Len(s) + 1] = h[2]
      BY <1>3, <3>2
    <3>4. p.number = Len(s)
      BY <1>1, <1>3, <2>3, IdOfName
    <3>5. \A i \in 1 .. Len(s) : s[i] # h[2]
      BY <2>3, <3>2 DEF Range
    <3>6. ids'[c] = t /\ \A class \in Numbering \ {c} : ids'[class] = ids[class]
      BY <1>4, <2>3, <3>1
    <3>7. ids' \in [Numbering -> Seq(Names)]
      BY <1>4, <2>3, <3>1, <3>3
    <3> HIDE DEF t
    <3>8. \A i \in 1 .. Len(s) + 1 : i \in 1 .. Len(s) \/ i = Len(s) + 1
      BY <3>2
    <3>9. \A i, j \in 1 .. Len(s) + 1 : t[i] = t[j] => i = j
      <4>1. \A i, j \in 1 .. Len(s) : s[i] = s[j] => i = j
        BY <1>4, <2>3, <3>2
      <4> QED
        BY <3>3, <3>5, <3>8, <4>1
    <3>10. Len(s) + 1 \in 1 .. Len(s) + 1 /\ 1 .. Len(s) \subseteq 1 .. Len(s) + 1
      BY <3>2
    <3> HIDE DEF s
    <3>11. \A class \in Numbering : \A i, j \in DOMAIN ids'[class] : ids'[class][i] = ids'[class][j] => i = j
      <4> TAKE class \in Numbering
      <4>1. CASE class = c
        BY <3>3, <3>6, <3>9, <4>1
      <4>2. CASE class # c
        BY <1>4, <3>6, <4>2
      <4> QED
        BY <4>1, <4>2
    <3>12. \A class \in Numbering : \A i \in DOMAIN ids[class] :
             i \in DOMAIN ids'[class] /\ ids'[class][i] = ids[class][i]
      <4> TAKE class \in Numbering
      <4>1. CASE class = c
        BY <3>2, <3>3, <3>6, <3>10, <4>1 DEF s
      <4>2. CASE class # c
        BY <3>6, <4>2
      <4> QED
        BY <4>1, <4>2
    <3>13. p.number \in Nat /\ p.number + 1 \in DOMAIN ids'[h[1]] /\ ids'[h[1]][p.number + 1] = h[2]
      BY <3>2, <3>3, <3>4, <3>6, <3>10
    <3> QED
      BY <3>7, <3>11, <3>12, <3>13
  <2> QED
    BY <2>1, <2>2, <2>3
<1>9. ASSUME NEW g \in DOMAIN ref', g[1] \in Numbering
      PROVE  ref'[g] \in Nat /\ ref'[g] + 1 \in DOMAIN ids'[g[1]] /\ ids'[g[1]][ref'[g] + 1] = g[2]
  <2>1. CASE g = h
    BY <1>5, <1>8, <1>9, <2>1
  <2>2. CASE g \in DOMAIN ref
    BY <1>4, <1>6, <1>8, <1>9, <2>2
  <2> QED
    BY <1>5, <2>1, <2>2
<1>10. HandlesInv'
  <2>1. DOMAIN ref' \subseteq Handles
    BY <1>1, <1>4, <1>5 DEF h
  <2> QED
    BY <1>7, <1>8, <1>9, <2>1 DEF HandlesInv
<1> QED
  BY <1>5, <1>6, <1>7, <1>10 DEF p, h

(* A handle that has a number, or gets one of its own, shares no slot. *)
LEMMA OwnSlot ==
  ASSUME HandlesInv, NEW e \in FileEntry, Configure(e), PlanOf(e).error # "first",
         NEW g \in DOMAIN ref, g # Handle(e), g[1] \in Numbering \/ Handle(e)[1] \in Numbering
  PROVE  SlotOf(g) # PlanOf(e).slot
<1> DEFINE p == PlanOf(e)
           h == Handle(e)
<1>1. /\ HandlesInv' /\ DOMAIN ref' = DOMAIN ref \cup {h} /\ ref'[h] = p.number
      /\ g[1] \in Numbering => ref'[g] = ref[g]
  BY ConfigureHandles
<1>2. h \in Handles /\ p.slot = <<IF h[1] \in {"pin", "pwm"} THEN "gpio" ELSE h[1], p.number>>
  BY PlanFacts
<1>3. g \in Handles
  BY DEF HandlesInv
<1> HIDE DEF p, h
<1> SUFFICES ASSUME SlotOf(g) = p.slot PROVE FALSE
  BY DEF p
<1>4. /\ (IF g[1] \in {"pin", "pwm"} THEN "gpio" ELSE g[1]) = (IF h[1] \in {"pin", "pwm"} THEN "gpio" ELSE h[1])
      /\ ref[g] = p.number
  BY <1>2 DEF SlotOf
<1>5. g[1] = h[1] /\ g[1] \in Numbering
  <2>1. g[1] \in Classes /\ h[1] \in Classes /\ (g[1] \in Numbering \/ h[1] \in Numbering)
    BY <1>2, <1>3 DEF Handles, h
  <2> QED
    BY <1>4, <2>1 DEF Classes, Numbering
<1>6. g[2] = ids'[g[1]][ref'[g] + 1] /\ h[2] = ids'[h[1]][ref'[h] + 1]
  BY <1>1, <1>5 DEF HandlesInv
<1>7. g[2] = h[2]
  BY <1>1, <1>4, <1>5, <1>6
<1> QED
  BY <1>2, <1>3, <1>5, <1>7 DEF Handles, h

(* What the host knows of the board. *)
BoardInv == HandlesInv /\ SlotsInv /\ CountsInv /\ SettledInv /\ CallInv

(* A step that leaves handles, slots and counts alone. *)
LEMMA NothingMoved ==
  ASSUME HandlesInv, SlotsInv, CountsInv, SettledInv,
         UNCHANGED <<ref, ids, bits, board, since, last, skewed, doubtful>>
  PROVE  HandlesInv' /\ SlotsInv' /\ CountsInv' /\ SettledInv'
<1>1. \A h : SlotOf(h)' = SlotOf(h)
  BY DEF SlotOf
<1>2. \A h : Settled(h)' = Settled(h)
  BY <1>1 DEF Settled
<1> QED
  BY <1>1, <1>2 DEF HandlesInv, SlotsInv, CountsInv, SettledInv, Same

(* A call that configures a handle, whether the board takes it or not. *)
LEMMA ConfigureKeeps ==
  ASSUME HandlesInv, SlotsInv, CountsInv, SettledInv, NEW e \in FileEntry, Configure(e)
  PROVE  BoardInv'
<1> DEFINE p == PlanOf(e)
           h == Handle(e)
           c == [op |-> "configure", handle |-> h]
           after == With(board, p.slot, p.holds)
<1>1. /\ h \in Handles
      /\ p.slot = <<IF h[1] \in {"pin", "pwm"} THEN "gpio" ELSE h[1], p.number>>
      /\ p.holds = [by |-> h, holds |-> p.holds.holds, value |-> IF e.high THEN 1 ELSE 0]
      /\ h[1] = "dac" <=> e.type = "dac"
      /\ h[1] = "dac" => p.holds.holds.bits = e.bits
      /\ h[1] \in Counting => ~e.high
  BY PlanFacts
<1>2. /\ call' = c
      /\ board' = board \/ (board' = after /\ p.error = "none")
      /\ Acknowledged => board' = after /\ p.error = "none"
  <2> DEFINE refused == (e.high /\ stopped)
                   \/ (e.type = "dac" /\ <<"bus", p.holds.holds.bus>> \notin DOMAIN board)
  <2>1. IF p.error = "none" THEN Command(c, refused, after) ELSE Raise(c)
    BY DEF Configure
  <2> HIDE DEF p, refused, c, after
  <2>2. CASE p.error = "none"
    <3>1. Command(c, refused, after)
      BY <2>1, <2>2
    <3>2. call' = c /\ (board' = board \/ board' = after) /\ (Acknowledged => board' = after)
      BY <3>1, CommandEnds
    <3> QED
      BY <2>2, <3>2
  <2>3. CASE p.error # "none"
    BY <2>1, <2>3 DEF Raise, Acknowledged
  <2> QED
    BY <2>2, <2>3
<1>3. /\ p.error = "none" /\ e.type = "dac" => bits' = [bits EXCEPT ![h[2]] = e.bits]
      /\ doubtful' = CASE Acknowledged -> doubtful \ {h}
                       [] p.error = "first" -> doubtful
                       [] OTHER -> doubtful \cup {h}
      /\ skewed' = IF h[1] \in Counting /\ HasRef(h) /\ board' # board THEN skewed \cup {h} ELSE skewed
      /\ UNCHANGED <<last, since>>
  BY DEF Configure
<1>4. CallInv'
  <2>1. call'.op = "configure"
    BY <1>2
  <2> QED
    BY <2>1 DEF CallInv, DeltaExact, WriteExact
<1>5. CASE p.error = "first"
  <2>1. UNCHANGED <<ref, ids, bits>>
    BY <1>5 DEF Configure
  <2>2. UNCHANGED board /\ ~Acknowledged
    BY <1>2, <1>5
  <2>3. UNCHANGED <<doubtful, skewed>>
    BY <1>3, <1>5, <2>2
  <2> QED
    BY <1>3, <1>4, <2>1, <2>2, <2>3, NothingMoved DEF BoardInv
<1>6. CASE p.error # "first"
  <2>1. /\ HandlesInv'
        /\ DOMAIN ref' = DOMAIN ref \cup {h} /\ ref'[h] = p.number
        /\ \A g \in DOMAIN ref : g[1] \in Numbering \/ g # h => ref'[g] = ref[g]
        /\ \A n \in Names : h[1] # "dac" \/ n # h[2] => bits'[n] = bits[n]
    BY <1>6, ConfigureHandles
  <2>2. /\ DOMAIN after = DOMAIN board \cup {p.slot} /\ after[p.slot] = p.holds
        /\ \A s \in DOMAIN board : s # p.slot => after[s] = board[s]
    BY DEF With
  <2> HIDE DEF p, h, after, c
  <2>3. SlotOf(h)' = p.slot /\ h \in DOMAIN ref' /\ h = <<h[1], h[2]>> /\ h[1] \in Classes /\ h[2] \in Names
    BY <1>1, <2>1 DEF SlotOf, Handles
  <2>4. \A g \in DOMAIN ref : g[1] \in Numbering \/ g # h => SlotOf(g)' = SlotOf(g)
    BY <2>1 DEF SlotOf
  <2>5. ASSUME NEW g \in DOMAIN ref', g[1] \in Numbering, g # h
        PROVE  /\ g \in DOMAIN ref /\ SlotOf(g)' = SlotOf(g) /\ SlotOf(g) # p.slot
    <3>1. g \in DOMAIN ref
      BY <2>1, <2>5
    <3>2. ref'[g] = ref[g] /\ SlotOf(g)' = SlotOf(g)
      BY <2>1, <2>4, <2>5, <3>1
    <3>3. SlotOf(g) # p.slot
      BY <1>6, <2>5, <3>1, OwnSlot DEF p, h
    <3> QED
      BY <3>1, <3>2, <3>3
  <2>6. SlotsInv'
    <3> SUFFICES ASSUME NEW s \in DOMAIN board'
                 PROVE  /\ board'[s] = [by |-> board'[s].by, holds |-> board'[s].holds, value |-> board'[s].value]
                        /\ s[1] \in Counting =>
                            /\ board'[s].by \in DOMAIN ref' /\ board'[s].by \in Counts
                            /\ s = SlotOf(board[s].by)'
                            /\ board'[s].value \in Nat
      BY DEF SlotsInv
    <3>1. CASE s \in DOMAIN board /\ board'[s] = board[s]
      <4>1. /\ board[s] = [by |-> board[s].by, holds |-> board[s].holds, value |-> board[s].value]
            /\ s[1] \in Counting =>
                 /\ board[s].by \in DOMAIN ref /\ board[s].by \in Counts /\ s = SlotOf(board[s].by)
                 /\ board[s].value \in Nat
        BY <3>1 DEF SlotsInv
      <4>2. ASSUME s[1] \in Counting
            PROVE  /\ board'[s].by \in DOMAIN ref' /\ board'[s].by \in Counts
                   /\ s = SlotOf(board[s].by)'
                   /\ board'[s].value \in Nat
        <5>1. PICK g \in DOMAIN ref : g = board[s].by /\ g \in Counts /\ s = SlotOf(g)
          BY <4>1, <4>2
        <5>2. g[1] \in Numbering
          BY <5>1 DEF Counts, Counting, Numbering
        <5>3. g \in DOMAIN ref' /\ SlotOf(g)' = SlotOf(g)
          BY <2>1, <2>4, <5>2
        <5>4. board'[s].by = g
          BY <3>1, <5>1
        <5>5. s = SlotOf(board[s].by)'
          BY <5>1, <5>3, <5>4 DEF SlotOf
        <5> QED
          BY <3>1, <4>1, <4>2, <5>1, <5>3, <5>4, <5>5
      <4> QED
        BY <3>1, <4>1, <4>2
    <3>2. CASE s = p.slot /\ board'[s] = p.holds
      <4>1. p.holds.by = h /\ p.holds.value \in Nat
        BY <1>1
      <4>2. s[1] \in Counting => h \in Counts
        BY <1>1, <2>3, <3>2 DEF Counting, Counts
      <4>3. SlotOf(h)' = s
        BY <2>3, <3>2
      <4> QED
        BY <1>1, <2>3, <3>2, <4>1, <4>2, <4>3 DEF SlotOf
    <3> QED
      BY <1>2, <2>2, <3>1, <3>2
  <2>7. CountsInv'
    <3>1. since' = since /\ last' = last
      BY <1>3
    <3>2. /\ since \in [Counts -> Int] /\ last \in [Counts -> Int]
          /\ \A g \in Counts \ DOMAIN ref : since[g] = 0 /\ last[g] = 0
          /\ \A g \in Counts \cap DOMAIN ref :
               g \notin skewed /\ SlotOf(g) \in DOMAIN board =>
                 Same(board[SlotOf(g)].value, last[g] + since[g])
      BY DEF CountsInv
    <3>3. \A g \in Counts \ DOMAIN ref' : since'[g] = 0 /\ last'[g] = 0
      BY <2>1, <3>1, <3>2
    <3>4. ASSUME NEW g \in Counts \cap DOMAIN ref', g \notin skewed', SlotOf(g)' \in DOMAIN board'
          PROVE  Same(board'[SlotOf(g)'].value, last[g] + since[g])
      <4>1. g[1] \in Numbering /\ g[1] \in Counting
        BY <3>4 DEF Counts, Counting, Numbering
      <4>2. CASE g # h
        <5>1. g \in DOMAIN ref /\ SlotOf(g)' = SlotOf(g) /\ SlotOf(g) # p.slot
          BY <2>5, <4>1, <4>2
        <5>2. SlotOf(g) \in DOMAIN board /\ board'[SlotOf(g)] = board[SlotOf(g)]
          BY <1>2, <2>2, <3>4, <5>1
        <5>3. g \notin skewed
          BY <1>3, <3>4
        <5> QED
          BY <3>2, <3>4, <5>1, <5>2, <5>3
      <4>3. CASE g = h /\ h \in DOMAIN ref
        <5>1. board' = board /\ h \notin skewed
          BY <1>3, <3>4, <4>1, <4>3 DEF HasRef
        <5>2. SlotOf(h)' = SlotOf(h)
          BY <2>4, <4>1, <4>3
        <5> QED
          BY <3>2, <3>4, <4>3, <5>1, <5>2
      <4>4. CASE g = h /\ h \notin DOMAIN ref
        <5>1. since[g] = 0 /\ last[g] = 0
          BY <3>2, <3>4, <4>4
        <5>2. CASE board' = after
          <6>1. board'[SlotOf(g)'].value = 0
            BY <1>1, <2>2, <2>3, <4>1, <4>4, <5>2
          <6> QED
            BY <5>1, <6>1, SameSelf
        <5>3. CASE board' = board
          <6>1. p.slot \in DOMAIN board
            BY <2>3, <3>4, <4>4, <5>3
          <6> DEFINE d == board[p.slot].by
          <6>2. d \in DOMAIN ref /\ d \in Counts /\ p.slot = SlotOf(d)
            BY <1>1, <4>1, <4>4, <6>1 DEF SlotsInv, Counting
          <6> HIDE DEF d
          <6>3. d[1] \in Numbering /\ d # h /\ d \in DOMAIN ref'
            BY <2>1, <4>4, <6>2 DEF Counts, Counting, Numbering
          <6> QED
            BY <2>5, <6>2, <6>3
        <5> QED
          BY <1>2, <5>2, <5>3
      <4> QED
        BY <4>2, <4>3, <4>4
    <3> QED
      BY <3>1, <3>2, <3>3, <3>4 DEF CountsInv, Same
  <2>8. SettledInv'
    <3> SUFFICES ASSUME NEW g \in DOMAIN ref', g \notin doubtful'
                 PROVE  /\ SlotOf(g)' \in DOMAIN board'
                        /\ g[1] = "dac" => board'[SlotOf(g)'].holds.bits = bits'[g[2]]
      BY DEF SettledInv, Settled
    <3>1. CASE g = h
      <4>1. Acknowledged
        BY <1>3, <1>6, <3>1
      <4>2. board' = after /\ p.error = "none"
        BY <1>2, <4>1
      <4>3. board'[p.slot] = p.holds /\ p.slot \in DOMAIN board'
        BY <2>2, <4>2
      <4>4. h[1] = "dac" => bits'[h[2]] = e.bits
        <5>1. bits \in [Names -> Nat]
          BY DEF HandlesInv
        <5> QED
          BY <1>1, <1>3, <2>3, <4>2, <5>1
      <4> QED
        BY <1>1, <2>3, <3>1, <4>3, <4>4
    <3>2. CASE g # h
      <4>1. g \in DOMAIN ref /\ g \notin doubtful /\ SlotOf(g)' = SlotOf(g)
        BY <1>3, <2>1, <2>4, <3>2
      <4>2. SlotOf(g) \in DOMAIN board /\ (g[1] = "dac" => board[SlotOf(g)].holds.bits = bits[g[2]])
        BY <4>1 DEF SettledInv, Settled
      <4>3. SlotOf(g) \in DOMAIN board'
        BY <1>2, <2>2, <4>2
      <4>4. ASSUME g[1] = "dac"
            PROVE  board'[SlotOf(g)] = board[SlotOf(g)] /\ bits'[g[2]] = bits[g[2]]
        <5>1. SlotOf(g) # p.slot
          BY <2>5, <3>2, <4>4 DEF Numbering
        <5>2. g = <<g[1], g[2]>> /\ g[2] \in Names
          BY <4>1 DEF HandlesInv, Handles
        <5>3. bits'[g[2]] = bits[g[2]]
          BY <2>1, <2>3, <3>2, <4>4, <5>2
        <5> QED
          BY <1>2, <2>2, <4>2, <5>1, <5>3
      <4> QED
        BY <4>1, <4>2, <4>3, <4>4
    <3> QED
      BY <3>1, <3>2
  <2> QED
    BY <1>4, <2>1, <2>6, <2>7, <2>8 DEF BoardInv
<1> QED
  BY <1>5, <1>6

(* A call that asks the board something, or stops its outputs. *)
LEMMA AskKeeps ==
  ASSUME HandlesInv, SlotsInv, CountsInv, SettledInv, NEW c, NEW refused, Command(c, refused, board),
         c.op \notin {"delta", "write"}, UNCHANGED <<handleVars, historyVars>>
  PROVE  BoardInv'
<1>1. UNCHANGED <<ref, ids, bits, board, since, last, skewed, doubtful>> /\ call' = c
  BY CommandEnds DEF handleVars, historyVars
<1>2. CallInv'
  BY <1>1 DEF CallInv, DeltaExact, WriteExact
<1> QED
  BY <1>1, <1>2, NothingMoved DEF BoardInv

(* reset_config: the board forgets everything, or nothing. *)
LEMMA ForgetKeeps ==
  ASSUME HandlesInv, SlotsInv, CountsInv, SettledInv, reset_config
  PROVE  BoardInv'
<1>1. /\ call' = [op |-> "reset_config"] /\ (board' = board \/ board' = <<>>)
      /\ skewed' = IF board' # board THEN skewed \cup {h \in DOMAIN ref : h[1] \in Counting} ELSE skewed
      /\ doubtful' = doubtful \cup DOMAIN ref
      /\ UNCHANGED <<ref, ids, bits, last, since>>
  <2> DEFINE c == [op |-> "reset_config"]
  <2>1. Command(c, FALSE, <<>>)
    BY DEF reset_config
  <2> HIDE DEF c
  <2>2. call' = c /\ (board' = board \/ board' = <<>>)
    BY <2>1, CommandEnds
  <2> QED
    BY <2>2 DEF reset_config, handleVars, c
<1>2. CallInv'
  <2>1. call'.op = "reset_config"
    BY <1>1
  <2> QED
    BY <2>1 DEF CallInv, DeltaExact, WriteExact
<1>3. HandlesInv'
  BY <1>1 DEF HandlesInv
<1>4. DOMAIN <<>> = {}
  OBVIOUS
<1>5. \A h : SlotOf(h)' = SlotOf(h)
  BY <1>1 DEF SlotOf
<1>6. SlotsInv'
  <2>1. CASE board' = board
    BY <1>1, <1>5, <2>1 DEF SlotsInv
  <2>2. CASE board' = <<>>
    <3>1. DOMAIN board' = {}
      BY <1>4, <2>2
    <3> QED
      BY <3>1 DEF SlotsInv
  <2> QED
    BY <1>1, <2>1, <2>2
<1>7. CountsInv'
  <2>1. CASE board' = board
    BY <1>1, <1>5, <2>1 DEF CountsInv, Same
  <2>2. CASE board' = <<>>
    <3>1. DOMAIN board' = {}
      BY <1>4, <2>2
    <3> QED
      BY <1>1, <3>1 DEF CountsInv
  <2> QED
    BY <1>1, <2>1, <2>2
<1>8. SettledInv'
  BY <1>1 DEF SettledInv
<1> QED
  BY <1>2, <1>3, <1>6, <1>7, <1>8 DEF BoardInv

(* delta(): its result is right, and it starts the next one. *)
LEMMA DeltaKeeps ==
  ASSUME HandlesInv, SlotsInv, CountsInv, SettledInv, NEW h \in DOMAIN ref, delta(h)
  PROVE  BoardInv'
<1> DEFINE s == SlotOf(h)
           known == s \in DOMAIN board
           count == IF known THEN Signed(board[s].value) ELSE 0
           c == [op |-> "delta", error |-> count - last[h] - since[h], excused |-> h \in skewed]
<1>1. /\ call' = c /\ board' = board /\ (Acknowledged => known)
      /\ h[1] \in Counting
      /\ UNCHANGED <<ref, ids, bits, doubtful>>
      /\ Acknowledged => /\ last' = [last EXCEPT ![h] = count]
                         /\ since' = [since EXCEPT ![h] = 0]
                         /\ skewed' = skewed \ {h}
      /\ ~Acknowledged => UNCHANGED <<last, since, skewed>>
  <2>1. Command(c, ~known, board)
    BY DEF delta
  <2> HIDE DEF c, known
  <2>2. call' = c /\ board' = board /\ (Acknowledged => known)
    BY <2>1, CommandEnds
  <2>3. /\ h[1] \in Counting
        /\ UNCHANGED <<ref, ids, bits, doubtful>>
        /\ Acknowledged => /\ last' = [last EXCEPT ![h] = count]
                           /\ since' = [since EXCEPT ![h] = 0]
                           /\ skewed' = skewed \ {h}
        /\ ~Acknowledged => UNCHANGED <<last, since, skewed>>
    BY DEF delta, known
  <2> QED
    BY <2>2, <2>3
<1>2. /\ h \in Counts /\ h[1] \in Numbering
      /\ since \in [Counts -> Int] /\ last \in [Counts -> Int]
      /\ \A g \in Counts \ DOMAIN ref : since[g] = 0 /\ last[g] = 0
      /\ \A g \in Counts \cap DOMAIN ref :
           g \notin skewed /\ SlotOf(g) \in DOMAIN board =>
             Same(board[SlotOf(g)].value, last[g] + since[g])
  BY <1>1 DEF CountsInv, HandlesInv, Handles, Counts, Counting, Numbering
<1>3. ASSUME known
      PROVE  board[s].value \in Nat /\ count \in Int
  <2>1. s[1] \in Counting
    BY <1>1 DEF SlotOf, Counting
  <2>2. board[s].value \in Nat
    BY <1>3, <2>1 DEF SlotsInv
  <2> QED
    BY <1>3, <2>2, HostAssumption DEF Signed
<1> HIDE DEF count, known, s
<1>4. \A g : SlotOf(g)' = SlotOf(g)
  BY <1>1 DEF SlotOf
<1>5. HandlesInv' /\ SlotsInv' /\ SettledInv'
  BY <1>1, <1>4 DEF HandlesInv, SlotsInv, SettledInv, Settled
<1>6. CallInv'
  <2>1. ASSUME result' = "acknowledged", ~call'.excused
        PROVE  call'.error % CountMod = 0
    <3>1. known /\ h \notin skewed
      BY <1>1, <2>1 DEF Acknowledged
    <3> DEFINE n == last[h] + since[h]
    <3>2. Same(board[s].value, n) /\ last[h] \in Int /\ since[h] \in Int
      BY <1>2, <3>1 DEF known, s
    <3>3. Same(count, n)
      <4>1. n \in Int
        BY <3>2
      <4> HIDE DEF n
      <4>2. Same(Signed(board[s].value), n)
        BY <1>3, <3>1, <3>2, <4>1, SameSigned
      <4> QED
        BY <3>1, <4>2 DEF count
    <3>4. count - n = count - last[h] - since[h]
      BY <1>3, <3>1, <3>2
    <3>5. call'.error = count - last[h] - since[h]
      BY <1>1
    <3> HIDE DEF n
    <3> QED
      BY <3>3, <3>4, <3>5 DEF Same
  <2>2. call'.op = "delta"
    BY <1>1
  <2> QED
    BY <2>1, <2>2 DEF CallInv, DeltaExact, WriteExact
<1>7. CountsInv'
  <2>1. CASE ~Acknowledged
    BY <1>1, <1>4, <2>1 DEF CountsInv, Same
  <2>2. CASE Acknowledged
    <3>1. known
      BY <1>1, <2>2
    <3>2. /\ since' \in [Counts -> Int] /\ last' \in [Counts -> Int]
          /\ since'[h] = 0 /\ last'[h] = count
          /\ \A g \in Counts \ {h} : since'[g] = since[g] /\ last'[g] = last[g]
      BY <1>1, <1>2, <1>3, <2>2, <3>1
    <3>3. ASSUME NEW g \in Counts \cap DOMAIN ref, g \notin skewed', SlotOf(g) \in DOMAIN board
          PROVE  Same(board[SlotOf(g)].value, last'[g] + since'[g])
      <4>1. CASE g = h
        <5>1. Same(board[s].value, board[s].value)
          BY <1>3, <3>1, SameSelf
        <5>2. \E k \in Int : board[s].value - count = k * CountMod
          <6>1. Same(count, board[s].value)
            BY <1>3, <3>1, <5>1, SameSigned DEF count
          <6>2. PICK k \in Int : count - board[s].value = k * CountMod
            BY <1>3, <3>1, <6>1, SameRounds
          <6>3. board[s].value - count = (0 - k) * CountMod
            <7>1. (0 - k) * CountMod = 0 - k * CountMod /\ k * CountMod \in Int
              BY HostAssumption
            <7> QED
              BY <1>3, <3>1, <6>2, <7>1
          <6> QED
            BY <6>3
        <5>3. Same(board[s].value, count)
          BY <1>3, <3>1, <5>2, SameRounds
        <5>4. last'[g] + since'[g] = count
          BY <1>3, <3>1, <3>2, <4>1
        <5> QED
          BY <4>1, <5>3, <5>4 DEF s
      <4>2. CASE g # h
        <5>1. g \notin skewed
          BY <1>1, <2>2, <3>3, <4>2
        <5> QED
          BY <1>2, <3>2, <3>3, <4>2, <5>1
      <4> QED
        BY <4>1, <4>2
    <3>4. \A g \in Counts \ DOMAIN ref' : since'[g] = 0 /\ last'[g] = 0
      BY <1>1, <1>2, <3>2
    <3> QED
      BY <1>1, <1>4, <3>2, <3>3, <3>4 DEF CountsInv, Same
  <2> QED
    BY <2>1, <2>2
<1> QED
  BY <1>5, <1>6, <1>7 DEF BoardInv

(* A new value in a slot: what the handles and slots are stays. *)
LEMMA ValueKeeps ==
  ASSUME HandlesInv, SlotsInv, SettledInv, NEW s \in DOMAIN board, NEW v,
         board' = [board EXCEPT ![s].value = v], s[1] \in Counting => v \in Nat,
         UNCHANGED <<ref, ids, bits, doubtful>>
  PROVE  /\ HandlesInv' /\ SlotsInv' /\ SettledInv'
         /\ \A g : SlotOf(g)' = SlotOf(g)
         /\ DOMAIN board' = DOMAIN board /\ board'[s].value = v /\ board'[s].by = board[s].by
         /\ \A z \in DOMAIN board : z # s => board'[z] = board[z]
<1>1. /\ DOMAIN board' = DOMAIN board
      /\ board'[s] = [by |-> board[s].by, holds |-> board[s].holds, value |-> v]
      /\ \A z \in DOMAIN board : z # s => board'[z] = board[z]
  BY Revalued
<1>2. \A z \in DOMAIN board : board'[z].by = board[z].by /\ board'[z].holds = board[z].holds
  BY <1>1
<1>3. \A g : SlotOf(g)' = SlotOf(g)
  BY DEF SlotOf
<1>4. HandlesInv'
  BY DEF HandlesInv
<1>5. SlotsInv'
  <2> SUFFICES ASSUME NEW z \in DOMAIN board
               PROVE  /\ board'[z] = [by |-> board'[z].by, holds |-> board'[z].holds, value |-> board'[z].value]
                      /\ z[1] \in Counting =>
                          /\ board'[z].by \in DOMAIN ref /\ board'[z].by \in Counts
                          /\ z = SlotOf(board[z].by)'
                          /\ board'[z].value \in Nat
    BY <1>1 DEF SlotsInv
  <2>1. /\ board[z] = [by |-> board[z].by, holds |-> board[z].holds, value |-> board[z].value]
        /\ z[1] \in Counting =>
             /\ board[z].by \in DOMAIN ref /\ board[z].by \in Counts /\ z = SlotOf(board[z].by)
             /\ board[z].value \in Nat
    BY DEF SlotsInv
  <2>2. z[1] \in Counting => z = SlotOf(board[z].by)'
    BY <1>2, <2>1 DEF SlotOf
  <2>3. board'[z] = [by |-> board'[z].by, holds |-> board'[z].holds, value |-> board'[z].value]
    BY <1>1, <2>1
  <2>4. z[1] \in Counting => board'[z].value \in Nat
    BY <1>1, <2>1
  <2> QED
    BY <1>2, <2>1, <2>2, <2>3, <2>4
<1>6. SettledInv'
  <2> SUFFICES ASSUME NEW g \in DOMAIN ref, g \notin doubtful
               PROVE  /\ SlotOf(g) \in DOMAIN board
                      /\ g[1] = "dac" => board'[SlotOf(g)].holds.bits = bits[g[2]]
    BY <1>1, <1>3 DEF SettledInv, Settled
  <2> QED
    BY <1>2 DEF SettledInv, Settled
<1> QED
  BY <1>1, <1>3, <1>4, <1>5, <1>6

(* reset: the count and the handle start again together, or the count alone. *)
LEMMA ResetKeeps ==
  ASSUME HandlesInv, SlotsInv, CountsInv, SettledInv, NEW h \in DOMAIN ref, reset(h)
  PROVE  BoardInv'
<1> DEFINE s == SlotOf(h)
           known == s \in DOMAIN board
           after == IF known THEN [board EXCEPT ![s].value = 0] ELSE board
           c == [op |-> "reset"]
<1>1. /\ call' = c /\ (board' = board \/ board' = after)
      /\ Acknowledged => known /\ board' = after
      /\ h[1] \in Counting
      /\ UNCHANGED <<ref, ids, bits, doubtful>>
      /\ Acknowledged => /\ last' = [last EXCEPT ![h] = 0]
                         /\ since' = [since EXCEPT ![h] = 0]
                         /\ skewed' = skewed \ {h}
      /\ ~Acknowledged => /\ skewed' = IF board' # board THEN skewed \cup {h} ELSE skewed
                          /\ UNCHANGED <<last, since>>
  <2>1. Command(c, ~known, after)
    BY DEF reset
  <2> HIDE DEF c, known, after
  <2>2. call' = c /\ (board' = board \/ board' = after) /\ (Acknowledged => known /\ board' = after)
    BY <2>1, CommandEnds
  <2>3. /\ h[1] \in Counting
        /\ UNCHANGED <<ref, ids, bits, doubtful>>
        /\ Acknowledged => /\ last' = [last EXCEPT ![h] = 0]
                           /\ since' = [since EXCEPT ![h] = 0]
                           /\ skewed' = skewed \ {h}
        /\ ~Acknowledged => /\ skewed' = IF board' # board THEN skewed \cup {h} ELSE skewed
                            /\ UNCHANGED <<last, since>>
    BY DEF reset
  <2> QED
    BY <2>2, <2>3
<1>2. CallInv'
  <2>1. call'.op = "reset"
    BY <1>1
  <2> QED
    BY <2>1 DEF CallInv, DeltaExact, WriteExact
<1>3. /\ h \in Counts /\ h[1] \in Numbering
      /\ since \in [Counts -> Int] /\ last \in [Counts -> Int]
      /\ \A g \in Counts \ DOMAIN ref : since[g] = 0 /\ last[g] = 0
      /\ \A g \in Counts \cap DOMAIN ref :
           g \notin skewed /\ SlotOf(g) \in DOMAIN board =>
             Same(board[SlotOf(g)].value, last[g] + since[g])
  BY <1>1 DEF CountsInv, HandlesInv, Handles, Counts, Counting, Numbering
<1>4. /\ HandlesInv' /\ SlotsInv' /\ SettledInv'
      /\ \A g : SlotOf(g)' = SlotOf(g)
      /\ DOMAIN board' = DOMAIN board
      /\ \A z \in DOMAIN board : z # s => board'[z] = board[z]
      /\ board' # board => known /\ board'[s].value = 0
      /\ Acknowledged => known /\ board'[s].value = 0
  <2>1. CASE known /\ board' = after
    <3>1. board' = [board EXCEPT ![s].value = 0]
      BY <2>1
    <3> HIDE DEF s, after
    <3> QED
      BY <1>1, <2>1, <3>1, ValueKeeps DEF known
  <2>2. CASE board' = board /\ ~(known /\ board' = after)
    <3>1. \A g : SlotOf(g)' = SlotOf(g)
      BY <1>1 DEF SlotOf
    <3> HIDE DEF known, after
    <3>2. ~Acknowledged
      BY <1>1, <2>2
    <3> QED
      BY <1>1, <2>2, <3>1, <3>2 DEF HandlesInv, SlotsInv, SettledInv, Settled
  <2> QED
    BY <1>1, <2>1, <2>2
<1>5. ASSUME NEW g \in Counts \cap DOMAIN ref, g # h
      PROVE  SlotOf(g) # s
  <2>1. g[1] \in Numbering
    BY DEF Counts, Counting, Numbering
  <2> QED
    BY <1>5, <2>1, SlotsDiffer
<1> HIDE DEF s, known, after, c
<1>6. CountsInv'
  <2>1. /\ since' \in [Counts -> Int] /\ last' \in [Counts -> Int]
        /\ \A g \in Counts : g # h => since'[g] = since[g] /\ last'[g] = last[g]
        /\ Acknowledged => since'[h] = 0 /\ last'[h] = 0
        /\ ~Acknowledged => since' = since /\ last' = last
    BY <1>1, <1>3
  <2>2. \A g \in Counts \ DOMAIN ref' : since'[g] = 0 /\ last'[g] = 0
    BY <1>1, <1>3, <2>1
  <2>3. ASSUME NEW g \in Counts \cap DOMAIN ref, g \notin skewed', SlotOf(g) \in DOMAIN board
        PROVE  Same(board'[SlotOf(g)].value, last'[g] + since'[g])
    <3>1. CASE g # h
      <4>1. g \notin skewed
        BY <1>1, <2>3, <3>1
      <4>2. board'[SlotOf(g)] = board[SlotOf(g)]
        BY <1>4, <1>5, <2>3, <3>1
      <4> QED
        BY <1>3, <2>1, <2>3, <3>1, <4>1, <4>2
    <3>2. CASE g = h /\ Acknowledged
      <4>1. Same(0, 0)
        BY SameSelf
      <4>2. board'[s].value = 0 /\ last'[h] = 0 /\ since'[h] = 0
        BY <1>4, <2>1, <3>2
      <4>3. last'[h] + since'[h] = 0
        BY <4>2
      <4> QED
        BY <3>2, <4>1, <4>2, <4>3 DEF s
    <3>3. CASE g = h /\ ~Acknowledged
      <4>1. board' = board /\ h \notin skewed
        BY <1>1, <2>3, <3>3
      <4> QED
        BY <1>3, <2>1, <2>3, <3>3, <4>1
    <3> QED
      BY <3>1, <3>2, <3>3
  <2>4. ref' = ref
    BY <1>1
  <2> QED
    BY <1>4, <2>1, <2>2, <2>3, <2>4 DEF CountsInv, Same
<1> QED
  BY <1>2, <1>4, <1>6 DEF BoardInv

(* An edge: the board counts it and the history too. *)
LEMMA EdgeKeeps ==
  ASSUME BoardInv, NEW s \in DOMAIN board, Edge(s)
  PROVE  BoardInv'
<1> DEFINE n == (board[s].value + 1) % CountMod
<1>1. /\ s[1] \in Counting
      /\ board' = [board EXCEPT ![s].value = n]
      /\ since' = [since EXCEPT ![board[s].by] = @ + 1]
      /\ UNCHANGED <<ref, ids, bits, last, call, result, skewed, doubtful>>
  BY DEF Edge, configVars, handleVars, callVars
<1>2. HandlesInv /\ SlotsInv /\ CountsInv /\ SettledInv /\ CallInv
  BY DEF BoardInv
<1>3. PICK h \in DOMAIN ref : h = board[s].by /\ h \in Counts /\ s = SlotOf(h) /\ board[s].value \in Nat
  BY <1>1, <1>2 DEF SlotsInv
<1>4. n \in Nat
  BY <1>3, HostAssumption
<1> HIDE DEF n
<1>5. /\ HandlesInv' /\ SlotsInv' /\ SettledInv'
      /\ \A g : SlotOf(g)' = SlotOf(g)
      /\ DOMAIN board' = DOMAIN board /\ board'[s].value = n /\ board'[s].by = board[s].by
      /\ \A z \in DOMAIN board : z # s => board'[z] = board[z]
  BY <1>1, <1>2, <1>4, ValueKeeps
<1>6. /\ since \in [Counts -> Int] /\ last \in [Counts -> Int]
      /\ \A g \in Counts \ DOMAIN ref : since[g] = 0 /\ last[g] = 0
      /\ \A g \in Counts \cap DOMAIN ref :
           g \notin skewed /\ SlotOf(g) \in DOMAIN board =>
             Same(board[SlotOf(g)].value, last[g] + since[g])
  BY <1>2 DEF CountsInv
<1>7. since' = [since EXCEPT ![h] = since[h] + 1]
  BY <1>1, <1>3
<1>8. CountsInv'
  <2>1. since' \in [Counts -> Int] /\ \A g \in Counts : g # h => since'[g] = since[g]
    <3>1. since \in [Counts -> Int] /\ h \in Counts
      BY <1>3, <1>6
    <3>2. since[h] \in Int
      BY <3>1
    <3>3. since[h] + 1 \in Int
      BY <3>2
    <3> QED
      BY <1>7, <3>1, <3>3
  <2>2. since'[h] = since[h] + 1 /\ since[h] \in Int /\ last[h] \in Int
    BY <1>3, <1>6, <1>7
  <2>3. \A g \in Counts \ DOMAIN ref : since'[g] = 0 /\ last[g] = 0
    BY <1>3, <1>6, <2>1
  <2>4. ASSUME NEW g \in Counts \cap DOMAIN ref, g \notin skewed, SlotOf(g) \in DOMAIN board
        PROVE  Same(board'[SlotOf(g)].value, last[g] + since'[g])
    <3>1. CASE g = h
      <4> DEFINE m == last[h] + since[h]
      <4>1. Same(board[s].value, m) /\ m \in Int
        <5>1. h \in Counts \cap DOMAIN ref /\ h \notin skewed /\ SlotOf(h) \in DOMAIN board
          BY <2>4, <3>1
        <5>2. Same(board[SlotOf(h)].value, last[h] + since[h])
          BY <1>6, <5>1
        <5> QED
          BY <1>3, <2>2, <5>2
      <4>2. last[h] + since'[h] = m + 1
        BY <2>2
      <4> HIDE DEF m
      <4>3. Same(n, m + 1)
        BY <1>3, <4>1, SameEdge DEF n
      <4> QED
        BY <1>3, <1>5, <3>1, <4>2, <4>3
    <3>2. CASE g # h
      <4>1. g[1] \in Numbering
        BY DEF Counts, Counting, Numbering
      <4>2. SlotOf(g) # s
        BY <1>2, <1>3, <3>2, <4>1, SlotsDiffer
      <4> QED
        BY <1>5, <1>6, <2>1, <2>4, <3>2, <4>2
    <3> QED
      BY <3>1, <3>2
  <2>5. UNCHANGED <<ref, last, skewed>>
    BY <1>1
  <2> QED
    BY <1>5, <1>6, <2>1, <2>3, <2>4, <2>5 DEF CountsInv, Same
<1>9. CallInv'
  <2>1. DeltaExact'
    BY <1>1, <1>2 DEF CallInv, DeltaExact
  <2>2. ASSUME call.op = "write", result = "acknowledged", call.handle \notin doubtful
        PROVE  /\ SlotOf(call.handle) \in DOMAIN board'
               /\ board'[SlotOf(call.handle)].by = call.handle =>
                     board'[SlotOf(call.handle)].value = call.value
    <3> DEFINE z == SlotOf(call.handle)
    <3>1. /\ z \in DOMAIN board /\ (board[z].by = call.handle => board[z].value = call.value)
          /\ call.handle[1] \in {"pin", "pwm", "dac"}
      BY <1>2, <2>2 DEF CallInv, WriteExact
    <3>2. z[1] \notin Counting
      BY <3>1 DEF SlotOf, Counting
    <3> HIDE DEF z
    <3>3. z # s
      BY <1>1, <3>2
    <3>4. board'[z] = board[z] /\ z \in DOMAIN board'
      BY <1>5, <3>1, <3>3
    <3> QED
      BY <3>1, <3>4 DEF z
  <2>3. WriteExact'
    BY <1>1, <1>5, <2>2 DEF WriteExact
  <2>4. UNCHANGED <<call, ref>>
    BY <1>1
  <2> QED
    BY <1>2, <2>1, <2>3, <2>4 DEF CallInv
<1> QED
  BY <1>5, <1>8, <1>9 DEF BoardInv

(* The values of a write and the highest value of a DAC are numbers, and a value
   up to it is not clamped. *)
LEMMA Unclamped ==
  ASSUME NEW v \in Values, NEW n \in Nat, v <= MaxValue(n)
  PROVE  Min({v, MaxValue(n)}) = v
<1>1. \A r \in Nat : MaxValue(r) \in Int
  <2> TAKE r \in Nat
  <2>1. 2^r \in Int
    OBVIOUS
  <2> QED
    BY <2>1 DEF MaxValue
<1>2. v \in Int
  <2>1. v = 0 \/ v = 1 \/ \E r \in Resolutions : v = MaxValue(r)
    BY DEF Values
  <2>2. \A r \in Resolutions : r \in Nat
    BY HostAssumption
  <2> QED
    BY <1>1, <2>1, <2>2
<1> DEFINE m == MaxValue(n)
           S == {v, m}
<1>3. m \in Int /\ v <= m
  BY <1>1
<1> HIDE DEF m
<1>4. Min(S) = CHOOSE x \in S : \A y \in S : x <= y
  BY DEF Min
<1>5. v \in S /\ \A y \in S : v <= y
  BY <1>2, <1>3
<1>6. \A x \in S : (\A y \in S : x <= y) => x = v
  BY <1>2, <1>3
<1> HIDE DEF S
<1>7. Min(S) = v
  BY <1>4, <1>5, <1>6
<1> QED
  BY <1>7 DEF S, m

(* A write: into the slot of the handle, or nowhere. *)
LEMMA WriteKeeps ==
  ASSUME HandlesInv, SlotsInv, CountsInv, SettledInv,
         NEW h \in DOMAIN ref, NEW v \in Values, write(h, v)
  PROVE  BoardInv'
<1> DEFINE s == SlotOf(h)
           known == s \in DOMAIN board
           clamped == IF h[1] = "dac" THEN Min({v, MaxValue(board[s].holds.bits)}) ELSE v
           put == IF known THEN [board EXCEPT ![s].value = clamped] ELSE board
           refused == \/ stopped
                      \/ h[1] = "pwm" /\ ~(known /\ board[s].holds = "pwm")
                      \/ h[1] = "dac" /\ ~known
           c == [op |-> "write", handle |-> h, value |-> v]
<1>1. /\ h[1] \in {"pin", "pwm", "dac"}
      /\ IF InRange(h, v) THEN Command(c, refused, put) ELSE Raise(c)
      /\ UNCHANGED <<ref, ids, bits, last, since, skewed, doubtful>>
  BY DEF write, handleVars, historyVars
<1>2. put = IF known THEN [board EXCEPT ![s].value = clamped] ELSE board
  OBVIOUS
<1> HIDE DEF known, put, refused, c, s, clamped
<1>3. /\ call' = c /\ (board' = board \/ board' = put)
      /\ result' = "acknowledged" => board' = put /\ InRange(h, v)
  <2>1. CASE InRange(h, v)
    <3>1. Command(c, refused, put)
      BY <1>1, <2>1
    <3>2. call' = c /\ (board' = board \/ board' = put) /\ (Acknowledged => board' = put)
      BY <3>1, CommandEnds
    <3> QED
      BY <2>1, <3>2 DEF Acknowledged
  <2>2. CASE ~InRange(h, v)
    BY <1>1, <2>2 DEF Raise
  <2> QED
    BY <2>1, <2>2
<1>4. s[1] \notin Counting
  BY <1>1 DEF s, SlotOf, Counting
<1>5. /\ HandlesInv' /\ SlotsInv' /\ SettledInv'
      /\ \A g : SlotOf(g)' = SlotOf(g)
      /\ DOMAIN board' = DOMAIN board
      /\ \A z \in DOMAIN board : z # s => board'[z] = board[z]
      /\ board' = put /\ known => board'[s].value = clamped
  <2>1. CASE known /\ board' = put
    <3>1. board' = [board EXCEPT ![s].value = clamped]
      BY <1>2, <2>1
    <3> QED
      BY <1>1, <1>4, <2>1, <3>1, ValueKeeps DEF known
  <2>2. CASE board' = board /\ ~(known /\ board' = put)
    <3>1. \A g : SlotOf(g)' = SlotOf(g)
      BY <1>1 DEF SlotOf
    <3> QED
      BY <1>1, <2>2, <3>1 DEF HandlesInv, SlotsInv, SettledInv, Settled
  <2>3. known \/ put = board
    BY <1>2
  <2> QED
    BY <1>3, <2>1, <2>2, <2>3
<1>6. CountsInv'
  <2>1. \A g \in Counts : SlotOf(g) # s
    BY <1>4 DEF Counts, SlotOf, Counting
  <2> QED
    BY <1>1, <1>5, <2>1 DEF CountsInv, Same
<1>7. CallInv'
  <2>1. call'.op = "write" /\ call'.handle = h /\ call'.value = v
    BY <1>3 DEF c
  <2>2. ASSUME result' = "acknowledged", h \notin doubtful
        PROVE  s \in DOMAIN board' /\ board'[s].value = v
    <3>1. known /\ (h[1] = "dac" => board[s].holds.bits = bits[h[2]])
      BY <2>2 DEF SettledInv, Settled, known, s
    <3>2. board'[s].value = clamped
      BY <1>3, <1>5, <2>2, <3>1
    <3>3. clamped = v
      <4>1. CASE h[1] = "dac"
        <5> DEFINE n == bits[h[2]]
        <5>1. v <= MaxValue(n)
          BY <1>3, <2>2, <4>1 DEF InRange
        <5>2. n \in Nat
          BY DEF HandlesInv, Handles
        <5>3. clamped = Min({v, MaxValue(n)})
          <6>1. board[s].holds.bits = n
            BY <3>1, <4>1
          <6> HIDE DEF n
          <6> QED
            BY <4>1, <6>1 DEF clamped
        <5> HIDE DEF n
        <5> QED
          BY <4>1, <5>1, <5>2, <5>3, Unclamped
      <4> QED
        BY <4>1 DEF clamped
    <3> QED
      BY <1>5, <3>1, <3>2, <3>3 DEF known
  <2>3. DeltaExact'
    BY <2>1 DEF DeltaExact
  <2>4. SlotOf(h)' = s /\ h \in DOMAIN ref' /\ doubtful' = doubtful
    BY <1>1, <1>5 DEF s
  <2>5. SlotOf(call.handle)' = s
    BY <2>1, <2>4 DEF SlotOf
  <2>6. WriteExact'
    BY <2>1, <2>2, <2>4, <2>5 DEF WriteExact
  <2> QED
    BY <1>1, <2>1, <2>3, <2>4, <2>6 DEF CallInv
<1> QED
  BY <1>5, <1>6, <1>7 DEF BoardInv

(* And of its file. *)
HostInv == FilesInv /\ BoardInv

(* Every entry of a file, flawed or not. *)
LEMMA EntriesFit ==
  /\ Entries \subseteq FileEntry /\ I2cEntries \subseteq FileEntry
  /\ \A e \in FileEntry : Flawed(e) \subseteq FileEntry
<1> DEFINE At == Pins \cup Names \cup {0, 1, Junk}
           Bits == {0} \cup Resolutions
<1>1. \A types \in SUBSET Types, at \in SUBSET At, res \in SUBSET Bits :
        "dac" \notin types \/ res \subseteq Resolutions
          => Entry(types, at, res) \subseteq {e \in FileEntry : ~e.high}
  BY DEF Entry, FileEntry
<1>2. \A e \in FileEntry : e.type \in Energizing => [e EXCEPT !.high = TRUE] \in FileEntry
  BY DEF FileEntry
<1>3. Entries \subseteq FileEntry
  <2> DEFINE plain == Entry({"digital_output", "pwm", "input"}, Pins, {0})
                 \cup Entry({"analog", "encoder"}, {1}, {0})
                 \cup Entry({"counter"}, Pins \cup Names, {0})
  <2>1. plain \subseteq FileEntry
    BY <1>1 DEF Types
  <2>2. Entries = plain \cup {[e EXCEPT !.high = TRUE] : e \in {d \in plain : d.type \in Energizing}}
    BY DEF Entries
  <2> HIDE DEF plain
  <2> QED
    BY <1>2, <2>1, <2>2
<1>4. I2cEntries \subseteq FileEntry
  BY <1>1 DEF I2cEntries, Types
<1>5. ASSUME NEW e \in FileEntry
      PROVE  Flawed(e) \subseteq FileEntry
  BY DEF Flawed, FileEntry
<1> QED
  BY <1>3, <1>4, <1>5

(* A file is a sequence of entries. *)
LEMMA FilesFit ==
  Files \cup FlawedFiles \subseteq Seq(FileEntry)
<1>1. ASSUME NEW S \in SUBSET FileEntry, NEW f \in BoundedSeq(S, MaxEntries)
      PROVE  f \in Seq(FileEntry)
  <2>1. BoundedSeq(S, MaxEntries) = UNION {[1 .. m -> S] : m \in 0 .. MaxEntries}
    BY DEF BoundedSeq, SeqOf
  <2>2. PICK m \in 0 .. MaxEntries : f \in [1 .. m -> S]
    BY <2>1
  <2>3. m \in Nat
    BY HostAssumption
  <2>4. f \in [1 .. m -> FileEntry]
    BY <2>2
  <2> QED
    BY <2>3, <2>4
<1>2. ASSUME NEW f \in Files
      PROVE  f \in Seq(FileEntry)
  <2>1. f \in UNION {BoundedSeq(S, MaxEntries) : S \in {Entries, I2cEntries}}
    BY DEF Files
  <2>2. PICK S \in {Entries, I2cEntries} : f \in BoundedSeq(S, MaxEntries)
    BY <2>1
  <2> QED
    BY <1>1, <2>2, EntriesFit
<1>3. ASSUME NEW g \in FlawedFiles
      PROVE  g \in Seq(FileEntry)
  <2>1. PICK f \in {x \in Files : Len(x) \in 1 .. MaxEntries - 1} :
          g \in {Append(Front(f), e) : e \in Flawed(Last(f))}
    BY DEF FlawedFiles
  <2>2. PICK e \in Flawed(Last(f)) : g = Append(Front(f), e)
    BY <2>1
  <2>3. f \in Seq(FileEntry) /\ Len(f) >= 1 /\ Len(f) \in Nat
    BY <1>2, HostAssumption
  <2>4. Last(f) \in FileEntry
    BY <2>3 DEF Last
  <2>5. e \in FileEntry
    BY <2>2, <2>4, EntriesFit
  <2>6. Front(f) \in Seq(FileEntry)
    BY <2>3 DEF Front
  <2> QED
    BY <2>2, <2>5, <2>6
<1> QED
  BY <1>2, <1>3

(* The invariant holds at the start. *)
LEMMA HostStarts ==
  Init => HostInv
<1> SUFFICES ASSUME Init PROVE HostInv
  OBVIOUS
<1>1. DOMAIN <<>> = {} /\ \A S : <<>> \in Seq(S)
  OBVIOUS
<1>2. DOMAIN ref = {} /\ DOMAIN board = {}
  BY <1>1 DEF Init
<1>3. FilesInv
  <2>1. config \in Files \cup FlawedFiles /\ todo = <<>>
    BY DEF Init
  <2> QED
    BY <1>1, <2>1, FilesFit DEF FilesInv
<1>4. HandlesInv
  <2>1. ids = [class \in Numbering |-> <<>>] /\ bits = [n \in Names |-> 12]
    BY DEF Init, Numbering
  <2>2. ids \in [Numbering -> Seq(Names)] /\ \A class \in Numbering : DOMAIN ids[class] = {}
    BY <1>1, <2>1
  <2> QED
    BY <1>2, <2>1, <2>2 DEF HandlesInv
<1>5. SlotsInv /\ SettledInv
  BY <1>2 DEF SlotsInv, SettledInv
<1>6. CountsInv
  BY <1>2 DEF Init, CountsInv, Counts
<1>7. CallInv
  BY DEF Init, CallInv, DeltaExact, WriteExact
<1> QED
  BY <1>3, <1>4, <1>5, <1>6, <1>7 DEF HostInv, BoardInv

(* An entry of configure_all. *)
LEMMA NextEntryKeeps ==
  ASSUME HostInv, ConfigureNext
  PROVE  HostInv'
<1>1. config \in Seq(FileEntry) /\ todo \in Seq(FileEntry) /\ todo # <<>>
  BY DEF HostInv, FilesInv, ConfigureNext
<1>2. Head(todo) \in FileEntry /\ Tail(todo) \in Seq(FileEntry)
  BY <1>1
<1>3. BoardInv'
  BY <1>2, ConfigureKeeps DEF HostInv, BoardInv, ConfigureNext
<1>4. config' = config
  BY DEF ConfigureNext, Configure
<1>5. todo' = Tail(todo) \/ todo' = <<>>
  BY DEF ConfigureNext
<1>6. <<>> \in Seq(FileEntry)
  OBVIOUS
<1> QED
  BY <1>1, <1>2, <1>3, <1>4, <1>5, <1>6 DEF HostInv, FilesInv

(* A step that leaves the files and the board's side of things alone. *)
LEMMA HostRests ==
  ASSUME HostInv, UNCHANGED <<config, ref, ids, bits, board, since, last, skewed, doubtful, call, result>>,
         todo' = todo \/ todo' = config
  PROVE  HostInv'
<1>1. FilesInv'
  BY DEF HostInv, FilesInv
<1>2. HandlesInv' /\ SlotsInv' /\ CountsInv' /\ SettledInv'
  BY NothingMoved DEF HostInv, BoardInv
<1>3. SlotOf(call.handle)' = SlotOf(call.handle)
  BY DEF SlotOf
<1>4. DeltaExact'
  BY DEF HostInv, BoardInv, CallInv, DeltaExact
<1>5. WriteExact'
  BY <1>3 DEF HostInv, BoardInv, CallInv, WriteExact
<1>6. CallInv'
  BY <1>4, <1>5 DEF HostInv, BoardInv, CallInv
<1> QED
  BY <1>1, <1>2, <1>6 DEF HostInv, BoardInv

(* The calls of a script or of a service. *)
LEMMA CallsKeep ==
  ASSUME HostInv
  PROVE  /\ ConfigureAll => HostInv'
         /\ reset_config => HostInv'
         /\ \A active : emergency_stop(active) => HostInv'
         /\ \A e \in I2cEntries : AttachAgain(e) => HostInv'
         /\ \A h \in DOMAIN ref : delta(h) \/ reset(h) \/ (\E v \in Values : write(h, v)) => HostInv'
<1>1. FilesInv /\ HandlesInv /\ SlotsInv /\ CountsInv /\ SettledInv /\ CallInv
  BY DEF HostInv, BoardInv
<1>2. ASSUME config' = config, todo' = todo
      PROVE  FilesInv'
  BY <1>1, <1>2 DEF FilesInv
<1>3. ASSUME ConfigureAll PROVE HostInv'
  BY <1>3, HostRests DEF ConfigureAll, handleVars, callVars, historyVars
<1>4. ASSUME reset_config PROVE HostInv'
  BY <1>1, <1>2, <1>4, ForgetKeeps DEF reset_config, HostInv
<1>5. ASSUME NEW active, emergency_stop(active)
      PROVE  HostInv'
  <2> DEFINE c == [op |-> "emergency_stop", active |-> active]
  <2>1. Command(c, FALSE, board) /\ UNCHANGED <<configVars, handleVars, historyVars>>
    BY <1>5 DEF emergency_stop
  <2>2. c.op \notin {"delta", "write"}
    OBVIOUS
  <2>3. config' = config /\ todo' = todo
    BY <2>1 DEF configVars
  <2> HIDE DEF c
  <2> QED
    BY <1>1, <1>2, <2>1, <2>2, <2>3, AskKeeps DEF HostInv
<1>6. ASSUME NEW e \in I2cEntries, AttachAgain(e)
      PROVE  HostInv'
  <2>1. e \in FileEntry /\ Configure(e)
    BY <1>6, EntriesFit DEF AttachAgain
  <2>2. config' = config /\ todo' = todo
    BY <1>6 DEF AttachAgain, Configure
  <2> QED
    BY <1>1, <1>2, <2>1, <2>2, ConfigureKeeps DEF HostInv
<1>7. ASSUME NEW h \in DOMAIN ref, delta(h) \/ reset(h) \/ (\E v \in Values : write(h, v))
      PROVE  HostInv'
  <2>1. CASE delta(h)
    BY <1>1, <1>2, <2>1, DeltaKeeps DEF HostInv, delta, configVars
  <2>2. CASE reset(h)
    BY <1>1, <1>2, <2>2, ResetKeeps DEF HostInv, reset, configVars
  <2>3. CASE \E v \in Values : write(h, v)
    BY <1>1, <1>2, <2>3, WriteKeeps DEF HostInv, write, configVars
  <2> QED
    BY <1>7, <2>1, <2>2, <2>3
<1> QED
  BY <1>3, <1>4, <1>5, <1>6, <1>7

(* An edge. *)
LEMMA EdgesKeep ==
  ASSUME HostInv, NEW s \in DOMAIN board, Edge(s)
  PROVE  HostInv'
<1>1. BoardInv'
  BY EdgeKeeps DEF HostInv
<1> QED
  BY <1>1 DEF HostInv, FilesInv, Edge, configVars

(* Every step of the host keeps the invariant. *)
LEMMA HostSteps ==
  HostInv /\ [Next]_vars => HostInv'
<1> SUFFICES ASSUME HostInv, [Next]_vars PROVE HostInv'
  OBVIOUS
<1>1. CASE Call
  BY <1>1, CallsKeep DEF Call
<1>2. CASE ConfigureNext
  BY <1>2, NextEntryKeeps
<1>3. CASE \E s \in DOMAIN board : Edge(s)
  BY <1>3, EdgesKeep
<1>4. CASE UNCHANGED vars
  BY <1>4, HostRests DEF vars, configVars, handleVars, callVars, historyVars
<1> QED
  BY <1>1, <1>2, <1>3, <1>4 DEF Next

(* delta() is exact, whatever is refused or lost on the way. *)
THEOREM DeltasAreExact == Spec => []DeltaExact
<1>1. HostInv => DeltaExact
  BY DEF HostInv, BoardInv, CallInv
<1> QED
  BY <1>1, HostStarts, HostSteps, PTL DEF Spec

(* A write that is acknowledged is on the board as it was asked for. *)
THEOREM WritesAreExact == Spec => []WriteExact
<1>1. HostInv => WriteExact
  BY DEF HostInv, BoardInv, CallInv
<1> QED
  BY <1>1, HostStarts, HostSteps, PTL DEF Spec

(* Before the node spins there is nothing to publish, and then every resource
   has a name, but for the DACs. *)
NamesInv ==
  /\ \A s \in DOMAIN name_by_ref :
       /\ name_by_ref[s] \in Names /\ HasResource(name_by_ref[s])
       /\ _resource_ref(name_by_ref[s]) = s /\ s[1] # "dac"
  /\ phase \in {"configuring", "info"} => DOMAIN name_by_ref = {} /\ subscribed = {}
  /\ phase = "spinning" =>
       \A n \in Names : HasResource(n) =>
         _resource_ref(n) \in DOMAIN name_by_ref \/ _resource_ref(n)[1] = "dac"
  /\ \A s \in subscribed : s \in DOMAIN name_by_ref \/ s[1] = "dac"

(* An answer is the answer to the last call. *)
AnswerInv ==
  /\ phase \in {"configuring", "info"} => response = "none"
  /\ response = "ok" => result = "acknowledged"
  /\ response = "ok" /\ call.op = "emergency_stop" /\ call.active => stopped
  /\ response = "ok" /\ call.op = "subscribe" => call.slot \in subscribed

FrameTypes ==
  /\ queue \in [Topics -> Seq([frame : Nat, slot : subscribed])]
  /\ dropped \in [Topics -> Nat] /\ arrived \in [Topics -> Nat]
  /\ DOMAIN shown = Topics
  /\ \A t \in Topics : shown[t].count \in Nat /\ shown[t].frame \in Nat
  /\ phase \in {"configuring", "info"} => \A t \in Topics : shown[t].count = 0

(* Numbers rise from the last frame shown over the queue to the last that arrived. *)
Rising(t) ==
  /\ shown[t].frame <= arrived[t]
  /\ \A i \in DOMAIN queue[t] : shown[t].frame < queue[t][i].frame /\ queue[t][i].frame <= arrived[t]
  /\ \A i, j \in DOMAIN queue[t] : i < j => queue[t][i].frame < queue[t][j].frame
  /\ arrived[t] = shown[t].count + Len(queue[t]) + dropped[t]

FramesInv == FrameTypes /\ \A t \in Topics : Rising(t)

BridgeInv == HostInv /\ NamesInv /\ AnswerInv /\ FramesInv /\ PublishedUnderItsName

(* The resource behind a name: a DAC only if nothing else has the name. *)
LEMMA ResourceOfName ==
  ASSUME NEW n, HasResource(n)
  PROVE  _resource_ref(n)[1] # "dac" <=> \E class \in NamedClasses : <<class, n>> \in DOMAIN ref
<1> DEFINE D == {j \in 1 .. 5 : HasRef(<<ResourceClasses[j], n>>)}
           m == Min(D)
<1>1. DOMAIN ResourceClasses = 1 .. 5
  BY DEF ResourceClasses
<1>2. D # {} /\ D \in SUBSET Nat
  BY <1>1 DEF HasResource
<1>3. _resource_ref(n) = SlotOf(<<ResourceClasses[m], n>>)
  BY <1>1 DEF _resource_ref
<1>4. D \subseteq 1 .. 5 /\ \A j \in D : HasRef(<<ResourceClasses[j], n>>)
  OBVIOUS
<1>5. \A j \in 1 .. 5 : HasRef(<<ResourceClasses[j], n>>) => j \in D
  OBVIOUS
<1> HIDE DEF D
<1>6. m \in D /\ \A k \in D : m <= k
  <2>1. PICK x \in D : \A k \in D : x <= k
    BY <1>2, LeastElement
  <2>2. Min(D) = CHOOSE y \in D : \A k \in D : y <= k
    BY DEF Min
  <2> QED
    BY <2>1, <2>2
<1> HIDE DEF m
<1>7. /\ ResourceClasses[1] = "pin" /\ ResourceClasses[2] = "analog" /\ ResourceClasses[3] = "counter"
      /\ ResourceClasses[4] = "encoder" /\ ResourceClasses[5] = "dac"
  BY DEF ResourceClasses
<1>8. ASSUME m # 5
      PROVE  /\ ResourceClasses[m] \in NamedClasses /\ <<ResourceClasses[m], n>> \in DOMAIN ref
             /\ _resource_ref(n)[1] # "dac"
  <2>1. m \in 1 .. 4
    BY <1>4, <1>6, <1>8
  <2>2. ResourceClasses[m] \in NamedClasses
    BY <1>7, <2>1 DEF NamedClasses
  <2>3. <<ResourceClasses[m], n>> \in DOMAIN ref
    BY <1>4, <1>6 DEF HasRef
  <2> DEFINE class == ResourceClasses[m]
  <2>4. _resource_ref(n)[1] = IF class \in {"pin", "pwm"} THEN "gpio" ELSE class
    BY <1>3 DEF SlotOf
  <2> HIDE DEF class
  <2>5. _resource_ref(n)[1] # "dac"
    BY <2>2, <2>4 DEF NamedClasses, class
  <2> QED
    BY <2>2, <2>3, <2>5
<1>9. ASSUME m = 5
      PROVE  /\ _resource_ref(n)[1] = "dac"
             /\ ~\E class \in NamedClasses : <<class, n>> \in DOMAIN ref
  <2>1. _resource_ref(n)[1] = "dac"
    BY <1>3, <1>7, <1>9 DEF SlotOf
  <2>2. ASSUME NEW class \in NamedClasses, <<class, n>> \in DOMAIN ref
        PROVE  FALSE
    <3>1. PICK j \in 1 .. 4 : ResourceClasses[j] = class
      BY <1>7 DEF NamedClasses
    <3>2. j \in D
      BY <1>5, <2>2, <3>1 DEF HasRef
    <3> QED
      BY <1>6, <1>9, <3>1, <3>2
  <2> QED
    BY <2>1, <2>2
<1> QED
  BY <1>8, <1>9

(* Names mean the same as long as no handle gets a number. *)
LEMMA NamesStay ==
  ASSUME UNCHANGED ref
  PROVE  /\ \A h : SlotOf(h)' = SlotOf(h)
         /\ \A n : HasResource(n)' <=> HasResource(n)
         /\ \A n : _resource_ref(n)' = _resource_ref(n)
<1>1. \A h : SlotOf(h)' = SlotOf(h)
  BY DEF SlotOf
<1>2. \A h : HasRef(h)' <=> HasRef(h)
  BY DEF HasRef
<1>3. \A n : HasResource(n)' <=> HasResource(n)
  BY <1>2 DEF HasResource
<1>4. ASSUME NEW n
      PROVE  _resource_ref(n)' = _resource_ref(n)
  <2> DEFINE D == {j \in DOMAIN ResourceClasses : HasRef(<<ResourceClasses[j], n>>)}
  <2>1. D' = D
    BY <1>2
  <2>2. _resource_ref(n) = SlotOf(<<ResourceClasses[Min(D)], n>>)
    BY DEF _resource_ref
  <2>3. _resource_ref(n)' = <<IF ResourceClasses[Min(D')] \in {"pin", "pwm"} THEN "gpio" ELSE ResourceClasses[Min(D')],
                              ref'[<<ResourceClasses[Min(D')], n>>]>>
    BY DEF _resource_ref, SlotOf
  <2> HIDE DEF D
  <2> QED
    BY <2>1, <2>2, <2>3 DEF SlotOf
<1> QED
  BY <1>1, <1>3, <1>4

(* configure_names gives every resource a name, but for the DACs. *)
LEMMA NamesGiven ==
  ASSUME HandlesInv, configure_names
  PROVE  /\ \A s \in DOMAIN name_by_ref' :
              /\ name_by_ref'[s] \in Names /\ HasResource(name_by_ref'[s])
              /\ _resource_ref(name_by_ref'[s]) = s /\ s[1] # "dac"
         /\ \A n \in Names : HasResource(n) =>
              _resource_ref(n) \in DOMAIN name_by_ref' \/ _resource_ref(n)[1] = "dac"
<1> DEFINE named == {h[2] : h \in {g \in DOMAIN ref : g[1] \in NamedClasses}}
           slots == {_resource_ref(n) : n \in named}
<1>1. name_by_ref' \in [slots -> named] /\ \A s \in slots : _resource_ref(name_by_ref'[s]) = s
  BY DEF configure_names
<1>2. ASSUME NEW n \in named
      PROVE  n \in Names /\ HasResource(n) /\ \E class \in NamedClasses : <<class, n>> \in DOMAIN ref
  <2>1. PICK h \in DOMAIN ref : h[1] \in NamedClasses /\ n = h[2]
    OBVIOUS
  <2>2. h = <<h[1], n>> /\ n \in Names
    BY <2>1 DEF HandlesInv, Handles
  <2>3. \E class \in NamedClasses : <<class, n>> \in DOMAIN ref
    BY <2>1, <2>2
  <2>4. PICK i \in 1 .. 4 : ResourceClasses[i] = h[1]
    BY <2>1 DEF NamedClasses, ResourceClasses
  <2>5. HasResource(n)
    <3>1. i \in DOMAIN ResourceClasses
      BY DEF ResourceClasses
    <3> QED
      BY <2>2, <2>4, <3>1 DEF HasResource, HasRef
  <2> QED
    BY <2>2, <2>3, <2>5
<1>3. ASSUME NEW n \in Names, NEW class \in NamedClasses, <<class, n>> \in DOMAIN ref
      PROVE  n \in named
  BY <1>3
<1>4. \A n \in named : _resource_ref(n) \in slots
  OBVIOUS
<1> HIDE DEF named, slots
<1>5. ASSUME NEW s \in slots
      PROVE  /\ name_by_ref'[s] \in Names /\ HasResource(name_by_ref'[s])
             /\ _resource_ref(name_by_ref'[s]) = s /\ s[1] # "dac"
  <2>1. PICK n : n = name_by_ref'[s] /\ n \in named /\ _resource_ref(n) = s
    BY <1>1
  <2>2. n \in Names /\ HasResource(n) /\ \E class \in NamedClasses : <<class, n>> \in DOMAIN ref
    BY <1>2, <2>1
  <2>3. s[1] # "dac"
    BY <2>1, <2>2, ResourceOfName
  <2> QED
    BY <2>1, <2>2, <2>3
<1>6. ASSUME NEW n \in Names, HasResource(n), _resource_ref(n)[1] # "dac"
      PROVE  _resource_ref(n) \in slots
  <2>1. PICK class \in NamedClasses : <<class, n>> \in DOMAIN ref
    BY <1>6, ResourceOfName
  <2> QED
    BY <1>3, <1>4, <2>1
<1>7. DOMAIN name_by_ref' = slots
  BY <1>1
<1> QED
  BY <1>5, <1>6, <1>7

(* A call that asks the board something. *)
LEMMA AskRests ==
  ASSUME HostInv, NEW c, NEW refused, Command(c, refused, board), c.op \notin {"delta", "write"},
         UNCHANGED <<configVars, handleVars, historyVars>>
  PROVE  HostInv'
<1>1. BoardInv'
  BY AskKeeps DEF HostInv, BoardInv
<1> QED
  BY <1>1 DEF HostInv, FilesInv, configVars

(* A service on a handle, whether it writes, resets or reads. *)
LEMMA HandleServiceKeeps ==
  ASSUME HostInv, NEW h \in DOMAIN ref, HandleService(h)
  PROVE  HostInv' /\ call'.op \in {"write", "reset", "read"} /\ UNCHANGED <<ref, stopped>>
<1>1. CASE \E v \in Values : write(h, v)
  <2>1. PICK v \in Values : write(h, v)
    BY <1>1
  <2> DEFINE c == [op |-> "write", handle |-> h, value |-> v]
             InR == InRange(h, v)
  <2>2. PICK refused, put : IF InR THEN Command(c, refused, put) ELSE Raise(c)
    BY <2>1 DEF write
  <2>3. call' = c
    <3> HIDE DEF c, InR
    <3>1. CASE InR
      BY <2>2, <3>1, CommandEnds
    <3>2. CASE ~InR
      BY <2>2, <3>2 DEF Raise
    <3> QED
      BY <3>1, <3>2
  <2>4. UNCHANGED <<ref, stopped>>
    BY <2>1 DEF write, handleVars
  <2> QED
    BY <1>1, <2>3, <2>4, CallsKeep
<1>2. CASE reset(h)
  <2> DEFINE c == [op |-> "reset"]
  <2>1. PICK refused, after : Command(c, refused, after)
    BY <1>2 DEF reset
  <2>2. call' = c
    <3> HIDE DEF c
    <3> QED
      BY <2>1, CommandEnds
  <2>3. UNCHANGED <<ref, stopped>>
    BY <1>2 DEF reset
  <2> QED
    BY <1>2, <2>2, <2>3, CallsKeep
<1>3. CASE /\ Command([op |-> "read"], SlotOf(h) \notin DOMAIN board, board)
           /\ UNCHANGED <<configVars, handleVars, stopped, edges, historyVars>>
  <2> DEFINE c == [op |-> "read"]
             refused == SlotOf(h) \notin DOMAIN board
  <2>1. Command(c, refused, board) /\ c.op = "read"
    BY <1>3
  <2> HIDE DEF c, refused
  <2>2. call' = c
    BY <2>1, CommandEnds
  <2>3. HostInv'
    BY <1>3, <2>1, AskRests
  <2> QED
    BY <1>3, <2>1, <2>2, <2>3 DEF handleVars
<1> QED
  BY <1>1, <1>2, <1>3 DEF HandleService

(* subscribe: a slot more, if the board may have heard of it. *)
LEMMA SubscribeKeeps ==
  ASSUME HostInv, NEW n \in Names, subscribe(n)
  PROVE  LET s == _resource_ref(n)
         IN /\ HostInv' /\ HasResource(n) /\ UNCHANGED <<ref, stopped>>
            /\ call'.op = "subscribe" /\ call'.slot = s
            /\ subscribed' = subscribed \/ subscribed' = subscribed \cup {s}
            /\ Acknowledged => subscribed' = subscribed \cup {s}
<1> DEFINE s == _resource_ref(n)
           refused == s[1] # "gpio" /\ s \notin DOMAIN board
           c == [op |-> "subscribe", slot |-> s]
<1>1. /\ HasResource(n) /\ Command(c, refused, board)
      /\ subscribed' \in IF Acknowledged THEN {subscribed \cup {s}}
                         ELSE {subscribed} \cup (IF refused THEN {} ELSE {subscribed \cup {s}})
      /\ UNCHANGED <<configVars, handleVars, stopped, edges, historyVars>>
  BY DEF subscribe
<1>2. c.op = "subscribe" /\ c.slot = s
  OBVIOUS
<1> HIDE DEF c, refused, s
<1>3. call' = c
  BY <1>1, CommandEnds
<1>4. HostInv'
  BY <1>1, <1>2, AskRests
<1>5. /\ subscribed' = subscribed \/ subscribed' = subscribed \cup {s}
      /\ Acknowledged => subscribed' = subscribed \cup {s}
  BY <1>1
<1>6. UNCHANGED <<ref, stopped>>
  BY <1>1 DEF handleVars
<1> QED
  BY <1>1, <1>2, <1>3, <1>4, <1>5, <1>6 DEF s

-----------------------------------------------------------------------------
(* What a step of main() or of a service may do to the phase. *)
PhaseMoves == \/ phase' = phase
              \/ phase = "configuring" /\ phase' \in {"info", "ended"}
              \/ phase = "info" /\ phase' \in {"spinning", "ended"}
              \/ phase = "spinning" /\ phase' = "ended"

(* The names stay as they are. *)
LEMMA NamesRest ==
  ASSUME NamesInv, UNCHANGED <<ref, name_by_ref, subscribed>>, PhaseMoves, phase' = "spinning" => phase = "spinning"
  PROVE  NamesInv'
BY NamesStay DEF NamesInv, PhaseMoves

(* Handles get their numbers before there are names. *)
LEMMA NamesWait ==
  ASSUME NamesInv, phase = "configuring", phase' \in {"configuring", "ended"},
         UNCHANGED <<name_by_ref, subscribed>>
  PROVE  NamesInv'
<1>1. DOMAIN name_by_ref' = {} /\ subscribed' = {} /\ phase' # "spinning"
  BY DEF NamesInv
<1> QED
  BY <1>1 DEF NamesInv

(* configure_names runs. *)
LEMMA NamesRenewed ==
  ASSUME HandlesInv, NamesInv, configure_names, UNCHANGED ref, phase' = "spinning",
         NEW S \in SUBSET {_resource_ref(n) : n \in {m \in Names : HasResource(m)}},
         subscribed' = subscribed \cup S
  PROVE  NamesInv'
<1>1. ASSUME NEW s \in DOMAIN name_by_ref'
      PROVE  /\ name_by_ref'[s] \in Names /\ HasResource(name_by_ref[s])'
             /\ _resource_ref(name_by_ref[s])' = s /\ s[1] # "dac"
  <2>1. PICK n \in Names : n = name_by_ref'[s] /\ HasResource(n) /\ _resource_ref(n) = s /\ s[1] # "dac"
    BY NamesGiven
  <2>2. HasResource(n)' /\ _resource_ref(n)' = s
    BY <2>1, NamesStay
  <2> QED
    BY <2>1, <2>2
<1>3. \A n \in Names : HasResource(n)' =>
        _resource_ref(n)' \in DOMAIN name_by_ref' \/ _resource_ref(n)'[1] = "dac"
  BY NamesGiven, NamesStay
<1>2. ASSUME NEW s \in subscribed'
      PROVE  s \in DOMAIN name_by_ref' \/ s[1] = "dac"
  <2>1. CASE s \in S
    <3>1. PICK n \in Names : HasResource(n) /\ s = _resource_ref(n)
      BY <2>1
    <3> QED
      BY <3>1, NamesGiven
  <2>2. CASE s \in subscribed /\ s[1] # "dac"
    <3>1. s \in DOMAIN name_by_ref
      BY <2>2 DEF NamesInv
    <3>2. PICK n \in Names : n = name_by_ref[s] /\ HasResource(n) /\ _resource_ref(n) = s
      BY <3>1 DEF NamesInv
    <3> QED
      BY <2>2, <3>2, NamesGiven
  <2> QED
    BY <2>1, <2>2
<1> QED
  BY <1>1, <1>2, <1>3 DEF NamesInv

(* Frames stay as they are while slots may be subscribed. *)
LEMMA FramesRest ==
  ASSUME FramesInv, UNCHANGED <<queue, dropped, arrived, shown>>, subscribed \subseteq subscribed', PhaseMoves
  PROVE  FramesInv'
<1> DEFINE F == [frame : Nat, slot : subscribed]
           G == [frame : Nat, slot : subscribed']
<1>1. F \subseteq G
  OBVIOUS
<1>2. queue \in [Topics -> Seq(F)]
  BY DEF FramesInv, FrameTypes
<1> HIDE DEF F, G
<1>3. Seq(F) \subseteq Seq(G)
  BY <1>1
<1>4. queue' \in [Topics -> Seq(G)]
  BY <1>2, <1>3
<1>5. phase' \in {"configuring", "info"} => phase \in {"configuring", "info"}
  BY DEF PhaseMoves
<1>6. FrameTypes'
  BY <1>4, <1>5 DEF FramesInv, FrameTypes, G
<1>7. ASSUME NEW t \in Topics
      PROVE  Rising(t)'
  BY DEF FramesInv, Rising
<1> QED
  BY <1>6, <1>7 DEF FramesInv

(* What was shown keeps its name. *)
LEMMA ShownRests ==
  ASSUME PublishedUnderItsName, UNCHANGED <<ref, shown>>
  PROVE  PublishedUnderItsName'
BY NamesStay DEF PublishedUnderItsName

(* Nothing is shown before the node spins. *)
LEMMA NothingShown ==
  ASSUME FramesInv, phase = "configuring", UNCHANGED shown
  PROVE  PublishedUnderItsName'
<1>1. \A t \in Topics : shown[t].count = 0
  BY DEF FramesInv, FrameTypes
<1>2. \A t \in Topics : ~(shown'[t].count > 0)
  BY <1>1
<1> QED
  BY <1>2 DEF PublishedUnderItsName

(* A frame that arrives is the last of its queue, and may push out the first. *)
LEMMA FrameArrives ==
  ASSUME FramesInv, NEW t \in Topics, Receive(t)
  PROVE  FramesInv'
<1> DEFINE F == [frame : Nat, slot : subscribed]
           q == queue[t]
           k == Kept(t)
           n == arrived[t]
           d == Len(q) - Len(k)
<1>1. /\ arrived' = [arrived EXCEPT ![t] = n + 1]
      /\ UNCHANGED <<subscribed, shown, phase>>
  BY DEF Receive, mainVars, pollVars
<1>2. PICK s \in subscribed :
        /\ queue' = [queue EXCEPT ![t] = Append(k, [frame |-> arrived'[t], slot |-> s])]
        /\ dropped' = [dropped EXCEPT ![t] = @ + Len(q) - Len(k)]
  BY DEF Receive
<1>3. /\ queue \in [Topics -> Seq(F)]
      /\ dropped \in [Topics -> Nat] /\ arrived \in [Topics -> Nat]
      /\ \A u \in Topics : shown[u].count \in Nat /\ shown[u].frame \in Nat
  BY DEF FramesInv, FrameTypes
<1> DEFINE f == [frame |-> n + 1, slot |-> s]
<1>4. n \in Nat /\ arrived'[t] = n + 1 /\ f \in F /\ f.frame = n + 1
  BY <1>1, <1>3
<1>5. queue' = [queue EXCEPT ![t] = Append(k, f)]
  BY <1>2, <1>4
<1>6. q \in Seq(F) /\ Len(q) \in Nat
  <2> HIDE DEF F
  <2>1. q \in Seq(F)
    BY <1>3
  <2> HIDE DEF q
  <2> QED
    BY <2>1
<1>7. /\ k \in Seq(F) /\ Len(k) \in Nat /\ d \in {0, 1}
      /\ \A i \in 1 .. Len(k) : i + d \in 1 .. Len(q) /\ k[i] = q[i + d]
  <2> HIDE DEF F
  <2>1. CASE Len(q) = max_frames
    <3>1. q # <<>> /\ k = Tail(q)
      BY <1>6, <2>1, BridgeAssumption DEF Kept
    <3>2. Tail(q) \in Seq(F) /\ Len(Tail(q)) = Len(q) - 1 /\ \A i \in 1 .. Len(q) - 1 : Tail(q)[i] = q[i + 1]
      BY <1>6, <3>1, HeadTailProperties
    <3> HIDE DEF q, k
    <3> QED
      BY <1>6, <3>1, <3>2
  <2>2. CASE Len(q) # max_frames
    <3>1. k = q
      BY <2>2 DEF Kept
    <3> HIDE DEF q, k
    <3> QED
      BY <1>6, <3>1
  <2> QED
    BY <2>1, <2>2
<1>8. Rising(t)
  BY DEF FramesInv
<1>9. FrameTypes'
  <2>1. Append(k, f) \in Seq(F)
    BY <1>4, <1>7
  <2> HIDE DEF f, k, F
  <2>2. queue' \in [Topics -> Seq(F)]
    BY <1>3, <1>5, <2>1
  <2>3. arrived' \in [Topics -> Nat]
    BY <1>1, <1>3, <1>4
  <2>4. dropped' \in [Topics -> Nat]
    <3>1. dropped[t] \in Nat
      BY <1>3
    <3>2. dropped[t] + Len(q) - Len(k) \in Nat
      BY <1>6, <1>7, <3>1
    <3> QED
      BY <1>2, <1>3, <3>2
  <2> QED
    BY <1>1, <2>2, <2>3, <2>4 DEF FramesInv, FrameTypes, F
<1>10. Rising(t)'
  <2>1. queue'[t] = Append(k, f) /\ arrived'[t] = n + 1 /\ shown'[t] = shown[t]
        /\ dropped'[t] = dropped[t] + Len(q) - Len(k)
    BY <1>1, <1>2, <1>3, <1>5
  <2> DEFINE z == shown[t].frame
             m == Len(k)
  <2>2. /\ z <= n /\ z \in Nat
        /\ \A i \in 1 .. Len(q) : z < q[i].frame /\ q[i].frame <= n
        /\ \A i, j \in 1 .. Len(q) : i < j => q[i].frame < q[j].frame
        /\ n = shown[t].count + Len(q) + dropped[t]
    BY <1>3, <1>6, <1>8 DEF Rising
  <2>3. \A i \in 1 .. Len(q) : q[i].frame \in Nat
    <3>1. \A x \in F : x.frame \in Nat
      OBVIOUS
    <3> HIDE DEF F, q
    <3>2. \A i \in 1 .. Len(q) : q[i] \in F
      BY <1>6
    <3> QED
      BY <3>1, <3>2
  <2> DEFINE p == Append(k, f)
  <2>4. DOMAIN p = 1 .. m + 1 /\ Len(p) = m + 1 /\ p[m + 1] = f /\ \A i \in 1 .. m : p[i] = k[i]
    BY <1>4, <1>7
  <2> HIDE DEF p, k, q, z, f, n, F
  <2>5. \A i \in 1 .. m : z < p[i].frame /\ p[i].frame <= n /\ p[i].frame \in Nat
    BY <1>7, <2>2, <2>3, <2>4
  <2>6. \A i, j \in 1 .. m : i < j => p[i].frame < p[j].frame
    <3> SUFFICES ASSUME NEW i \in 1 .. m, NEW j \in 1 .. m, i < j
                 PROVE  p[i].frame < p[j].frame
      OBVIOUS
    <3>1. p[i] = q[i + d] /\ p[j] = q[j + d] /\ i + d \in 1 .. Len(q) /\ j + d \in 1 .. Len(q)
      BY <1>7, <2>4
    <3>2. i + d < j + d
      BY <1>7
    <3> HIDE DEF d
    <3> QED
      BY <2>2, <3>1, <3>2
  <2>7. z < p[m + 1].frame /\ p[m + 1].frame = n + 1
    BY <1>4, <2>2, <2>4
  <2>8. \A i \in 1 .. m + 1 : i \in 1 .. m \/ i = m + 1
    BY <1>7
  <2>9. \A i \in 1 .. m + 1 : z < p[i].frame /\ p[i].frame <= n + 1
    BY <1>4, <2>5, <2>7, <2>8
  <2>10. \A i, j \in 1 .. m + 1 : i < j => p[i].frame < p[j].frame
    <3> SUFFICES ASSUME NEW i \in 1 .. m + 1, NEW j \in 1 .. m + 1, i < j
                 PROVE  p[i].frame < p[j].frame
      OBVIOUS
    <3>1. i \in 1 .. m
      BY <1>7
    <3>2. CASE j \in 1 .. m
      BY <2>6, <3>1, <3>2
    <3>3. CASE j = m + 1
      BY <1>4, <2>5, <2>7, <3>1, <3>3
    <3> QED
      BY <2>8, <3>2, <3>3
  <2>11. n + 1 = shown[t].count + (m + 1) + (dropped[t] + Len(q) - m)
    <3>1. dropped[t] \in Nat /\ shown[t].count \in Nat /\ m \in Nat /\ Len(q) \in Nat
      BY <1>3, <1>6, <1>7
    <3>2. n = shown[t].count + Len(q) + dropped[t]
      BY <2>2
    <3>3. n \in Nat
      BY <1>4
    <3> HIDE DEF m
    <3>4. PICK a \in Nat, c \in Nat, l \in Nat, e \in Nat, i \in Nat :
            a = n /\ c = shown[t].count /\ l = Len(q) /\ e = dropped[t] /\ i = m
      BY <3>1, <3>3
    <3>5. a = c + l + e
      BY <3>2, <3>4
    <3>6. a + 1 = c + (i + 1) + (e + l - i)
      BY <3>5
    <3> QED
      BY <3>4, <3>6
  <2>12. z <= n + 1
    BY <1>4, <2>2
  <2> QED
    BY <2>1, <2>4, <2>9, <2>10, <2>11, <2>12 DEF Rising, p, z
<1>11. ASSUME NEW u \in Topics, u # t
       PROVE  Rising(u)'
  <2>1. queue'[u] = queue[u] /\ arrived'[u] = arrived[u] /\ dropped'[u] = dropped[u] /\ shown' = shown
    BY <1>1, <1>2, <1>3, <1>11
  <2>2. Rising(u)
    BY DEF FramesInv
  <2> QED
    BY <2>1, <2>2 DEF Rising
<1> QED
  BY <1>9, <1>10, <1>11 DEF FramesInv

(* The first frame of a queue is shown, under the name of its slot. *)
LEMMA FramePublished ==
  ASSUME NamesInv, FramesInv, PublishedUnderItsName, NEW t \in Topics, Publish(t)
  PROVE  FramesInv' /\ PublishedUnderItsName'
<1> DEFINE F == [frame : Nat, slot : subscribed]
           q == queue[t]
           r == Tail(q)
           f == NextOf(t)
           name == IF f.slot \in DOMAIN name_by_ref THEN name_by_ref[f.slot] ELSE "none"
           rec == [count |-> shown[t].count + 1, frame |-> f.frame, slot |-> f.slot, name |-> name]
<1>1. /\ q # <<>>
      /\ shown' = [shown EXCEPT ![t] = rec]
      /\ queue' = [queue EXCEPT ![t] = r]
      /\ UNCHANGED <<ref, phase, subscribed, dropped, arrived>>
  BY DEF Publish, vars, handleVars, mainVars
<1>2. /\ queue \in [Topics -> Seq(F)]
      /\ dropped \in [Topics -> Nat] /\ arrived \in [Topics -> Nat]
      /\ DOMAIN shown = Topics
      /\ \A u \in Topics : shown[u].count \in Nat /\ shown[u].frame \in Nat
  BY DEF FramesInv, FrameTypes
<1>3. \A x \in F : x.frame \in Nat /\ x.slot \in subscribed
  OBVIOUS
<1> HIDE DEF F
<1>4. q \in Seq(F)
  BY <1>2
<1>5. f = Head(q)
  BY DEF NextOf
<1> HIDE DEF q, f
<1>6. /\ f \in F /\ f = q[1] /\ Len(q) \in Nat /\ Len(q) >= 1
      /\ r \in Seq(F) /\ Len(r) = Len(q) - 1 /\ \A i \in 1 .. Len(q) - 1 : r[i] = q[i + 1]
  BY <1>1, <1>4, <1>5, HeadTailProperties
<1> HIDE DEF r, name
<1>7. shown'[t] = rec /\ \A u \in Topics : u # t => shown'[u] = shown[u]
  BY <1>1, <1>2
<1>8. queue'[t] = r /\ \A u \in Topics : u # t => queue'[u] = queue[u]
  BY <1>1, <1>2
<1>9. rec.count = shown[t].count + 1 /\ rec.frame = f.frame /\ rec.slot = f.slot /\ rec.name = name
  OBVIOUS
<1> HIDE DEF rec
<1>10. phase \notin {"configuring", "info"}
  <2>1. f.slot \in subscribed
    BY <1>3, <1>6
  <2> QED
    BY <2>1 DEF NamesInv
<1>11. FrameTypes'
  <2>1. queue' \in [Topics -> Seq(F)]
    BY <1>1, <1>2, <1>6
  <2>2. \A u \in Topics : shown'[u].count \in Nat /\ shown'[u].frame \in Nat
    <3>1. rec.count \in Nat /\ rec.frame \in Nat
      BY <1>2, <1>3, <1>6, <1>9
    <3> QED
      BY <1>2, <1>7, <3>1
  <2>3. DOMAIN shown' = Topics
    BY <1>1, <1>2
  <2> QED
    BY <1>1, <1>2, <1>10, <2>1, <2>2, <2>3 DEF FrameTypes, F
<1>12. Rising(t)'
  <2>1. Rising(t)
    BY DEF FramesInv
  <2> DEFINE n == arrived[t]
  <2>2. /\ \A i \in 1 .. Len(q) : q[i].frame <= n /\ q[i].frame \in Nat
        /\ \A i, j \in 1 .. Len(q) : i < j => q[i].frame < q[j].frame
        /\ n = shown[t].count + Len(q) + dropped[t]
    <3>1. DOMAIN q = 1 .. Len(q) /\ \A i \in 1 .. Len(q) : q[i] \in F
      BY <1>4
    <3> QED
      BY <1>3, <2>1, <3>1 DEF Rising, q
  <2> HIDE DEF n
  <2> DEFINE m == Len(r)
  <2>3. DOMAIN r = 1 .. m /\ m \in Nat /\ m = Len(q) - 1
    BY <1>6
  <2>4. \A i \in 1 .. m : r[i] = q[i + 1] /\ i + 1 \in 1 .. Len(q) /\ 1 \in 1 .. Len(q) /\ 1 < i + 1
    BY <1>6, <2>3
  <2> HIDE DEF m
  <2>5. f.frame <= n
    <3>1. 1 \in 1 .. Len(q)
      BY <1>6
    <3> QED
      BY <1>6, <2>2, <3>1
  <2>6. \A i \in 1 .. m : f.frame < r[i].frame /\ r[i].frame <= n
    BY <1>6, <2>2, <2>4
  <2>7. \A i, j \in 1 .. m : i < j => r[i].frame < r[j].frame
    <3> SUFFICES ASSUME NEW i \in 1 .. m, NEW j \in 1 .. m, i < j
                 PROVE  r[i].frame < r[j].frame
      OBVIOUS
    <3>1. i + 1 < j + 1
      BY <2>3
    <3> QED
      BY <2>2, <2>4, <3>1
  <2>8. n = rec.count + m + dropped[t]
    <3>1. dropped[t] \in Nat /\ shown[t].count \in Nat
      BY <1>2
    <3>2. n = shown[t].count + Len(q) + dropped[t]
      BY <2>2
    <3> QED
      BY <1>6, <1>9, <2>3, <3>1, <3>2
  <2>9. arrived'[t] = n /\ dropped'[t] = dropped[t] /\ shown'[t].frame = f.frame /\ shown'[t].count = rec.count
    BY <1>1, <1>7, <1>9 DEF n
  <2> QED
    BY <1>8, <2>3, <2>5, <2>6, <2>7, <2>8, <2>9 DEF Rising, m
<1>13. ASSUME NEW u \in Topics, u # t
       PROVE  Rising(u)'
  <2>1. queue'[u] = queue[u] /\ arrived'[u] = arrived[u] /\ dropped'[u] = dropped[u] /\ shown'[u] = shown[u]
    BY <1>1, <1>7, <1>8, <1>13
  <2>2. Rising(u)
    BY DEF FramesInv
  <2> QED
    BY <2>1, <2>2 DEF Rising
<1>14. IF f.slot[1] = "dac" THEN name = "none"
       ELSE name \in Names /\ _resource_ref(name) = f.slot
  <2>1. f.slot \in subscribed
    BY <1>3, <1>6
  <2> QED
    BY <2>1 DEF NamesInv, name
<1>15. PublishedUnderItsName'
  <2> SUFFICES ASSUME NEW u \in Topics, shown'[u].count > 0
               PROVE  IF shown'[u].slot[1] = "dac" THEN shown'[u].name = "none"
                      ELSE shown'[u].name \in Names /\ _resource_ref(shown[u].name)' = shown'[u].slot
    BY DEF PublishedUnderItsName
  <2>1. \A n : _resource_ref(n)' = _resource_ref(n)
    BY <1>1, NamesStay
  <2>2. CASE u = t
    BY <1>7, <1>9, <1>14, <2>1, <2>2
  <2>3. CASE u # t
    BY <1>7, <2>1, <2>3 DEF PublishedUnderItsName
  <2> QED
    BY <2>2, <2>3
<1> QED
  BY <1>11, <1>12, <1>13, <1>15 DEF FramesInv

-----------------------------------------------------------------------------
(* The invariant holds when main() starts. *)
LEMMA BridgeStarts ==
  BridgeInit => BridgeInv
<1> SUFFICES ASSUME BridgeInit PROVE BridgeInv
  OBVIOUS
<1>1. DOMAIN <<>> = {} /\ \A S : <<>> \in Seq(S)
  OBVIOUS
<1>2. HostInv
  BY HostStarts DEF BridgeInit
<1>3. /\ phase = "configuring" /\ subscribed = {} /\ name_by_ref = <<>> /\ response = "none"
      /\ queue = [t \in Topics |-> <<>>] /\ dropped = [t \in Topics |-> 0] /\ arrived = [t \in Topics |-> 0]
      /\ shown = [t \in Topics |-> [count |-> 0, frame |-> 0, slot |-> "none", name |-> "none"]]
  BY DEF BridgeInit
<1>4. NamesInv /\ AnswerInv
  BY <1>1, <1>3 DEF NamesInv, AnswerInv
<1>5. \A t \in Topics : shown[t].count = 0 /\ shown[t].frame = 0 /\ DOMAIN queue[t] = {} /\ Len(queue[t]) = 0
  BY <1>1, <1>3
<1>6. FrameTypes
  BY <1>1, <1>3, <1>5 DEF FrameTypes
<1>7. \A t \in Topics : Rising(t)
  BY <1>3, <1>5 DEF Rising
<1>8. PublishedUnderItsName
  BY <1>5 DEF PublishedUnderItsName
<1> QED
  BY <1>2, <1>4, <1>6, <1>7, <1>8 DEF BridgeInv, FramesInv

(* A step that leaves the names, the frames and the last answer alone. *)
LEMMA OthersRest ==
  ASSUME NamesInv, AnswerInv, FramesInv, PublishedUnderItsName, PhaseMoves, phase' = "spinning" => phase = "spinning",
         UNCHANGED <<ref, name_by_ref, subscribed, queue, dropped, arrived, shown, response, call, result>>,
         stopped => stopped'
  PROVE  NamesInv' /\ AnswerInv' /\ FramesInv' /\ PublishedUnderItsName'
<1>1. NamesInv' /\ FramesInv' /\ PublishedUnderItsName'
  BY NamesRest, FramesRest, ShownRests
<1>2. AnswerInv'
  BY DEF AnswerInv, PhaseMoves
<1> QED
  BY <1>1, <1>2

(* configure_all, as main() runs it. *)
LEMMA ConfiguresKeeps ==
  ASSUME BridgeInv, Configures
  PROVE  BridgeInv'
<1>1. HostInv /\ NamesInv /\ AnswerInv /\ FramesInv /\ PublishedUnderItsName
  BY DEF BridgeInv
<1>2. /\ phase = "configuring" /\ phase' \in {"configuring", "ended"}
      /\ UNCHANGED <<name_by_ref, subscribed, queue, dropped, arrived, shown, response>>
  BY DEF Configures, queueVars, pollVars
<1>3. HostInv'
  BY <1>1, CallsKeep, NextEntryKeeps DEF Configures
<1>4. NamesInv'
  BY <1>1, <1>2, NamesWait
<1>5. FramesInv' /\ PublishedUnderItsName'
  BY <1>1, <1>2, FramesRest, NothingShown DEF PhaseMoves
<1>6. AnswerInv'
  BY <1>1, <1>2 DEF AnswerInv
<1> QED
  BY <1>3, <1>4, <1>5, <1>6 DEF BridgeInv

(* get_info and configure_names. *)
LEMMA SpinsKeeps ==
  ASSUME BridgeInv, Spins
  PROVE  BridgeInv'
<1>1. HostInv /\ NamesInv /\ AnswerInv /\ FramesInv /\ PublishedUnderItsName /\ HandlesInv
  BY DEF BridgeInv, HostInv, BoardInv
<1>2. /\ phase = "info" /\ phase' = IF Acknowledged THEN "spinning" ELSE "ended"
      /\ IF Acknowledged THEN configure_names ELSE UNCHANGED name_by_ref
      /\ UNCHANGED <<configVars, handleVars, historyVars>>
      /\ UNCHANGED <<ref, subscribed, queue, dropped, arrived, shown, response>>
  BY DEF Spins, queueVars, pollVars, handleVars
<1>3. HostInv'
  <2> DEFINE c == [op |-> "get_info"]
  <2>1. Command(c, FALSE, board) /\ c.op = "get_info"
    BY DEF Spins
  <2> HIDE DEF c
  <2> QED
    BY <1>1, <1>2, <2>1, AskRests
<1>4. NamesInv'
  <2>1. CASE Acknowledged
    <3> DEFINE S == {}
    <3>1. S \in SUBSET {_resource_ref(n) : n \in {m \in Names : HasResource(m)}} /\ subscribed' = subscribed \cup S
      BY <1>2
    <3> HIDE DEF S
    <3> QED
      BY <1>1, <1>2, <2>1, <3>1, NamesRenewed
  <2>2. CASE ~Acknowledged
    BY <1>1, <1>2, <2>2, NamesRest DEF PhaseMoves
  <2> QED
    BY <2>1, <2>2
<1>5. FramesInv' /\ PublishedUnderItsName'
  BY <1>1, <1>2, FramesRest, ShownRests DEF PhaseMoves
<1>6. AnswerInv'
  BY <1>1, <1>2 DEF AnswerInv
<1> QED
  BY <1>3, <1>4, <1>5, <1>6 DEF BridgeInv

(* A service. *)
LEMMA ServiceKeeps ==
  ASSUME BridgeInv, Service
  PROVE  BridgeInv'
<1>1. HostInv /\ NamesInv /\ AnswerInv /\ FramesInv /\ PublishedUnderItsName /\ HandlesInv
  BY DEF BridgeInv, HostInv, BoardInv
<1>2. /\ phase = "spinning" /\ phase' = "spinning" /\ PhaseMoves
      /\ UNCHANGED <<queue, dropped, arrived, shown>>
      /\ response' = IF Acknowledged THEN "ok" ELSE "failed"
  BY DEF Service, mainVars, queueVars, pollVars, Answer, PhaseMoves
<1>3. response' = "ok" => result' = "acknowledged"
  BY <1>2 DEF Acknowledged
<1>4. CASE /\ (\E h \in DOMAIN ref : HandleService(h)) \/ EmergencyStopService
           /\ UNCHANGED name_by_ref
  <2>1. HostInv' /\ UNCHANGED <<ref, subscribed>>
        /\ call'.op # "subscribe"
        /\ (call'.op = "emergency_stop" /\ call'.active /\ Acknowledged => stopped')
    <3>1. CASE \E h \in DOMAIN ref : HandleService(h)
      BY <1>1, <3>1, HandleServiceKeeps DEF HandleService
    <3>2. CASE EmergencyStopService
      <4>1. PICK active \in BOOLEAN : emergency_stop(active)
        BY <3>2 DEF EmergencyStopService
      <4> DEFINE c == [op |-> "emergency_stop", active |-> active]
      <4>2. c.op = "emergency_stop" /\ c.active = active
        OBVIOUS
      <4>3. Command(c, FALSE, board) /\ UNCHANGED ref
        BY <4>1 DEF emergency_stop, handleVars
      <4> HIDE DEF c
      <4>4. call' = c
        BY <4>3, CommandEnds
      <4>5. Acknowledged => stopped' = active
        BY <4>1 DEF emergency_stop
      <4>6. HostInv'
        BY <1>1, <4>1, CallsKeep
      <4> QED
        BY <3>2, <4>2, <4>3, <4>4, <4>5, <4>6 DEF EmergencyStopService
    <3> QED
      BY <1>4, <3>1, <3>2
  <2>2. NamesInv'
    BY <1>1, <1>2, <1>4, <2>1, NamesRest
  <2>3. FramesInv' /\ PublishedUnderItsName'
    BY <1>1, <1>2, <2>1, FramesRest, ShownRests
  <2>4. AnswerInv'
    BY <1>2, <1>3, <2>1 DEF AnswerInv
  <2> QED
    BY <2>1, <2>2, <2>3, <2>4 DEF BridgeInv
<1>5. CASE /\ \E n \in Names : subscribe(n)
           /\ IF Acknowledged THEN configure_names ELSE UNCHANGED name_by_ref
  <2>1. PICK n \in Names : subscribe(n)
    BY <1>5
  <2>2. PICK s : s = _resource_ref(n) /\ HasResource(n)
    BY <2>1 DEF subscribe
  <2>3. /\ HostInv' /\ UNCHANGED <<ref, stopped>>
        /\ call'.op = "subscribe" /\ call'.slot = s
        /\ subscribed' = subscribed \/ subscribed' = subscribed \cup {s}
        /\ Acknowledged => subscribed' = subscribed \cup {s}
    BY <1>1, <2>1, <2>2, SubscribeKeeps
  <2>4. NamesInv'
    <3>1. CASE Acknowledged
      <4> DEFINE S == {s}
      <4>1. S \in SUBSET {_resource_ref(x) : x \in {m \in Names : HasResource(m)}} /\ subscribed' = subscribed \cup S
        BY <2>2, <2>3, <3>1
      <4> HIDE DEF S
      <4> QED
        BY <1>1, <1>2, <1>5, <2>3, <3>1, <4>1, NamesRenewed
    <3>2. CASE ~Acknowledged
      <4>1. UNCHANGED <<ref, name_by_ref, phase>>
        BY <1>2, <1>5, <2>3, <3>2
      <4>2. s \in DOMAIN name_by_ref \/ s[1] = "dac"
        BY <1>1, <1>2, <2>2 DEF NamesInv
      <4>3. \A x \in subscribed' : x \in DOMAIN name_by_ref \/ x[1] = "dac"
        BY <1>1, <2>3, <4>2 DEF NamesInv
      <4> QED
        BY <1>1, <1>2, <4>1, <4>3, NamesStay DEF NamesInv
    <3> QED
      BY <3>1, <3>2
  <2>5. FramesInv' /\ PublishedUnderItsName'
    <3>1. subscribed \subseteq subscribed'
      BY <2>3
    <3> QED
      BY <1>1, <1>2, <2>3, <3>1, FramesRest, ShownRests
  <2>6. AnswerInv'
    BY <1>2, <1>3, <2>3 DEF AnswerInv
  <2> QED
    BY <2>3, <2>4, <2>5, <2>6 DEF BridgeInv
<1> QED
  BY <1>4, <1>5 DEF Service

(* Every step of the bridge keeps the invariant. *)
LEMMA BridgeSteps ==
  BridgeInv /\ [BridgeNext]_<<vars, bridgeVars>> => BridgeInv'
<1> SUFFICES ASSUME BridgeInv, [BridgeNext]_<<vars, bridgeVars>>
             PROVE  BridgeInv'
  OBVIOUS
<1>1. HostInv /\ NamesInv /\ AnswerInv /\ FramesInv /\ PublishedUnderItsName
  BY DEF BridgeInv
<1>2. UNCHANGED vars => /\ UNCHANGED <<config, todo, ref, ids, bits, board, since, last, skewed, doubtful>>
                        /\ UNCHANGED <<call, result, stopped>>
  BY DEF vars, configVars, handleVars, callVars, historyVars
<1>3. UNCHANGED vars => HostInv'
  BY <1>1, <1>2, HostRests
<1>4. ASSUME UNCHANGED vars, PhaseMoves, phase' = "spinning" => phase = "spinning",
             UNCHANGED <<name_by_ref, subscribed, queue, dropped, arrived, shown, response>>
      PROVE  BridgeInv'
  BY <1>1, <1>2, <1>3, <1>4, OthersRest DEF BridgeInv
<1>5. CASE StartsHeartbeat
  BY <1>4, <1>5 DEF StartsHeartbeat, PhaseMoves, queueVars, pollVars
<1>6. CASE Ends
  BY <1>4, <1>6 DEF Ends, PhaseMoves, queueVars, pollVars
<1>7. CASE HeartbeatDies \/ Watchdog
  <2>1. /\ UNCHANGED <<config, todo, ref, ids, bits, board, since, last, skewed, doubtful, call, result>>
        /\ stopped => stopped'
        /\ UNCHANGED <<phase, name_by_ref, subscribed, queue, dropped, arrived, shown, response>>
    BY <1>7 DEF HeartbeatDies, Watchdog, configVars, handleVars, callVars, historyVars, bridgeVars,
                mainVars, queueVars, pollVars
  <2>2. HostInv'
    BY <1>1, <2>1, HostRests
  <2> QED
    BY <1>1, <2>1, <2>2, OthersRest DEF BridgeInv, PhaseMoves
<1>8. CASE PollStarts \/ PollHasRead \/ \E t \in Topics : LoopEnds(t)
  <2>1. /\ UNCHANGED vars
        /\ UNCHANGED <<phase, name_by_ref, subscribed, queue, dropped, arrived, shown, response>>
    BY <1>8 DEF PollStarts, PollHasRead, LoopEnds, mainVars, queueVars
  <2> QED
    BY <1>4, <2>1 DEF PhaseMoves
<1>9. CASE \E t \in Topics : Publish(t)
  <2>1. PICK t \in Topics : Publish(t)
    BY <1>9
  <2>2. /\ UNCHANGED vars
        /\ UNCHANGED <<phase, name_by_ref, subscribed, response>>
    BY <2>1 DEF Publish, mainVars
  <2>3. NamesInv'
    BY <1>1, <1>2, <2>2, NamesRest DEF PhaseMoves
  <2>4. AnswerInv'
    BY <1>1, <1>2, <2>2 DEF AnswerInv
  <2> QED
    BY <1>1, <1>3, <2>1, <2>2, <2>3, <2>4, FramePublished DEF BridgeInv
<1>10. CASE \E t \in Topics : Receive(t)
  <2>1. PICK t \in Topics : Receive(t)
    BY <1>10
  <2>2. /\ UNCHANGED vars
        /\ UNCHANGED <<phase, name_by_ref, subscribed, response, shown>>
    BY <2>1 DEF Receive, mainVars, pollVars
  <2>3. NamesInv'
    BY <1>1, <1>2, <2>2, NamesRest DEF PhaseMoves
  <2>4. AnswerInv'
    BY <1>1, <1>2, <2>2 DEF AnswerInv
  <2>5. PublishedUnderItsName'
    BY <1>1, <1>2, <2>2, ShownRests
  <2> QED
    BY <1>1, <1>3, <2>1, <2>2, <2>3, <2>4, <2>5, FrameArrives DEF BridgeInv
<1>11. CASE UNCHANGED <<vars, bridgeVars>>
  BY <1>4, <1>11 DEF bridgeVars, mainVars, queueVars, pollVars, PhaseMoves
<1> QED
  BY <1>5, <1>6, <1>7, <1>8, <1>9, <1>10, <1>11, ConfiguresKeeps, SpinsKeeps, ServiceKeeps
  DEF BridgeNext, _poll

(* The bridge keeps the invariant. *)
LEMMA BridgeInvariant ==
  BridgeSpec => []BridgeInv
BY BridgeStarts, BridgeSteps, PTL DEF BridgeSpec

(* Numbers that rise from the last frame shown on are in order with it. *)
LEMMA InOrder ==
  FramesInv => PublishedInOrder
<1> SUFFICES ASSUME FramesInv, NEW t \in Topics
             PROVE  LET all == <<shown[t].frame>> \o [i \in DOMAIN queue[t] |-> queue[t][i].frame]
                    IN /\ \A i, j \in DOMAIN all : i < j => all[i] < all[j]
                       /\ arrived[t] = shown[t].count + Len(queue[t]) + dropped[t]
  BY DEF PublishedInOrder
<1> DEFINE F == [frame : Nat, slot : subscribed]
           q == queue[t]
           g == [i \in DOMAIN q |-> q[i].frame]
           z == shown[t].frame
           all == <<z>> \o g
<1>1. \A x \in F : x.frame \in Nat
  OBVIOUS
<1>2. Rising(t) /\ q \in Seq(F) /\ z \in Nat
  BY DEF FramesInv, FrameTypes
<1> HIDE DEF F
<1>3. /\ \A i \in DOMAIN q : z < q[i].frame
      /\ \A i, j \in DOMAIN q : i < j => q[i].frame < q[j].frame
      /\ arrived[t] = shown[t].count + Len(q) + dropped[t]
  BY <1>2 DEF Rising
<1> HIDE DEF q, z
<1>4. DOMAIN q = 1 .. Len(q) /\ Len(q) \in Nat /\ \A i \in DOMAIN q : q[i].frame \in Nat
  BY <1>1, <1>2
<1>5. g \in Seq(Nat) /\ Len(g) = Len(q) /\ \A i \in 1 .. Len(q) : g[i] = q[i].frame
  BY <1>4
<1> HIDE DEF g
<1>6. /\ Len(all) = 1 + Len(q) /\ DOMAIN all = 1 .. 1 + Len(q) /\ all[1] = z
      /\ \A i \in 2 .. 1 + Len(q) : all[i] = g[i - 1]
  BY <1>2, <1>4, <1>5
<1> HIDE DEF all
<1>7. ASSUME NEW i \in DOMAIN all, NEW j \in DOMAIN all, i < j
      PROVE  all[i] < all[j]
  <2>1. j \in 2 .. 1 + Len(q) /\ j - 1 \in 1 .. Len(q) /\ all[j] = q[j - 1].frame
    BY <1>4, <1>5, <1>6, <1>7
  <2>2. CASE i = 1
    BY <1>3, <1>4, <1>6, <2>1, <2>2
  <2>3. CASE i # 1
    <3>1. i \in 2 .. 1 + Len(q) /\ i - 1 \in 1 .. Len(q) /\ all[i] = q[i - 1].frame
      BY <1>4, <1>5, <1>6, <2>3
    <3>2. i - 1 < j - 1
      BY <1>4, <1>6, <1>7
    <3> QED
      BY <1>3, <1>4, <2>1, <3>1, <3>2
  <2> QED
    BY <2>2, <2>3
<1> QED
  BY <1>3, <1>7 DEF all, g, q, z

(* Frames are published in the order of their arrival, and each is published,
   waiting or counted as dropped. *)
THEOREM PublishingIsOrdered == BridgeSpec => []PublishedInOrder
<1>1. BridgeInv => PublishedInOrder
  BY InOrder DEF BridgeInv
<1> QED
  BY <1>1, BridgeInvariant, PTL

(* A frame is published under a name of its resource, and a DAC's under none. *)
THEOREM NamesAreRight == BridgeSpec => []PublishedUnderItsName
<1>1. BridgeInv => PublishedUnderItsName
  BY DEF BridgeInv
<1> QED
  BY <1>1, BridgeInvariant, PTL

(* What a service answers ok for has happened. *)
THEOREM OkIsDone == BridgeSpec => []OkMeansDone
<1>1. BridgeInv => OkMeansDone
  <2> SUFFICES ASSUME BridgeInv, response = "ok"
               PROVE  OkMeansDone
    BY DEF OkMeansDone
  <2>1. WriteExact /\ AnswerInv
    BY DEF BridgeInv, HostInv, BoardInv, CallInv
  <2> QED
    BY <2>1 DEF OkMeansDone, AnswerInv, WriteExact
<1> QED
  BY <1>1, BridgeInvariant, PTL

(* Under the bridge, too, what the board acknowledges is what the host believes. *)
THEOREM BridgeIsExact == BridgeSpec => [](DeltaExact /\ WriteExact)
<1>1. BridgeInv => DeltaExact /\ WriteExact
  BY DEF BridgeInv, HostInv, BoardInv, CallInv
<1> QED
  BY <1>1, BridgeInvariant, PTL

-----------------------------------------------------------------------------
(* configure_all. *)

(* The part of the board a class is on. *)
BoardClass(class) == IF class \in {"pin", "pwm"} THEN "gpio" ELSE class

(* Entry d takes the place of e. *)
Taken(d, e) ==
  \/ Handle(d) = Handle(e)
  \/ /\ BoardClass(ClassOf[d.type]) = BoardClass(ClassOf[e.type]) /\ d.at = e.at
     /\ BoardClass(ClassOf[e.type]) \in {"gpio", "analog", "bus"}

Sources(e) == {j \in DOMAIN config : ClassOf[config[j].type] = "pin" /\ config[j].name = e.at}

Targets(e) == {j \in DOMAIN config : config[j].type = "i2c_bus" /\ config[j].name = e.at}

(* The slot r is as the entry e has it. *)
AsWritten(e, r) ==
  /\ r.by = Handle(e)
  /\ e.type = "counter" => r.holds = IF e.at \in Int THEN e.at ELSE config[Max(Sources(e))].at
  /\ e.type = "dac" => r.holds = [bus |-> config[Max(Targets(e))].at, bits |-> e.bits]

(* The classes whose number is in the file. *)
Given == {"pin", "pwm", "analog", "bus"}

(* After k entries, entry i is on the board or has been replaced; the number of
   its handle is its own if it is the last entry for it. *)
OnBoard(i, k) ==
  LET e == config[i]
      h == Handle(e)
      s == SlotOf(h)
  IN /\ h \in DOMAIN ref /\ s \in DOMAIN board
     /\ (\E j \in i + 1 .. k : Taken(config[j], e)) \/ AsWritten(e, board[s])
     /\ (\A j \in i + 1 .. k : Handle(config[j]) # h) /\ h[1] \in Given => ref[h] = e.at

Applied(k) == \A i \in 1 .. k : OnBoard(i, k)

(* A file that was validated: sections in order, a name once in each. *)
ConfigInv ==
  /\ validate_config(config)
  /\ \A i, j \in DOMAIN config : i < j =>
       /\ Section[config[i].type] <= Section[config[j].type]
       /\ Section[config[i].type] = Section[config[j].type] => config[i].name # config[j].name

(* configure_all is on its way through the file, or it is not running. *)
TodoInv ==
  /\ Len(todo) <= Len(config)
  /\ \A i \in 1 .. Len(todo) : todo[i] = config[Len(config) - Len(todo) + i]
  /\ configured = "running" <=> todo # <<>>

RunInv ==
  /\ ConfigInv /\ TodoInv
  /\ \A h \in DOMAIN ref : h[1] \in Given => \E j \in DOMAIN config : Handle(config[j]) = h
  /\ configured \in {"running", "returned"} => Applied(Len(config) - Len(todo))
  /\ QuietConfigApplies

(* The greatest of some places in a sequence. *)
LEMMA GreatestPlace ==
  ASSUME NEW n \in Nat, NEW S \in SUBSET (1 .. n), S # {}
  PROVE  Max(S) \in S /\ \A y \in S : Max(S) >= y
<1> DEFINE T == {n - x : x \in S}
<1>1. T \in SUBSET Nat /\ T # {}
  <2>1. \A x \in 1 .. n : n - x \in Nat
    OBVIOUS
  <2> QED
    BY <2>1
<1>2. PICK m \in T : \A k \in T : m <= k
  BY <1>1, LeastElement
<1>3. PICK x \in S : m = n - x
  BY <1>2
<1>4. ASSUME NEW y \in S
      PROVE  x >= y
  <2>1. n - x <= n - y
    BY <1>2, <1>3
  <2> QED
    BY <2>1
<1>5. \E z \in S : \A y \in S : z >= y
  BY <1>4
<1> QED
  BY <1>5 DEF Max

(* Every file that validates is in order. *)
LEMMA FilesInOrder ==
  ASSUME NEW f \in Files \cup FlawedFiles, NEW i \in DOMAIN f, NEW j \in DOMAIN f, i < j
  PROVE  /\ Section[f[i].type] <= Section[f[j].type]
         /\ Section[f[i].type] = Section[f[j].type] => f[i].name # f[j].name
<1>1. CASE f \in Files
  BY <1>1 DEF Files
<1>2. CASE f \in FlawedFiles
  <2>1. PICK g \in {x \in Files : Len(x) \in 1 .. MaxEntries - 1} :
          f \in {Append(Front(g), e) : e \in Flawed(Last(g))}
    BY <1>2 DEF FlawedFiles
  <2>2. PICK e \in Flawed(Last(g)) : f = Append(Front(g), e)
    BY <2>1
  <2>3. g \in Seq(FileEntry) /\ Len(g) >= 1 /\ Len(g) \in Nat
    BY FilesFit, HostAssumption
  <2>4. Last(g) = g[Len(g)] /\ Last(g) \in FileEntry
    BY <2>3 DEF Last
  <2>5. e.type = Last(g).type /\ e.name = Last(g).name
    BY <2>2, <2>4 DEF Flawed, FileEntry
  <2>6. /\ Front(g) \in Seq(FileEntry) /\ Len(Front(g)) = Len(g) - 1
        /\ \A k \in 1 .. Len(g) - 1 : Front(g)[k] = g[k]
    BY <2>3, Start DEF Front
  <2> DEFINE b == Front(g)
  <2>7. DOMAIN f = 1 .. Len(g) /\ \A k \in 1 .. Len(g) : f[k] = IF k = Len(g) THEN e ELSE g[k]
    <3>1. b \in Seq(FileEntry) /\ Len(b) = Len(g) - 1 /\ f = Append(b, e)
      BY <2>2, <2>6
    <3> HIDE DEF b
    <3>2. DOMAIN f = 1 .. Len(g)
      BY <2>3, <3>1
    <3>3. \A k \in 1 .. Len(g) : f[k] = IF k = Len(g) THEN e ELSE b[k]
      BY <2>3, <3>1
    <3> QED
      BY <2>3, <2>6, <3>2, <3>3 DEF b
  <2>8. \A k \in DOMAIN f : k \in DOMAIN g /\ f[k].type = g[k].type /\ f[k].name = g[k].name
    BY <2>3, <2>4, <2>5, <2>7
  <2>9. /\ Section[g[i].type] <= Section[g[j].type]
        /\ Section[g[i].type] = Section[g[j].type] => g[i].name # g[j].name
    BY <2>1, <2>8 DEF Files
  <2> QED
    BY <2>8, <2>9
<1> QED
  BY <1>1, <1>2

LEMMA RunStarts ==
  Init => RunInv
<1> SUFFICES ASSUME Init PROVE RunInv
  OBVIOUS
<1>1. config \in Files \cup FlawedFiles /\ validate_config(config)
  BY DEF Init
<1>2. todo = <<>> /\ configured = "no" /\ ref = <<>>
  BY DEF Init
<1>3. config \in Seq(FileEntry) /\ Len(<<>>) = 0 /\ DOMAIN <<>> = {}
  BY <1>1, FilesFit
<1>4. ConfigInv
  BY <1>1, FilesInOrder DEF ConfigInv
<1>5. TodoInv
  BY <1>2, <1>3 DEF TodoInv
<1>6. QuietConfigApplies
  BY <1>2 DEF QuietConfigApplies
<1> QED
  BY <1>2, <1>3, <1>4, <1>5, <1>6 DEF RunInv

(* A step that touches no more than values on the board. *)
LEMMA RunRests ==
  ASSUME RunInv, UNCHANGED <<config, todo, configured, ref>>, DOMAIN board' = DOMAIN board,
         \A s \in DOMAIN board : board'[s].by = board[s].by /\ board'[s].holds = board[s].holds
  PROVE  RunInv'
<1>1. ConfigInv' /\ TodoInv' /\ QuietConfigApplies'
  BY DEF RunInv, ConfigInv, TodoInv, QuietConfigApplies, validate_config
<1>2. ASSUME NEW e, NEW q, NEW r, q.by = r.by, q.holds = r.holds, AsWritten(e, r)
      PROVE  AsWritten(e, q)
  BY <1>2 DEF AsWritten
<1>3. ASSUME NEW k, Applied(k)
      PROVE  Applied(k)'
  <2> SUFFICES ASSUME NEW i \in 1 .. k
               PROVE  OnBoard(i, k)'
    BY DEF Applied
  <2> DEFINE e == config[i]
             h == Handle(e)
             s == SlotOf(h)
  <2>1. /\ h \in DOMAIN ref /\ s \in DOMAIN board
        /\ (\E j \in i + 1 .. k : Taken(config[j], e)) \/ AsWritten(e, board[s])
        /\ (\A j \in i + 1 .. k : Handle(config[j]) # h) /\ h[1] \in Given => ref[h] = e.at
    BY <1>3 DEF Applied, OnBoard
  <2>2. AsWritten(e, board[s]) => AsWritten(e, board'[s])
    <3> HIDE DEF s
    <3> QED
      BY <1>2, <2>1
  <2>3. s = SlotOf(Handle(config[i]))' /\ \A r : AsWritten(e, r) => AsWritten(config[i], r)'
    BY DEF SlotOf, AsWritten, Sources, Targets
  <2> QED
    BY <2>1, <2>2, <2>3 DEF OnBoard, SlotOf, AsWritten, Sources, Targets
<1> QED
  BY <1>1, <1>3 DEF RunInv

(* A step after which configure_all has not returned, nor is it running. *)
LEMMA RunForgotten ==
  ASSUME RunInv, UNCHANGED config, todo' = <<>>, configured' = "no", DOMAIN ref' = DOMAIN ref
  PROVE  RunInv'
<1>1. ConfigInv' /\ QuietConfigApplies'
  BY DEF RunInv, ConfigInv, QuietConfigApplies, validate_config
<1>2. TodoInv'
  BY DEF RunInv, TodoInv
<1> QED
  BY <1>1, <1>2 DEF RunInv

(* The entry that configure_all has come to. *)
LEMMA NextEntry ==
  ASSUME HostInv, RunInv, todo # <<>>
  PROVE  LET k == Len(config) - Len(todo)
         IN /\ k \in Nat /\ k + 1 \in DOMAIN config /\ Len(config) - Len(Tail(todo)) = k + 1
            /\ Head(todo) = config[k + 1] /\ config[k + 1] \in FileEntry
            /\ Tail(todo) = <<>> <=> Len(todo) = 1
            /\ Len(Tail(todo)) <= Len(config)
            /\ \A i \in 1 .. Len(Tail(todo)) : Tail(todo)[i] = config[(k + 1) + i]
            /\ Applied(k)
<1>1. config \in Seq(FileEntry) /\ todo \in Seq(FileEntry)
  BY DEF HostInv, FilesInv
<1>2. Len(todo) <= Len(config) /\ \A i \in 1 .. Len(todo) : todo[i] = config[(Len(config) - Len(todo)) + i]
  BY <1>1 DEF RunInv, TodoInv
<1>3. PICK n \in Nat, m \in Nat : n = Len(config) /\ m = Len(todo) /\ m >= 1 /\ m <= n
  BY <1>1, <1>2
<1>4. /\ Tail(todo) \in Seq(FileEntry) /\ Len(Tail(todo)) = m - 1 /\ Head(todo) = todo[1]
      /\ \A i \in 1 .. m - 1 : Tail(todo)[i] = todo[i + 1]
  BY <1>1, <1>3
<1>5. \A i \in 1 .. m - 1 : Tail(todo)[i] = config[((n - m) + 1) + i]
  <2> SUFFICES ASSUME NEW i \in 1 .. m - 1
               PROVE  Tail(todo)[i] = config[((n - m) + 1) + i]
    OBVIOUS
  <2>1. i + 1 \in 1 .. m /\ (n - m) + (i + 1) = ((n - m) + 1) + i
    BY <1>3
  <2>2. todo[i + 1] = config[(n - m) + (i + 1)]
    BY <1>2, <1>3, <2>1
  <2> QED
    BY <1>4, <2>1, <2>2
<1>6. (n - m) + 1 \in DOMAIN config /\ n - m \in Nat
  BY <1>1, <1>3
<1>7. todo[1] = config[(n - m) + 1]
  BY <1>2, <1>3
<1>8. Applied(n - m)
  BY <1>3 DEF RunInv, TodoInv
<1>9. config[(n - m) + 1] \in FileEntry
  BY <1>1, <1>6
<1>10. Tail(todo) = <<>> <=> m = 1
  BY <1>4
<1>11. n - (m - 1) = (n - m) + 1 /\ m - 1 <= n
  BY <1>3
<1> QED
  BY <1>3, <1>4, <1>5, <1>6, <1>7, <1>8, <1>9, <1>10, <1>11

(* Whom the file has for a handle. *)
For(h) == {j \in DOMAIN config : Handle(config[j]) = h}

(* A handle that entries before the next are for, and none after it. *)
LEMMA EarlierHandle ==
  ASSUME FilesInv, NEW k \in Nat, k <= Len(config), Applied(k), NEW h, h[1] \in Given,
         For(h) # {}, \A j \in For(h) : j <= k
  PROVE  h \in DOMAIN ref /\ ref[h] = config[Max(For(h))].at /\ SlotOf(h) \in DOMAIN board
<1> DEFINE m == Max(For(h))
<1>1. config \in Seq(FileEntry) /\ Len(config) \in Nat /\ DOMAIN config = 1 .. Len(config)
  BY DEF FilesInv
<1>2. For(h) \in SUBSET (1 .. Len(config))
  BY <1>1 DEF For
<1>3. m \in For(h) /\ \A y \in For(h) : m >= y
  BY <1>1, <1>2, GreatestPlace
<1> HIDE DEF m
<1>4. m \in 1 .. k /\ Handle(config[m]) = h
  BY <1>1, <1>3 DEF For
<1>5. \A j \in m + 1 .. k : Handle(config[j]) # h
  <2> SUFFICES ASSUME NEW j \in m + 1 .. k, Handle(config[j]) = h PROVE FALSE
    OBVIOUS
  <2>1. j \in DOMAIN config /\ j > m
    BY <1>1, <1>4
  <2> QED
    BY <1>1, <1>3, <1>4, <2>1 DEF For
<1>6. OnBoard(m, k)
  BY <1>4 DEF Applied
<1> QED
  BY <1>4, <1>5, <1>6 DEF OnBoard, m

(* Sources and targets are the entries for a pin or a bus, and come earlier. *)
LEMMA EarlierSections ==
  ASSUME FilesInv, ConfigInv, NEW i \in DOMAIN config, NEW e, e = config[i]
  PROVE  /\ Sources(e) = For(<<"pin", e.at>>) /\ Targets(e) = For(<<"bus", e.at>>)
         /\ e.type = "counter" => \A j \in Sources(e) : j < i
         /\ e.type = "dac" => \A j \in Targets(e) : j < i
<1>1. config \in Seq(FileEntry) /\ \A j \in DOMAIN config : config[j] \in FileEntry /\ j \in Nat
  BY DEF FilesInv
<1>2. \A j \in DOMAIN config : config[j].type \in Types
  BY <1>1 DEF FileEntry
<1>3. \A j \in DOMAIN config : ClassOf[config[j].type] = "bus" <=> config[j].type = "i2c_bus"
  BY <1>2 DEF ClassOf, Types
<1>4. Sources(e) = For(<<"pin", e.at>>) /\ Targets(e) = For(<<"bus", e.at>>)
  BY <1>3 DEF Sources, Targets, For, Handle
<1>5. ASSUME NEW j \in DOMAIN config, ~(j < i)
      PROVE  Section[config[i].type] <= Section[config[j].type]
  <2>1. CASE j = i
    <3>1. config[i].type \in Types
      BY <1>2
    <3> QED
      BY <2>1, <3>1 DEF Types, Section
  <2>2. CASE i < j
    BY <2>2 DEF ConfigInv
  <2> QED
    BY <1>1, <1>5, <2>1, <2>2
<1>6. ASSUME e.type = "counter", NEW j \in Sources(e)
      PROVE  j < i
  <2>1. j \in DOMAIN config /\ config[j].type \in {"digital_output", "input"}
    BY <1>2, <1>6 DEF Sources, ClassOf, Types
  <2>2. Section[config[j].type] < Section[config[i].type]
    BY <1>6, <2>1 DEF Section
  <2>3. Section[config[j].type] \in Nat /\ Section[config[i].type] \in Nat
    BY <1>6, <2>1 DEF Section
  <2> QED
    BY <1>5, <2>1, <2>2, <2>3
<1>7. ASSUME e.type = "dac", NEW j \in Targets(e)
      PROVE  j < i
  <2>1. j \in DOMAIN config /\ config[j].type = "i2c_bus"
    BY <1>7 DEF Targets
  <2>2. Section[config[j].type] < Section[config[i].type]
    BY <1>7, <2>1 DEF Section
  <2>3. Section[config[j].type] \in Nat /\ Section[config[i].type] \in Nat
    BY <1>7, <2>1 DEF Section
  <2> QED
    BY <1>5, <2>1, <2>2, <2>3
<1> QED
  BY <1>4, <1>6, <1>7

(* What an entry refers to is in the file. *)
Resolves(e) ==
  CASE e.type = "counter" ->
         e.at \in Int \ {0} \/ \E d \in Range(config) : ClassOf[d.type] = "pin" /\ d.name = e.at
    [] e.type = "dac" -> \E d \in Range(config) : d.type = "i2c_bus" /\ d.name = e.at
    [] OTHER -> TRUE

(* What an entry comes to, once all entries before it have been applied. *)
LEMMA PlanApplies ==
  ASSUME FilesInv, HandlesInv, ConfigInv,
         \A h \in DOMAIN ref : h[1] \in Given => \E j \in DOMAIN config : Handle(config[j]) = h,
         NEW k \in Nat, k + 1 \in DOMAIN config, Applied(k), NEW e, e = config[k + 1]
  PROVE  LET p == PlanOf(e)
         IN /\ p.error # "none" => ~Resolves(e) \/ ~e.fits
            /\ p.error = "none" => AsWritten(e, p.holds)
            /\ p.error = "none" /\ e.type = "dac" => <<"bus", p.holds.holds.bus>> \in DOMAIN board
            /\ Handle(e)[1] \in Given => p.number = e.at
<1> DEFINE p == PlanOf(e)
<1>1. config \in Seq(FileEntry) /\ e \in FileEntry /\ Range(config) = {config[j] : j \in DOMAIN config}
      /\ DOMAIN config = 1 .. Len(config) /\ Len(config) \in Nat /\ k <= Len(config)
  BY DEF FilesInv, Range
<1>2. e.type \in Types /\ e.name \in Names
  BY <1>1 DEF FileEntry
<1>3. /\ e.supported
      /\ e.type \notin {"counter", "dac"} => e.at \in Int
      /\ e.type = "dac" => e.at \in Names
  <2>1. e \in Range(config) /\ validate_config(config)
    BY <1>1 DEF ConfigInv
  <2> QED
    BY <2>1 DEF validate_config
<1>4. Junk \notin Int /\ Junk \notin Names /\ 0 \notin Names
  BY HostAssumption
<1>5. /\ Sources(e) = For(<<"pin", e.at>>) /\ Targets(e) = For(<<"bus", e.at>>)
      /\ e.type = "counter" => \A j \in Sources(e) : j <= k
      /\ e.type = "dac" => \A j \in Targets(e) : j <= k
  <2>1. /\ Sources(e) = For(<<"pin", e.at>>) /\ Targets(e) = For(<<"bus", e.at>>)
        /\ e.type = "counter" => \A j \in Sources(e) : j < k + 1
        /\ e.type = "dac" => \A j \in Targets(e) : j < k + 1
    BY EarlierSections
  <2>2. \A j \in DOMAIN config : j < k + 1 => j <= k
    BY <1>1
  <2>3. Sources(e) \subseteq DOMAIN config /\ Targets(e) \subseteq DOMAIN config
    BY DEF Sources, Targets
  <2> QED
    BY <2>1, <2>2, <2>3
(* The handle it refers to has the number of its last entry, if it has one. *)
<1>6. ASSUME NEW h \in DOMAIN ref, h[1] \in Given, \A j \in For(h) : j <= k
      PROVE  For(h) # {} /\ ref[h] = config[Max(For(h))].at /\ SlotOf(h) \in DOMAIN board
  <2>1. For(h) # {}
    BY <1>6 DEF For
  <2> QED
    BY <1>1, <1>6, <2>1, EarlierHandle
<1>7. CASE e.type \notin {"counter", "dac"}
  <2>1. e.at \in Int /\ e.at # Junk
    BY <1>3, <1>4, <1>7
  <2>2. /\ p.error # "none" => ~e.fits
        /\ p.holds.by = Handle(e)
        /\ e.type # "encoder" => p.number = e.at
    <3>1. CASE e.type \in {"digital_output", "input", "pwm"}
      BY <1>3, <2>1, <3>1 DEF PlanOf, ConfigureGpio, Plan, Error, ClassOf
    <3>2. CASE e.type = "analog"
      BY <1>3, <2>1, <3>2 DEF PlanOf, ConfigureAnalog, Plan, Error, ClassOf
    <3>3. CASE e.type = "encoder"
      BY <1>3, <2>1, <3>3 DEF PlanOf, AttachEncoder, Plan, Error, ClassOf
    <3>4. CASE e.type = "i2c_bus"
      BY <1>3, <2>1, <3>4 DEF PlanOf, ConfigureBus, Plan, Error, ClassOf
    <3> QED
      BY <1>2, <1>7, <3>1, <3>2, <3>3, <3>4 DEF Types
  <2>3. AsWritten(e, p.holds)
    BY <1>7, <2>2 DEF AsWritten
  <2>4. Handle(e)[1] \in Given => e.type # "encoder"
    BY DEF Handle, ClassOf, Given
  <2> QED
    BY <1>7, <2>2, <2>3, <2>4
<1>8. CASE e.type = "counter"
  <2> DEFINE source == Source(e)
             known == source \in Int \/ HasRef(<<"pin", source>>)
             pin == IF source \in Int THEN source ELSE IF known THEN ref[<<"pin", source>>] ELSE 0
  <2>1. /\ p.holds.holds = pin /\ p.holds.by = Handle(e)
        /\ p.error = Error(e, ~known, ~e.fits)
    BY <1>8 DEF PlanOf, AttachCounter, Plan, ClassOf
  <2>2. p.error # "none" => ~known \/ e.at = Junk \/ ~e.fits
    BY <1>3, <2>1 DEF Error
  <2>3. p.error = "none" => known
    BY <2>1 DEF Error
  <2>4. HasRef(<<"pin", source>>) => source \in Names
    BY DEF HasRef, HandlesInv, Handles
  <2>5. ~known => ~Resolves(e)
    <3> SUFFICES ASSUME Resolves(e), ~known PROVE FALSE
      OBVIOUS
    <3>1. e.at \in Int \ {0} \/ \E j \in DOMAIN config : ClassOf[config[j].type] = "pin" /\ config[j].name = e.at
      BY <1>1, <1>8 DEF Resolves
    <3>2. CASE e.at \in Int \ {0}
      BY <3>2 DEF Source
    <3>3. ASSUME NEW j \in DOMAIN config, ClassOf[config[j].type] = "pin", config[j].name = e.at
          PROVE  FALSE
      <4>1. j \in Sources(e) /\ Handle(config[j]) = <<"pin", e.at>>
        BY <3>3 DEF Sources, Handle
      <4>2. j \in 1 .. k
        BY <1>1, <1>5, <1>8, <4>1
      <4>3. <<"pin", e.at>> \in DOMAIN ref
        BY <4>1, <4>2 DEF Applied, OnBoard
      <4>4. e.at \in Names
        BY <4>3 DEF HandlesInv, Handles
      <4> QED
        BY <1>4, <4>3, <4>4 DEF Source, HasRef
    <3> QED
      BY <3>1, <3>2, <3>3
  <2>6. e.at = Junk => ~known
    BY <1>4, <2>4 DEF Source
  <2>7. ASSUME known
        PROVE  pin = IF e.at \in Int THEN e.at ELSE config[Max(Sources(e))].at
    <3>1. source = e.at
      BY <1>4, <2>4, <2>7 DEF Source
    <3>2. CASE e.at \in Int
      BY <3>1, <3>2
    <3>3. CASE e.at \notin Int
      <4> DEFINE h == <<"pin", e.at>>
      <4>1. h \in DOMAIN ref /\ pin = ref[h]
        BY <2>7, <3>1, <3>3 DEF HasRef
      <4>2. h[1] \in Given /\ \A j \in For(h) : j <= k
        BY <1>5, <1>8 DEF Given
      <4> HIDE DEF h
      <4>3. ref[h] = config[Max(For(h))].at
        BY <1>6, <4>1, <4>2
      <4> QED
        BY <1>5, <3>3, <4>1, <4>3 DEF h
    <3> QED
      BY <3>2, <3>3
  <2> HIDE DEF known, pin, source, p
  <2>8. p.error = "none" => AsWritten(e, p.holds)
    BY <1>8, <2>1, <2>3, <2>7 DEF AsWritten
  <2>9. Handle(e)[1] \notin Given
    BY <1>8 DEF Handle, ClassOf, Given
  <2> QED
    BY <1>8, <2>2, <2>5, <2>6, <2>8, <2>9 DEF p
<1>9. CASE e.type = "dac"
  <2> DEFINE h == <<"bus", e.at>>
             bus == IF HasRef(h) THEN ref[h] ELSE 0
  <2>1. /\ p.holds.holds = [bus |-> bus, bits |-> e.bits] /\ p.holds.by = Handle(e)
        /\ p.error = Error(e, ~HasRef(h), ~e.fits)
    BY <1>9 DEF PlanOf, AttachDac, Plan, ClassOf
  <2>2. e.at # Junk
    BY <1>3, <1>4, <1>9
  <2>3. p.error # "none" => ~HasRef(h) \/ ~e.fits
    BY <1>3, <2>1, <2>2 DEF Error
  <2>4. p.error = "none" => HasRef(h)
    BY <2>1 DEF Error
  <2>5. h[1] \in Given /\ h[1] = "bus" /\ Targets(e) = For(h) /\ \A j \in For(h) : j <= k
    BY <1>5, <1>9 DEF Given
  <2>6. ~HasRef(h) => ~Resolves(e)
    <3> SUFFICES ASSUME Resolves(e), ~HasRef(h) PROVE FALSE
      OBVIOUS
    <3>1. PICK j \in DOMAIN config : config[j].type = "i2c_bus" /\ config[j].name = e.at
      BY <1>1, <1>9 DEF Resolves
    <3>2. j \in Targets(e) /\ Handle(config[j]) = h
      BY <3>1 DEF Targets, Handle, ClassOf
    <3>3. j \in 1 .. k
      <4>1. j <= k
        BY <1>5, <1>9, <3>2
      <4> QED
        BY <1>1, <4>1
    <3> QED
      BY <3>2, <3>3 DEF Applied, OnBoard, HasRef
  <2> HIDE DEF h
  <2>7. ASSUME HasRef(h)
        PROVE  bus = config[Max(Targets(e))].at /\ <<"bus", bus>> \in DOMAIN board
    <3>1. h \in DOMAIN ref /\ bus = ref[h]
      BY <2>7 DEF HasRef
    <3>2. ref[h] = config[Max(For(h))].at /\ SlotOf(h) \in DOMAIN board
      BY <1>6, <2>5, <3>1
    <3>3. SlotOf(h) = <<"bus", ref[h]>>
      BY <2>5 DEF SlotOf
    <3> QED
      BY <2>5, <3>1, <3>2, <3>3
  <2> HIDE DEF p, bus
  <2>8. p.error = "none" => AsWritten(e, p.holds) /\ p.holds.holds.bus = bus
    BY <1>9, <2>1, <2>4, <2>7 DEF AsWritten
  <2>9. Handle(e)[1] \notin Given
    BY <1>9 DEF Handle, ClassOf, Given
  <2> QED
    BY <1>9, <2>3, <2>4, <2>6, <2>7, <2>8, <2>9 DEF p
<1> QED
  BY <1>7, <1>8, <1>9

(* How the call that configures an entry ends. *)
LEMMA ConfigureEnds ==
  ASSUME NEW e, Configure(e)
  PROVE  LET p == PlanOf(e)
         IN /\ Acknowledged => p.error = "none" /\ board' = With(board, p.slot, p.holds)
            /\ result' \in Results
            /\ result' = "raised" => p.error # "none"
            /\ result' = "refused" =>
                 p.error = "none" /\ (e.high \/ (e.type = "dac" /\ <<"bus", p.holds.holds.bus>> \notin DOMAIN board))
            /\ ref' = IF p.error = "first" THEN ref ELSE With(ref, Handle(e), p.number)
            /\ config' = config
<1> DEFINE p == PlanOf(e)
           c == [op |-> "configure", handle |-> Handle(e)]
           refused == (e.high /\ stopped)
                   \/ (e.type = "dac" /\ <<"bus", p.holds.holds.bus>> \notin DOMAIN board)
           after == With(board, p.slot, p.holds)
<1>1. /\ IF p.error = "none" THEN Command(c, refused, after) ELSE Raise(c)
      /\ ref' = IF p.error = "first" THEN ref ELSE With(ref, Handle(e), p.number)
      /\ config' = config
  BY DEF Configure
<1>2. refused => e.high \/ (e.type = "dac" /\ <<"bus", p.holds.holds.bus>> \notin DOMAIN board)
  OBVIOUS
<1> HIDE DEF p, c, refused, after
<1>3. CASE p.error = "none"
  <2>1. Command(c, refused, after)
    BY <1>1, <1>3
  <2>2. /\ result' \in Results /\ result' # "raised"
        /\ result' = "refused" => refused
        /\ Acknowledged => board' = after
    BY <2>1 DEF Command, Results, Acknowledged
  <2> QED
    BY <1>1, <1>2, <1>3, <2>2 DEF p, after
<1>4. CASE p.error # "none"
  <2>1. result' = "raised"
    BY <1>1, <1>4 DEF Raise
  <2> QED
    BY <1>1, <1>4, <2>1 DEF Results, Acknowledged, p
<1> QED
  BY <1>3, <1>4

(* An entry that is not acknowledged ends configure_all, and only for a reason
   that is in the file, or with a lost answer. *)
LEMMA EntryFails ==
  ASSUME HostInv, RunInv, ConfigureNext, ~Acknowledged
  PROVE  RunInv'
<1> DEFINE k == Len(config) - Len(todo)
           e == config[k + 1]
           p == PlanOf(e)
<1>1. k \in Nat /\ k + 1 \in DOMAIN config /\ Head(todo) = e /\ e \in FileEntry /\ Applied(k)
  BY NextEntry DEF ConfigureNext
<1>2. Configure(e) /\ todo' = <<>> /\ configured' = result'
  BY <1>1 DEF ConfigureNext
<1>3. FilesInv /\ HandlesInv /\ ConfigInv
      /\ \A h \in DOMAIN ref : h[1] \in Given => \E j \in DOMAIN config : Handle(config[j]) = h
  BY DEF HostInv, BoardInv, RunInv
<1> HIDE DEF k, e
<1>4. /\ p.error # "none" => ~Resolves(e) \/ ~e.fits
      /\ p.error = "none" /\ e.type = "dac" => <<"bus", p.holds.holds.bus>> \in DOMAIN board
  BY <1>1, <1>3, PlanApplies DEF e
<1>5. /\ result' \in Results /\ config' = config
      /\ result' = "raised" => p.error # "none"
      /\ result' = "refused" =>
           p.error = "none" /\ (e.high \/ (e.type = "dac" /\ <<"bus", p.holds.holds.bus>> \notin DOMAIN board))
      /\ ref' = IF p.error = "first" THEN ref ELSE With(ref, Handle(e), p.number)
  BY <1>2, ConfigureEnds
<1> HIDE DEF p
<1>6. e \in Range(config)
  BY <1>1 DEF Range, e
<1>7. QuietConfigApplies'
  <2>1. result' = "raised" => \E d \in Range(config) : ~Resolves(d) \/ ~d.fits
    BY <1>4, <1>5, <1>6
  <2>2. result' = "refused" => \E d \in Range(config) : d.high
    BY <1>4, <1>5, <1>6
  <2> QED
    BY <1>2, <1>5, <2>1, <2>2 DEF QuietConfigApplies, Resolves
<1>8. configured' \in {"refused", "timeout", "raised"}
  BY <1>2, <1>5 DEF Results, Acknowledged
<1>9. ConfigInv' /\ TodoInv'
  <2>1. Len(<<>>) = 0 /\ Len(config) \in Nat
    BY <1>3 DEF FilesInv
  <2> QED
    BY <1>2, <1>3, <1>5, <1>8, <2>1 DEF ConfigInv, TodoInv, validate_config
<1>10. \A h \in DOMAIN ref' : h[1] \in Given => \E j \in DOMAIN config : Handle(config[j]) = h
  BY <1>1, <1>3, <1>5 DEF With, e
<1> QED
  BY <1>5, <1>7, <1>8, <1>9, <1>10 DEF RunInv

(* An entry that is acknowledged is applied, and those before it stay so unless
   it takes their place. *)
LEMMA EntryApplies ==
  ASSUME HostInv, RunInv, ConfigureNext, Acknowledged
  PROVE  RunInv'
<1>0. PICK k, d : k = Len(config) - Len(todo) /\ d = config[k + 1]
  OBVIOUS
<1> DEFINE g == Handle(d)
           p == PlanOf(d)
<1>1. /\ k \in Nat /\ k + 1 \in DOMAIN config /\ Head(todo) = d /\ d \in FileEntry /\ Applied(k)
      /\ Len(config) - Len(Tail(todo)) = k + 1
      /\ Tail(todo) = <<>> <=> Len(todo) = 1
      /\ Len(Tail(todo)) <= Len(config)
      /\ \A i \in 1 .. Len(Tail(todo)) : Tail(todo)[i] = config[(k + 1) + i]
  BY <1>0, NextEntry DEF ConfigureNext
<1>2. /\ Configure(d) /\ todo' = Tail(todo)
      /\ configured' = IF Len(todo) = 1 THEN "returned" ELSE "running"
  BY <1>1 DEF ConfigureNext
<1>3. FilesInv /\ HandlesInv /\ ConfigInv
      /\ \A h \in DOMAIN ref : h[1] \in Given => \E j \in DOMAIN config : Handle(config[j]) = h
  BY DEF HostInv, BoardInv, RunInv
<1>4. /\ p.error = "none" => AsWritten(d, p.holds)
      /\ g[1] \in Given => p.number = d.at
  BY <1>0, <1>1, <1>3, PlanApplies
<1>5. /\ p.error = "none" /\ board' = With(board, p.slot, p.holds)
      /\ ref' = With(ref, g, p.number) /\ config' = config
  BY <1>2, ConfigureEnds
<1>6. /\ g \in Handles
      /\ p.slot = <<IF g[1] \in {"pin", "pwm"} THEN "gpio" ELSE g[1], p.number>>
  BY <1>1, PlanFacts
<1>7. \A h \in DOMAIN ref : h # g /\ (h[1] \in Numbering \/ g[1] \in Numbering) => SlotOf(h) # p.slot
  BY <1>1, <1>2, <1>3, <1>5, OwnSlot
<1> HIDE DEF p
<1>8. /\ DOMAIN board' = DOMAIN board \cup {p.slot} /\ board'[p.slot] = p.holds
      /\ \A s \in DOMAIN board : s # p.slot => board'[s] = board[s]
      /\ DOMAIN ref' = DOMAIN ref \cup {g} /\ ref'[g] = p.number
      /\ \A h \in DOMAIN ref : h # g => ref'[h] = ref[h]
  BY <1>5 DEF With
<1>9. \A e, r : AsWritten(e, r) => AsWritten(e, r)'
  BY <1>5 DEF AsWritten, Sources, Targets
(* The new entry. *)
<1>10. OnBoard(k + 1, k + 1)'
  <2>1. SlotOf(g)' = p.slot
    BY <1>6, <1>8 DEF SlotOf
  <2>2. AsWritten(d, board'[p.slot])
    BY <1>4, <1>5, <1>8
  <2>3. g \in DOMAIN ref' /\ p.slot \in DOMAIN board' /\ (g[1] \in Given => ref'[g] = d.at)
    BY <1>4, <1>8
  <2>4. d = config'[k + 1] /\ g = Handle(d)
    BY <1>0, <1>5
  <2> QED
    BY <1>5, <2>1, <2>2, <2>3, <2>4 DEF OnBoard, AsWritten, Sources, Targets, SlotOf
(* One before it. *)
<1>11. ASSUME NEW i \in 1 .. k
       PROVE  OnBoard(i, k + 1)'
  <2>0. PICK e : e = config[i]
    OBVIOUS
  <2> DEFINE h == Handle(e)
             s == SlotOf(h)
             Replaced == \E j \in i + 1 .. k + 1 : Taken(config[j], e)
  <2>1. /\ h \in DOMAIN ref /\ s \in DOMAIN board
        /\ (\E j \in i + 1 .. k : Taken(config[j], e)) \/ AsWritten(e, board[s])
        /\ (\A j \in i + 1 .. k : Handle(config[j]) # h) /\ h[1] \in Given => ref[h] = e.at
    BY <1>1, <2>0 DEF Applied, OnBoard
  <2>2. /\ h \in Handles /\ h[1] = ClassOf[e.type] /\ g[1] = ClassOf[d.type] /\ g[1] \in Classes /\ h[1] \in Classes
    BY <1>3, <1>6, <2>1 DEF Handle, HandlesInv, Handles
  <2>3. k + 1 \in i + 1 .. k + 1 /\ i + 1 .. k \subseteq i + 1 .. k + 1
    BY <1>1
  <2>4. Taken(d, e) => Replaced
    BY <1>0, <2>3
  <2>5. CASE h = g
    <3>1. SlotOf(h)' = p.slot
      BY <1>6, <1>8, <2>5 DEF SlotOf
    <3>2. Replaced
      BY <2>4, <2>5 DEF Taken
    <3>3. ~ \A j \in i + 1 .. k + 1 : Handle(config[j]) # h
      BY <1>0, <2>3, <2>5
    <3> HIDE DEF h, Replaced
    <3>4. h \in DOMAIN ref' /\ SlotOf(h)' \in DOMAIN board'
      BY <1>8, <2>5, <3>1
    <3> QED
      BY <1>5, <2>0, <3>2, <3>3, <3>4 DEF OnBoard, h, Replaced
  <2>6. CASE h # g
    <3>1. ref'[h] = ref[h] /\ h \in DOMAIN ref' /\ s \in DOMAIN board'
      BY <1>8, <2>1, <2>6
    <3>2. SlotOf(h)' = s
      BY <3>1 DEF SlotOf
    <3>3. (\A j \in i + 1 .. k + 1 : Handle(config[j]) # h) /\ h[1] \in Given => ref'[h] = e.at
      BY <2>1, <2>3, <3>1
    <3>4. (\E j \in i + 1 .. k : Taken(config[j], e)) => Replaced
      BY <2>3
    <3>5. CASE s # p.slot
      <4>1. Replaced \/ AsWritten(e, board'[s])
        BY <1>8, <2>1, <3>4, <3>5
      <4> HIDE DEF s, Replaced
      <4> QED
        BY <1>5, <2>0, <3>1, <3>2, <3>3, <4>1 DEF OnBoard, Replaced, AsWritten, Sources, Targets
    <3>6. CASE s = p.slot
      <4>1. h[1] \notin Numbering /\ g[1] \notin Numbering
        BY <1>7, <2>1, <2>6, <3>6
      <4>2. h[1] \in Given /\ g[1] \in Given
        BY <2>2, <4>1 DEF Classes, Numbering, Given
      <4>3. BoardClass(h[1]) = BoardClass(g[1]) /\ ref[h] = p.number
        BY <1>6, <3>6 DEF SlotOf, BoardClass
      <4>4. BoardClass(h[1]) \in {"gpio", "analog", "bus"}
        BY <4>2 DEF Given, BoardClass
      <4>5. Replaced
        <5>1. CASE \E j \in i + 1 .. k : Handle(config[j]) = h
          BY <3>4, <5>1 DEF Taken
        <5>2. CASE \A j \in i + 1 .. k : Handle(config[j]) # h
          <6>1. ref[h] = e.at /\ d.at = e.at
            BY <1>4, <2>1, <4>2, <4>3, <5>2
          <6>2. Taken(d, e)
            BY <2>2, <4>3, <4>4, <6>1 DEF Taken
          <6> QED
            BY <2>4, <6>2
        <5> QED
          BY <5>1, <5>2
      <4> HIDE DEF s, Replaced
      <4> QED
        BY <1>5, <2>0, <3>1, <3>2, <3>3, <4>5 DEF OnBoard, Replaced
    <3> QED
      BY <3>5, <3>6
  <2> QED
    BY <2>5, <2>6
<1>12. Applied(k + 1)'
  <2>1. \A i \in 1 .. k + 1 : i \in 1 .. k \/ i = k + 1
    BY <1>1
  <2> QED
    BY <1>10, <1>11, <2>1 DEF Applied
<1>13. ConfigInv' /\ TodoInv'
  <2>1. configured' = "running" <=> todo' # <<>>
    BY <1>1, <1>2
  <2>2. TodoInv'
    BY <1>1, <1>2, <1>5, <2>1 DEF TodoInv
  <2> QED
    BY <1>3, <1>5, <2>2 DEF ConfigInv, validate_config
<1>14. \A h \in DOMAIN ref' : h[1] \in Given => \E j \in DOMAIN config : Handle(config[j]) = h
  BY <1>0, <1>1, <1>3, <1>8
<1>15. QuietConfigApplies'
  BY <1>2 DEF QuietConfigApplies
<1>16. Applied(Len(config) - Len(todo))'
  BY <1>1, <1>2, <1>5, <1>12
<1> QED
  BY <1>5, <1>13, <1>14, <1>15, <1>16 DEF RunInv

(* configure_all begins. *)
LEMMA RunBegins ==
  ASSUME FilesInv, RunInv, ConfigureAll
  PROVE  RunInv'
<1>1. /\ todo' = config /\ configured' = IF config = <<>> THEN "returned" ELSE "running"
      /\ UNCHANGED <<config, ref>>
  BY DEF ConfigureAll, handleVars
<1>2. config \in Seq(FileEntry) /\ Len(config) \in Nat /\ Len(config) - Len(config) = 0
  BY DEF FilesInv
<1>3. \A i \in 1 .. Len(config) : (Len(config) - Len(config)) + i = i
  BY <1>2
<1>4. ConfigInv' /\ TodoInv' /\ QuietConfigApplies'
  BY <1>1, <1>2, <1>3 DEF RunInv, ConfigInv, TodoInv, QuietConfigApplies, validate_config
<1>5. Applied(Len(config) - Len(todo))'
  <2>1. Len(config') - Len(todo') = 0 /\ 1 .. 0 = {}
    BY <1>1, <1>2
  <2> QED
    BY <2>1 DEF Applied
<1> QED
  BY <1>1, <1>4, <1>5 DEF RunInv

(* What may change of the board while configure_all rests. *)
OnlyValues ==
  /\ DOMAIN board' = DOMAIN board
  /\ \A s \in DOMAIN board : board'[s].by = board[s].by /\ board'[s].holds = board[s].holds

(* A call that asks the board something, or sets one of its values. *)
LEMMA ValuesAsked ==
  ASSUME SlotsInv, NEW c, NEW refused, NEW s, NEW v, NEW after, Command(c, refused, after),
         after = board \/ (s \in DOMAIN board /\ after = [board EXCEPT ![s].value = v])
  PROVE  OnlyValues
<1>1. board' = board \/ board' = after
  BY CommandEnds
<1>2. CASE board' = board
  BY <1>2 DEF OnlyValues
<1>3. CASE s \in DOMAIN board /\ board' = [board EXCEPT ![s].value = v]
  BY <1>3, Revalued DEF OnlyValues
<1> QED
  BY <1>1, <1>2, <1>3

(* Calls on handles set values. *)
LEMMA HandleCallsRest ==
  ASSUME SlotsInv, NEW h, delta(h) \/ reset(h) \/ (\E v \in Values : write(h, v))
  PROVE  OnlyValues /\ UNCHANGED <<configVars, ref>>
<1> DEFINE s == SlotOf(h)
           known == s \in DOMAIN board
<1>1. CASE delta(h)
  <2>1. PICK c, refused : Command(c, refused, board)
    BY <1>1 DEF delta
  <2> QED
    BY <1>1, <2>1, ValuesAsked DEF delta
<1>2. CASE reset(h)
  <2> DEFINE after == IF known THEN [board EXCEPT ![s].value = 0] ELSE board
  <2>1. PICK c, refused : Command(c, refused, after)
    BY <1>2 DEF reset
  <2>2. after = board \/ (known /\ after = [board EXCEPT ![s].value = 0])
    OBVIOUS
  <2> HIDE DEF s, after
  <2> QED
    BY <1>2, <2>1, <2>2, ValuesAsked DEF reset
<1>3. ASSUME NEW v \in Values, write(h, v)
      PROVE  OnlyValues /\ UNCHANGED <<configVars, ref>>
  <2> DEFINE clamped == IF h[1] = "dac" THEN Min({v, MaxValue(board[s].holds.bits)}) ELSE v
             put == IF known THEN [board EXCEPT ![s].value = clamped] ELSE board
             refused == \/ stopped
                        \/ h[1] = "pwm" /\ ~(known /\ board[s].holds = "pwm")
                        \/ h[1] = "dac" /\ ~known
             c == [op |-> "write", handle |-> h, value |-> v]
  <2>1. IF InRange(h, v) THEN Command(c, refused, put) ELSE Raise(c)
    BY <1>3 DEF write
  <2>2. put = board \/ (known /\ put = [board EXCEPT ![s].value = clamped])
    OBVIOUS
  <2> HIDE DEF s, put, clamped, refused, c
  <2>3. OnlyValues
    <3>1. CASE InRange(h, v)
      BY <2>1, <2>2, <3>1, ValuesAsked
    <3>2. CASE ~InRange(h, v)
      BY <2>1, <3>2 DEF Raise, OnlyValues
    <3> QED
      BY <3>1, <3>2
  <2> QED
    BY <1>3, <2>3 DEF write, handleVars
<1> QED
  BY <1>1, <1>2, <1>3

(* Every step of a script keeps what is known of the run. *)
LEMMA RunSteps ==
  HostInv /\ RunInv /\ [Next]_vars => RunInv'
<1> SUFFICES ASSUME HostInv, RunInv, [Next]_vars PROVE RunInv'
  OBVIOUS
<1>1. SlotsInv /\ HandlesInv /\ FilesInv
  BY DEF HostInv, BoardInv
<1>2. ASSUME OnlyValues, UNCHANGED <<configVars, ref>>
      PROVE  RunInv'
  BY <1>2, RunRests DEF OnlyValues, configVars
<1>3. CASE ConfigureNext
  BY <1>3, EntryApplies, EntryFails
<1>4. CASE \E s \in DOMAIN board : Edge(s)
  <2>1. PICK s \in DOMAIN board : Edge(s)
    BY <1>4
  <2> DEFINE n == (board[s].value + 1) % CountMod
  <2>2. board' = [board EXCEPT ![s].value = n] /\ UNCHANGED <<configVars, ref>>
    BY <2>1 DEF Edge, handleVars
  <2> HIDE DEF n
  <2>3. OnlyValues
    BY <1>1, <2>2, Revalued DEF OnlyValues
  <2> QED
    BY <1>2, <2>2, <2>3
<1>5. CASE UNCHANGED vars
  <2>1. OnlyValues /\ UNCHANGED <<configVars, ref>>
    BY <1>5 DEF vars, handleVars, OnlyValues
  <2> QED
    BY <1>2, <2>1
<1>6. CASE Call
  <2>1. todo = <<>>
    BY <1>6 DEF Call, Idle
  <2>2. CASE ConfigureAll
    BY <1>1, <2>2, RunBegins
  <2>3. ASSUME NEW e \in I2cEntries, Handle(e) \in DOMAIN ref, AttachAgain(e)
        PROVE  RunInv'
    <3>1. /\ config' = config /\ todo' = <<>> /\ configured' = "no"
          /\ ref' = ref \/ ref' = With(ref, Handle(e), PlanOf(e).number)
      BY <2>1, <2>3 DEF AttachAgain, Configure
    <3>2. DOMAIN ref' = DOMAIN ref
      BY <2>3, <3>1 DEF With
    <3> QED
      BY <3>1, <3>2, RunForgotten
  <2>4. CASE reset_config
    BY <2>1, <2>4, RunForgotten DEF reset_config, handleVars
  <2>5. ASSUME NEW active, emergency_stop(active)
        PROVE  RunInv'
    <3>1. PICK c, refused : Command(c, refused, board)
      BY <2>5 DEF emergency_stop
    <3>2. UNCHANGED <<configVars, ref>>
      BY <2>5 DEF emergency_stop, handleVars
    <3> QED
      BY <1>1, <1>2, <3>1, <3>2, ValuesAsked
  <2>6. ASSUME NEW h \in DOMAIN ref, delta(h) \/ reset(h) \/ (\E v \in Values : write(h, v))
        PROVE  RunInv'
    BY <1>1, <1>2, <2>6, HandleCallsRest
  <2> QED
    BY <1>6, <2>2, <2>3, <2>4, <2>5, <2>6 DEF Call
<1> QED
  BY <1>3, <1>4, <1>5, <1>6 DEF Next

(* A run that has returned has applied the whole file. *)
LEMMA RunReturned ==
  HostInv /\ RunInv => AppliedAsWritten
<1> SUFFICES ASSUME HostInv, RunInv, configured = "returned", NEW i \in DOMAIN config
             PROVE  LET e == config[i]
                        s == SlotOf(Handle(e))
                        taken(d) == \/ Handle(d) = Handle(e)
                                    \/ /\ SlotOf(Handle(d))[1] = s[1] /\ d.at = e.at
                                       /\ s[1] \in {"gpio", "analog", "bus"}
                        source == {j \in DOMAIN config : ClassOf[config[j].type] = "pin" /\ config[j].name = e.at}
                        target == {j \in DOMAIN config : config[j].type = "i2c_bus" /\ config[j].name = e.at}
                    IN \/ \E j \in i + 1 .. Len(config) : taken(config[j])
                       \/ /\ s \in DOMAIN board
                          /\ board[s].by = Handle(e)
                          /\ e.type = "counter" =>
                               board[s].holds = IF e.at \in Int THEN e.at ELSE config[Max(source)].at
                          /\ e.type = "dac" =>
                               board[s].holds = [bus |-> config[Max(target)].at, bits |-> e.bits]
  BY DEF AppliedAsWritten
<1>1. config \in Seq(FileEntry) /\ Len(<<>>) = 0
  BY DEF HostInv, FilesInv
<1>2. Applied(Len(config)) /\ i \in 1 .. Len(config)
  BY <1>1 DEF RunInv, TodoInv
<1> DEFINE e == config[i]
           s == SlotOf(Handle(e))
<1>3. (\E j \in i + 1 .. Len(config) : Taken(config[j], e)) \/ (s \in DOMAIN board /\ AsWritten(e, board[s]))
  BY <1>2 DEF Applied, OnBoard
<1>4. CASE \E j \in i + 1 .. Len(config) : Taken(config[j], e)
  <2>1. \A d : SlotOf(Handle(d))[1] = BoardClass(ClassOf[d.type])
    BY DEF SlotOf, Handle, BoardClass
  <2> QED
    BY <1>4, <2>1 DEF Taken
<1>5. CASE s \in DOMAIN board /\ AsWritten(e, board[s])
  BY <1>5 DEF AsWritten, Sources, Targets
<1> QED
  BY <1>3, <1>4, <1>5

(* configure_all: what is on the board when it returns is what the file says. *)
THEOREM FilesAreApplied == Spec => []AppliedAsWritten
<1>1. Init => HostInv /\ RunInv
  BY HostStarts, RunStarts
<1>2. HostInv /\ RunInv /\ [Next]_vars => (HostInv /\ RunInv)'
  BY HostSteps, RunSteps
<1> QED
  BY <1>1, <1>2, RunReturned, PTL DEF Spec

(* configure_all: a quiet file is applied, but for a lost answer. *)
THEOREM QuietFilesAreApplied == Spec => []QuietConfigApplies
<1>1. Init => HostInv /\ RunInv
  BY HostStarts, RunStarts
<1>2. HostInv /\ RunInv /\ [Next]_vars => (HostInv /\ RunInv)'
  BY HostSteps, RunSteps
<1>3. RunInv => QuietConfigApplies
  BY DEF RunInv
<1> QED
  BY <1>1, <1>2, <1>3, PTL DEF Spec

(* So does every step of the bridge. *)
LEMMA BridgeRunSteps ==
  HostInv /\ RunInv /\ [BridgeNext]_<<vars, bridgeVars>> => RunInv'
<1> SUFFICES ASSUME HostInv, RunInv, [BridgeNext]_<<vars, bridgeVars>> PROVE RunInv'
  OBVIOUS
<1>1. SlotsInv /\ FilesInv
  BY DEF HostInv, BoardInv
<1>2. ASSUME OnlyValues, UNCHANGED <<configVars, ref>>
      PROVE  RunInv'
  BY <1>2, RunRests DEF OnlyValues, configVars
<1>3. ASSUME UNCHANGED vars
      PROVE  RunInv'
  BY <1>2, <1>3 DEF vars, handleVars, OnlyValues
<1>4. ASSUME NEW c, NEW refused, Command(c, refused, board), UNCHANGED <<configVars, ref>>
      PROVE  RunInv'
  BY <1>1, <1>2, <1>4, ValuesAsked
<1>5. CASE Configures
  BY <1>1, <1>5, RunBegins, EntryApplies, EntryFails DEF Configures
<1>6. CASE Spins
  <2>1. PICK c : Command(c, FALSE, board)
    BY <1>6 DEF Spins
  <2> QED
    BY <1>4, <1>6, <2>1 DEF Spins, handleVars
<1>7. CASE HeartbeatDies \/ Watchdog
  <2>1. OnlyValues /\ UNCHANGED <<configVars, ref>>
    BY <1>7 DEF HeartbeatDies, Watchdog, OnlyValues, handleVars
  <2> QED
    BY <1>2, <2>1
<1>8. CASE Service
  <2>1. ASSUME NEW h \in DOMAIN ref, HandleService(h)
        PROVE  RunInv'
    <3>1. CASE (\E v \in Values : write(h, v)) \/ reset(h)
      BY <1>1, <1>2, <3>1, HandleCallsRest
    <3>2. CASE /\ Command([op |-> "read"], SlotOf(h) \notin DOMAIN board, board)
               /\ UNCHANGED <<configVars, handleVars, stopped, edges, historyVars>>
      <4>1. PICK c, refused : Command(c, refused, board)
        BY <3>2
      <4> QED
        BY <1>4, <3>2, <4>1 DEF handleVars
    <3> QED
      BY <2>1, <3>1, <3>2 DEF HandleService
  <2>2. CASE EmergencyStopService
    <3>1. PICK active \in BOOLEAN : emergency_stop(active)
      BY <2>2 DEF EmergencyStopService
    <3>2. PICK c, refused : Command(c, refused, board)
      BY <3>1 DEF emergency_stop
    <3> QED
      BY <1>4, <3>1, <3>2 DEF emergency_stop, handleVars
  <2>3. ASSUME NEW n \in Names, subscribe(n)
        PROVE  RunInv'
    <3>1. PICK c, refused : Command(c, refused, board)
      BY <2>3 DEF subscribe
    <3> QED
      BY <1>4, <2>3, <3>1 DEF subscribe, handleVars
  <2> QED
    BY <1>8, <2>1, <2>2, <2>3 DEF Service
<1>9. CASE StartsHeartbeat \/ Ends
  BY <1>3, <1>9 DEF StartsHeartbeat, Ends
<1>10. CASE _poll
  BY <1>3, <1>10 DEF _poll, PollStarts, PollHasRead, Publish, LoopEnds
<1>11. CASE \E t \in Topics : Receive(t)
  BY <1>3, <1>11 DEF Receive
<1> QED
  BY <1>3, <1>5, <1>6, <1>7, <1>8, <1>9, <1>10, <1>11 DEF BridgeNext

(* Under the bridge too the file is applied, and a quiet one is not refused. *)
THEOREM BridgeAppliesItsFile == BridgeSpec => [](AppliedAsWritten /\ QuietConfigApplies)
<1>1. BridgeInit => RunInv
  BY RunStarts DEF BridgeInit
<1>2. BridgeInv => HostInv
  BY DEF BridgeInv
<1>3. HostInv /\ RunInv => AppliedAsWritten /\ QuietConfigApplies
  BY RunReturned DEF RunInv
<1> QED
  BY <1>1, <1>2, <1>3, BridgeStarts, BridgeSteps, BridgeRunSteps, PTL DEF BridgeSpec

-----------------------------------------------------------------------------
(* The types of the host.  On top of what the properties need, every number a
   handle refers to and every value on the board is a natural, and a DAC has one
   of the resolutions there are. *)
TypesInv ==
  /\ TypeOK
  /\ validate_config(config)
  /\ \A s \in DOMAIN board : s[1] = "dac" => board[s].holds.bits \in Resolutions

(* The highest value of a DAC is a natural. *)
LEMMA HighestValue ==
  ASSUME NEW n \in Nat
  PROVE  MaxValue(n) \in Nat
<1> DEFINE S == 1 .. n
           k == Cardinality(SUBSET S)
<1>1. IsFiniteSet(S) /\ Cardinality(S) = n
  BY FS_Interval
<1>2. IsFiniteSet(SUBSET S) /\ k = 2^n
  BY <1>1, FS_SUBSET
<1>3. SUBSET S # {}
  OBVIOUS
<1>4. k \in Nat /\ k # 0
  BY <1>2, <1>3, FS_CardinalityType, FS_EmptySet
<1> HIDE DEF k
<1>5. k - 1 \in Nat
  BY <1>4
<1> QED
  BY <1>2, <1>5 DEF MaxValue

(* What a write puts on the board is a natural. *)
LEMMA ValueWritten ==
  ASSUME NEW v \in Values
  PROVE  v \in Nat /\ \A n \in Nat : Min({v, MaxValue(n)}) \in Nat
<1>1. \A r \in Nat : MaxValue(r) \in Nat
  BY HighestValue
<1>2. v \in Nat
  BY <1>1, HostAssumption DEF Values
<1>3. ASSUME NEW m \in Nat
      PROVE  Min({v, m}) \in Nat
  <2>1. \E x \in {v, m} : \A y \in {v, m} : x <= y
    BY <1>2
  <2>2. Min({v, m}) \in {v, m}
    BY <2>1 DEF Min
  <2> QED
    BY <1>2, <2>2
<1> QED
  BY <1>1, <1>2, <1>3

(* The number that configuring gives a handle is a natural. *)
LEMMA PlanNumber ==
  ASSUME HandlesInv, NEW e \in FileEntry, PlanOf(e).error # "first",
         e.type \in {"counter", "dac"} \/ e.at \in Int
  PROVE  PlanOf(e).number \in Nat
<1>1. /\ e.type \in Types /\ e.name \in Names
      /\ e.at \in Pins \cup Names \cup {0, 1, Junk}
  BY DEF FileEntry
<1>2. \A class \in Numbering : IdOf(class, e.name) \in Nat
  BY <1>1, IdOfName
<1>3. e.at \in Int => e.at \in Nat
  BY <1>1, HostAssumption
<1>4. CASE e.type \in {"digital_output", "input", "pwm"}
  BY <1>3, <1>4 DEF PlanOf, ConfigureGpio, Plan, ClassOf
<1>5. CASE e.type = "analog"
  BY <1>3, <1>5 DEF PlanOf, ConfigureAnalog, Plan, ClassOf
<1>6. CASE e.type = "counter"
  BY <1>2, <1>6 DEF PlanOf, AttachCounter, Plan, ClassOf, Numbering
<1>7. CASE e.type = "encoder"
  BY <1>2, <1>7 DEF PlanOf, AttachEncoder, Plan, ClassOf, Numbering
<1>8. CASE e.type = "i2c_bus"
  BY <1>3, <1>8 DEF PlanOf, ConfigureBus, Plan, ClassOf
<1>9. CASE e.type = "dac"
  BY <1>2, <1>9 DEF PlanOf, AttachDac, Plan, ClassOf, Numbering
<1> QED
  BY <1>1, <1>4, <1>5, <1>6, <1>7, <1>8, <1>9 DEF Types

(* The part of the types that calls and answers disturb. *)
ValuesOK ==
  /\ \A s \in DOMAIN board :
       /\ board[s].value \in Nat
       /\ s[1] = "dac" => board[s].holds.bits \in Resolutions
  /\ result \in Results /\ timeouts \in 0 .. MaxTimeouts

(* A command ends in one of the four ways. *)
LEMMA CommandResult ==
  ASSUME timeouts \in 0 .. MaxTimeouts, NEW c, NEW refused, NEW after, Command(c, refused, after)
  PROVE  result' \in Results /\ timeouts' \in 0 .. MaxTimeouts
BY HostAssumption DEF Command, Results

(* A command that puts such values on the board keeps them. *)
LEMMA CommandTypes ==
  ASSUME ValuesOK, NEW c, NEW refused, NEW after, Command(c, refused, after),
         \A s \in DOMAIN after :
           /\ after[s].value \in Nat
           /\ s[1] = "dac" => after[s].holds.bits \in Resolutions
  PROVE  ValuesOK'
<1>1. result' \in Results /\ timeouts' \in 0 .. MaxTimeouts
  BY CommandResult DEF ValuesOK
<1>2. board' = board \/ board' = after
  BY CommandEnds
<1> QED
  BY <1>1, <1>2 DEF ValuesOK

(* So does one that puts nothing there. *)
LEMMA AskTypes ==
  ASSUME ValuesOK, NEW c, NEW refused, Command(c, refused, board)
  PROVE  ValuesOK'
BY CommandTypes DEF ValuesOK

(* And one that raises. *)
LEMMA RaiseTypes ==
  ASSUME ValuesOK, NEW c, Raise(c)
  PROVE  ValuesOK'
BY DEF ValuesOK, Raise, Results

(* A new value in a slot. *)
LEMMA RevaluedTypes ==
  ASSUME ValuesOK, SlotsInv, NEW s \in DOMAIN board, NEW v \in Nat
  PROVE  LET b == [board EXCEPT ![s].value = v]
         IN \A z \in DOMAIN b :
              /\ b[z].value \in Nat
              /\ z[1] = "dac" => b[z].holds.bits \in Resolutions
<1> DEFINE b == [board EXCEPT ![s].value = v]
<1>1. /\ DOMAIN b = DOMAIN board
      /\ b[s] = [by |-> board[s].by, holds |-> board[s].holds, value |-> v]
      /\ \A z \in DOMAIN board : z # s => b[z] = board[z]
  BY Revalued
<1> HIDE DEF b
<1>2. ASSUME NEW z \in DOMAIN b
      PROVE  b[z].value \in Nat /\ (z[1] = "dac" => b[z].holds.bits \in Resolutions)
  <2>1. CASE z = s
    <3>1. b[z].value = v /\ b[z].holds = board[s].holds
      BY <1>1, <2>1
    <3> QED
      BY <2>1, <3>1 DEF ValuesOK
  <2>2. CASE z # s
    BY <1>1, <2>2 DEF ValuesOK
  <2> QED
    BY <2>1, <2>2
<1> QED
  BY <1>2 DEF b

(* A call that configures keeps the types. *)
LEMMA ConfigureTypes ==
  ASSUME HandlesInv, SlotsInv, TypesInv, NEW e \in FileEntry, Configure(e),
         e.type \in {"counter", "dac"} \/ e.at \in Int
  PROVE  /\ ValuesOK'
         /\ \A h \in DOMAIN ref' : ref'[h] \in Nat
         /\ bits' \in [Names -> {12} \cup Resolutions]
         /\ config' = config
<1> DEFINE p == PlanOf(e)
           h == Handle(e)
           c == [op |-> "configure", handle |-> h]
           refused == (e.high /\ stopped)
                        \/ (e.type = "dac" /\ <<"bus", p.holds.holds.bus>> \notin DOMAIN board)
           after == With(board, p.slot, p.holds)
<1>1. /\ h \in Handles
      /\ p.slot = <<IF h[1] \in {"pin", "pwm"} THEN "gpio" ELSE h[1], p.number>>
      /\ p.holds = [by |-> h, holds |-> p.holds.holds, value |-> IF e.high THEN 1 ELSE 0]
      /\ h[1] = "dac" <=> e.type = "dac"
      /\ h[1] = "dac" => p.holds.holds.bits = e.bits
  BY PlanFacts
<1>2. /\ e.type = "dac" => e.bits \in Resolutions
      /\ h[2] \in Names
  BY <1>1 DEF FileEntry, Handles
<1>3. p.error # "first" => p.number \in Nat
  BY PlanNumber
<1>4. ValuesOK
  BY DEF TypesInv, TypeOK, ValuesOK
<1>5. /\ IF p.error = "none" THEN Command(c, refused, after) ELSE Raise(c)
      /\ ref' = IF p.error = "first" THEN ref ELSE With(ref, h, p.number)
      /\ bits' = IF p.error = "none" /\ e.type = "dac" THEN [bits EXCEPT ![h[2]] = e.bits] ELSE bits
      /\ config' = config
  BY DEF Configure
<1>6. /\ p.holds.value \in Nat
      /\ p.slot[1] = "dac" => p.holds.holds.bits \in Resolutions
  BY <1>1, <1>2
<1>7. after = With(board, p.slot, p.holds)
  OBVIOUS
<1> HIDE DEF p, c, refused, after, h
<1>8. \A s \in DOMAIN after :
        /\ after[s].value \in Nat
        /\ s[1] = "dac" => after[s].holds.bits \in Resolutions
  <2>1. /\ DOMAIN after = DOMAIN board \cup {p.slot}
        /\ \A s \in DOMAIN after : after[s] = IF s = p.slot THEN p.holds ELSE board[s]
    BY <1>7 DEF With
  <2> QED
    BY <1>4, <1>6, <2>1 DEF ValuesOK
<1>9. ValuesOK'
  <2>1. CASE p.error = "none"
    BY <1>4, <1>5, <1>8, <2>1, CommandTypes
  <2>2. CASE p.error # "none"
    BY <1>4, <1>5, <2>2, RaiseTypes
  <2> QED
    BY <2>1, <2>2
<1>10. \A g \in DOMAIN ref' : ref'[g] \in Nat
  <2>1. \A g \in DOMAIN ref : ref[g] \in Nat
    BY DEF TypesInv, TypeOK
  <2>2. CASE p.error = "first"
    BY <1>5, <2>1, <2>2
  <2>3. CASE p.error # "first"
    <3>1. /\ DOMAIN ref' = DOMAIN ref \cup {h}
          /\ \A g \in DOMAIN ref' : ref'[g] = IF g = h THEN p.number ELSE ref[g]
      BY <1>5, <2>3 DEF With
    <3> QED
      BY <1>3, <2>1, <2>3, <3>1
  <2> QED
    BY <2>2, <2>3
<1>11. bits' \in [Names -> {12} \cup Resolutions]
  BY <1>2, <1>5 DEF TypesInv, TypeOK
<1> QED
  BY <1>5, <1>9, <1>10, <1>11

(* The handles with an identifier have their own. *)
LEMMA HandleTypes ==
  ASSUME HandlesInv
  PROVE  /\ \A h \in DOMAIN ref : h[2] \in Names
         /\ \A class \in DOMAIN ids : IsInjective(ids[class]) /\ Range(ids[class]) \subseteq Names
<1>1. \A h \in DOMAIN ref : h[2] \in Names
  BY DEF HandlesInv, Handles
<1>2. ASSUME NEW class \in DOMAIN ids
      PROVE  IsInjective(ids[class]) /\ Range(ids[class]) \subseteq Names
  <2>1. ids[class] \in Seq(Names) /\ class \in Numbering
    BY DEF HandlesInv
  <2>2. IsInjective(ids[class])
    BY <2>1 DEF HandlesInv, IsInjective
  <2> QED
    BY <2>1, <2>2 DEF Range
<1> QED
  BY <1>1, <1>2

(* A step that leaves the file, the handles' numbers and the resolutions alone. *)
LEMMA TypesRest ==
  ASSUME TypesInv, HandlesInv', ValuesOK', UNCHANGED <<config, ref, bits>>,
         Range(todo') \subseteq Range(config),
         configured' \in {"no", "running", "returned"} \cup Results
  PROVE  TypesInv'
<1>1. /\ \A h \in DOMAIN ref' : h[2] \in Names
      /\ \A class \in DOMAIN ids' : IsInjective(ids'[class]) /\ Range(ids'[class]) \subseteq Names
  <2>1. (HandlesInv => /\ \A h \in DOMAIN ref : h[2] \in Names
                       /\ \A class \in DOMAIN ids : IsInjective(ids[class]) /\ Range(ids[class]) \subseteq Names)'
    BY HandleTypes, PTL
  <2> QED
    BY <2>1
<1>2. validate_config(config)'
  BY DEF TypesInv, validate_config
<1> QED
  BY <1>1, <1>2 DEF TypesInv, TypeOK, ValuesOK

(* The same of a step that configures a handle. *)
LEMMA TypesConfigured ==
  ASSUME TypesInv, HandlesInv', ValuesOK', UNCHANGED config,
         \A h \in DOMAIN ref' : ref'[h] \in Nat,
         bits' \in [Names -> {12} \cup Resolutions],
         Range(todo') \subseteq Range(config),
         configured' \in {"no", "running", "returned"} \cup Results
  PROVE  TypesInv'
<1>1. /\ \A h \in DOMAIN ref' : h[2] \in Names
      /\ \A class \in DOMAIN ids' : IsInjective(ids'[class]) /\ Range(ids'[class]) \subseteq Names
  <2>1. (HandlesInv => /\ \A h \in DOMAIN ref : h[2] \in Names
                       /\ \A class \in DOMAIN ids : IsInjective(ids[class]) /\ Range(ids[class]) \subseteq Names)'
    BY HandleTypes, PTL
  <2> QED
    BY <2>1
<1>2. validate_config(config)'
  BY DEF TypesInv, validate_config
<1> QED
  BY <1>1, <1>2 DEF TypesInv, TypeOK, ValuesOK

(* A file that validates attaches nothing but counters and DACs to names. *)
LEMMA EntryValid ==
  ASSUME validate_config(config), NEW e \in Range(config)
  PROVE  e.type \in {"counter", "dac"} \/ e.at \in Int
BY DEF validate_config

(* configure_all keeps the types. *)
LEMMA NextEntryTypes ==
  ASSUME HostInv, HostInv', TypesInv, ConfigureNext
  PROVE  TypesInv'
<1> DEFINE e == Head(todo)
<1>1. /\ todo \in Seq(FileEntry) /\ todo # <<>> /\ HandlesInv /\ SlotsInv /\ HandlesInv'
      /\ Range(todo) \subseteq Range(config) /\ validate_config(config)
  BY DEF HostInv, FilesInv, BoardInv, ConfigureNext, TypesInv, TypeOK
<1>2. /\ e \in FileEntry /\ e = todo[1] /\ 1 \in DOMAIN todo
      /\ \A i \in DOMAIN Tail(todo) : i + 1 \in DOMAIN todo /\ Tail(todo)[i] = todo[i + 1]
  BY <1>1
<1>3. e \in Range(config) /\ Range(Tail(todo)) \subseteq Range(config)
  BY <1>1, <1>2 DEF Range
<1>4. Configure(e)
  BY DEF ConfigureNext
<1>5. e.type \in {"counter", "dac"} \/ e.at \in Int
  BY <1>1, <1>3, EntryValid
<1> HIDE DEF e
<1>6. /\ ValuesOK' /\ config' = config
      /\ \A h \in DOMAIN ref' : ref'[h] \in Nat
      /\ bits' \in [Names -> {12} \cup Resolutions]
  BY <1>1, <1>2, <1>4, <1>5, ConfigureTypes
<1>7. Range(todo') \subseteq Range(config)
  <2>1. Range(<<>>) = {}
    BY DEF Range
  <2> QED
    BY <1>3, <2>1 DEF ConfigureNext
<1>8. configured' \in {"no", "running", "returned"} \cup Results
  BY <1>6 DEF ConfigureNext, ValuesOK
<1> QED
  BY <1>1, <1>6, <1>7, <1>8, TypesConfigured

(* Calls on handles keep the values. *)
LEMMA HandleCallTypes ==
  ASSUME HandlesInv, SlotsInv, ValuesOK, NEW h \in DOMAIN ref,
         delta(h) \/ reset(h) \/ (\E v \in Values : write(h, v))
  PROVE  ValuesOK' /\ UNCHANGED <<configVars, ref, bits>>
<1> DEFINE s == SlotOf(h)
           known == s \in DOMAIN board
<1>1. CASE delta(h)
  <2>1. PICK c : Command(c, ~known, board)
    BY <1>1 DEF delta
  <2> HIDE DEF known
  <2> QED
    BY <1>1, <2>1, AskTypes DEF delta
<1>2. CASE reset(h)
  <2> DEFINE after == IF known THEN [board EXCEPT ![s].value = 0] ELSE board
             c == [op |-> "reset"]
  <2>1. Command(c, ~known, after)
    BY <1>2 DEF reset
  <2>2. 0 \in Nat
    OBVIOUS
  <2> HIDE DEF c, s
  <2>3. \A z \in DOMAIN after :
          /\ after[z].value \in Nat
          /\ z[1] = "dac" => after[z].holds.bits \in Resolutions
    BY <2>2, RevaluedTypes DEF ValuesOK
  <2> HIDE DEF after, known
  <2>4. ValuesOK'
    BY <2>1, <2>3, CommandTypes
  <2> QED
    BY <1>2, <2>4 DEF reset
<1>3. CASE \E v \in Values : write(h, v)
  <2>1. PICK v \in Values : write(h, v)
    BY <1>3
  <2> DEFINE clamped == IF h[1] = "dac" THEN Min({v, MaxValue(board[s].holds.bits)}) ELSE v
             after == IF known THEN [board EXCEPT ![s].value = clamped] ELSE board
             refused == \/ stopped
                        \/ h[1] = "pwm" /\ ~(known /\ board[s].holds = "pwm")
                        \/ h[1] = "dac" /\ ~known
             c == [op |-> "write", handle |-> h, value |-> v]
             InR == InRange(h, v)
  <2>2. /\ IF InR THEN Command(c, refused, after) ELSE Raise(c)
        /\ UNCHANGED <<configVars, ref, bits>>
    BY <2>1 DEF write, handleVars
  <2>3. known => clamped \in Nat
    <3>1. h[1] = "dac" => s[1] = "dac"
      BY DEF SlotOf
    <3>2. v \in Nat /\ \A n \in Nat : Min({v, MaxValue(n)}) \in Nat
      BY ValueWritten
    <3>3. known /\ h[1] = "dac" => board[s].holds.bits \in Nat
      BY <3>1, HostAssumption DEF ValuesOK
    <3> QED
      BY <3>2, <3>3
  <2> HIDE DEF c, s, clamped, refused, InR
  <2>4. \A z \in DOMAIN after :
          /\ after[z].value \in Nat
          /\ z[1] = "dac" => after[z].holds.bits \in Resolutions
    BY <2>3, RevaluedTypes DEF ValuesOK
  <2> HIDE DEF after, known
  <2>5. ValuesOK'
    BY <2>2, <2>4, CommandTypes, RaiseTypes
  <2> QED
    BY <2>2, <2>5
<1> QED
  BY <1>1, <1>2, <1>3

(* The files that there can be validate. *)
LEMMA TypesStart ==
  ASSUME Init
  PROVE  TypesInv
<1>1. DOMAIN <<>> = {}
  OBVIOUS
<1>2. DOMAIN ref = {} /\ DOMAIN board = {} /\ todo = <<>>
  BY <1>1 DEF Init
<1>3. HandlesInv
  BY HostStarts DEF HostInv, BoardInv
<1>4. validate_config(config)
  BY DEF Init
<1>5. Range(todo) \subseteq Range(config)
  BY <1>1, <1>2 DEF Range
<1>6. 0 \in 0 .. MaxTimeouts
  BY HostAssumption
<1> QED
  BY <1>2, <1>3, <1>4, <1>5, <1>6, HandleTypes DEF Init, TypesInv, TypeOK, Results

(* The calls of a script or of a service keep the types. *)
LEMMA CallTypes ==
  ASSUME HostInv, HostInv', TypesInv
  PROVE  /\ ConfigureAll => TypesInv'
         /\ reset_config => TypesInv'
         /\ \A active : emergency_stop(active) => TypesInv'
         /\ \A e \in I2cEntries : e.type = "dac" /\ AttachAgain(e) => TypesInv'
         /\ \A h \in DOMAIN ref : delta(h) \/ reset(h) \/ (\E v \in Values : write(h, v)) => TypesInv'
         /\ \A c, refused : Command(c, refused, board) /\ UNCHANGED <<configVars, handleVars>> => TypesInv'
<1>1. HandlesInv /\ SlotsInv /\ HandlesInv'
  BY DEF HostInv, BoardInv
<1>2. /\ ValuesOK /\ Range(todo) \subseteq Range(config)
      /\ configured \in {"no", "running", "returned"} \cup Results
  BY DEF TypesInv, TypeOK, ValuesOK
<1>3. ASSUME ValuesOK', UNCHANGED <<configVars, ref, bits>>
      PROVE  TypesInv'
  BY <1>1, <1>2, <1>3, TypesRest DEF configVars
<1>4. ASSUME ConfigureAll
      PROVE  TypesInv'
  <2>1. /\ UNCHANGED <<config, ref, bits, board, result, timeouts>> /\ todo' = config
        /\ configured' \in {"returned", "running"}
    BY <1>4 DEF ConfigureAll, handleVars, callVars
  <2>2. ValuesOK'
    BY <1>2, <2>1 DEF ValuesOK
  <2> QED
    BY <1>1, <2>1, <2>2, TypesRest
<1>5. ASSUME reset_config
      PROVE  TypesInv'
  <2> DEFINE after == <<>>
  <2>1. PICK c : Command(c, FALSE, after)
    BY <1>5 DEF reset_config
  <2>2. DOMAIN after = {}
    OBVIOUS
  <2> HIDE DEF after
  <2>3. ValuesOK'
    BY <1>2, <2>1, <2>2, CommandTypes
  <2>4. UNCHANGED <<config, ref, bits, todo>> /\ configured' = "no"
    BY <1>5 DEF reset_config, handleVars
  <2> QED
    BY <1>1, <1>2, <2>3, <2>4, TypesRest
<1>6. ASSUME NEW active, emergency_stop(active)
      PROVE  TypesInv'
  <2>1. PICK c : Command(c, FALSE, board)
    BY <1>6 DEF emergency_stop
  <2>2. ValuesOK'
    BY <1>2, <2>1, AskTypes
  <2> QED
    BY <1>3, <1>6, <2>2 DEF emergency_stop, handleVars
<1>7. ASSUME NEW e \in I2cEntries, e.type = "dac", AttachAgain(e)
      PROVE  TypesInv'
  <2>1. e \in FileEntry /\ Configure(e) /\ todo' = todo /\ configured' = "no"
    BY <1>7, EntriesFit DEF AttachAgain
  <2>2. /\ ValuesOK' /\ config' = config
        /\ \A h \in DOMAIN ref' : ref'[h] \in Nat
        /\ bits' \in [Names -> {12} \cup Resolutions]
    BY <1>1, <1>7, <2>1, ConfigureTypes
  <2> QED
    BY <1>1, <1>2, <2>1, <2>2, TypesConfigured
<1>8. ASSUME NEW h \in DOMAIN ref, delta(h) \/ reset(h) \/ (\E v \in Values : write(h, v))
      PROVE  TypesInv'
  BY <1>1, <1>2, <1>3, <1>8, HandleCallTypes
<1>9. ASSUME NEW c, NEW refused, Command(c, refused, board), UNCHANGED <<configVars, handleVars>>
      PROVE  TypesInv'
  <2>1. ValuesOK'
    BY <1>2, <1>9, AskTypes
  <2> QED
    BY <1>3, <1>9, <2>1 DEF handleVars
<1> QED
  BY <1>4, <1>5, <1>6, <1>7, <1>8, <1>9

(* What changes nothing of it. *)
LEMMA TypesUnchanged ==
  ASSUME HostInv', TypesInv, UNCHANGED <<configVars, ref, bits, board, result>>,
         timeouts' \in 0 .. MaxTimeouts
  PROVE  TypesInv'
<1>1. HandlesInv'
  BY DEF HostInv, BoardInv
<1>2. ValuesOK'
  BY DEF TypesInv, TypeOK, ValuesOK
<1>3. /\ UNCHANGED <<config, ref, bits>> /\ Range(todo') \subseteq Range(config)
      /\ configured' \in {"no", "running", "returned"} \cup Results
  BY DEF TypesInv, TypeOK, configVars
<1> QED
  BY <1>1, <1>2, <1>3, TypesRest

(* Every step of the host keeps the types. *)
LEMMA TypesStep ==
  HostInv /\ HostInv' /\ TypesInv /\ [Next]_vars => TypesInv'
<1> SUFFICES ASSUME HostInv, HostInv', TypesInv, [Next]_vars
             PROVE  TypesInv'
  OBVIOUS
<1>1. CASE Call
  <2>1. \A e \in {d \in I2cEntries : d.type = "dac" /\ Handle(d) \in DOMAIN ref} :
          e \in I2cEntries /\ e.type = "dac"
    OBVIOUS
  <2> QED
    BY <1>1, <2>1, CallTypes DEF Call
<1>2. CASE ConfigureNext
  BY <1>2, NextEntryTypes
<1>3. CASE \E s \in DOMAIN board : Edge(s)
  <2>1. PICK s \in DOMAIN board : Edge(s)
    BY <1>3
  <2> DEFINE n == (board[s].value + 1) % CountMod
             after == [board EXCEPT ![s].value = n]
  <2>2. ValuesOK /\ SlotsInv /\ HandlesInv' /\ board[s].value \in Nat
    BY DEF TypesInv, TypeOK, ValuesOK, HostInv, BoardInv
  <2>3. n \in Nat
    BY <2>2, HostAssumption
  <2>4. /\ board' = after
        /\ UNCHANGED <<config, todo, configured, ref, bits, result, timeouts>>
    BY <2>1 DEF Edge, configVars, handleVars, callVars
  <2> HIDE DEF n
  <2>5. \A z \in DOMAIN after :
          /\ after[z].value \in Nat
          /\ z[1] = "dac" => after[z].holds.bits \in Resolutions
    BY <2>2, <2>3, RevaluedTypes
  <2> HIDE DEF after
  <2>6. ValuesOK'
    BY <2>2, <2>4, <2>5 DEF ValuesOK
  <2>7. /\ Range(todo') \subseteq Range(config)
        /\ configured' \in {"no", "running", "returned"} \cup Results
    BY <2>4 DEF TypesInv, TypeOK
  <2> QED
    BY <2>2, <2>4, <2>6, <2>7, TypesRest
<1>4. CASE UNCHANGED vars
  <2>1. timeouts' \in 0 .. MaxTimeouts
    BY <1>4 DEF vars, TypesInv, TypeOK
  <2> QED
    BY <1>4, <2>1, TypesUnchanged DEF vars, configVars, handleVars, callVars
<1> QED
  BY <1>1, <1>2, <1>3, <1>4 DEF Next

(* The host keeps its types: identifiers are shared by no names, and every
   number and value is one. *)
THEOREM HostTypes == Spec => []TypeOK
<1>1. TypesInv => TypeOK
  BY DEF TypesInv
<1> QED
  BY <1>1, HostStarts, HostSteps, TypesStart, TypesStep, PTL DEF Spec

-----------------------------------------------------------------------------
(* The types of the bridge, with those of its counters spelled out. *)
BridgeTypesInv == BridgeTypeOK /\ published \in [Topics -> Nat]

SlotClasses == {"gpio", "analog", "counter", "encoder", "dac"}

(* A resource is one of a class that can be subscribed to. *)
LEMMA ResourceSlot ==
  ASSUME TypeOK, NEW n, HasResource(n)
  PROVE  _resource_ref(n) \in SlotClasses \X Nat
<1> DEFINE D == {j \in 1 .. 5 : HasRef(<<ResourceClasses[j], n>>)}
           m == Min(D)
           class == ResourceClasses[m]
<1>1. DOMAIN ResourceClasses = 1 .. 5
  BY DEF ResourceClasses
<1>2. D # {} /\ D \in SUBSET Nat
  BY <1>1 DEF HasResource
<1>3. _resource_ref(n) = SlotOf(<<ResourceClasses[m], n>>)
  BY <1>1 DEF _resource_ref
<1>4. D \subseteq 1 .. 5 /\ \A j \in D : HasRef(<<ResourceClasses[j], n>>)
  OBVIOUS
<1> HIDE DEF D
<1>5. m \in D
  <2>1. PICK x \in D : \A k \in D : x <= k
    BY <1>2, LeastElement
  <2>2. Min(D) = CHOOSE y \in D : \A k \in D : y <= k
    BY DEF Min
  <2> QED
    BY <2>1, <2>2
<1> HIDE DEF m
<1>6. class \in {"pin", "analog", "counter", "encoder", "dac"} /\ <<class, n>> \in DOMAIN ref
  BY <1>4, <1>5 DEF ResourceClasses, HasRef
<1> HIDE DEF class
<1>7. ref[<<class, n>>] \in Nat
  BY <1>6 DEF TypeOK
<1>8. SlotOf(<<class, n>>) = <<IF class \in {"pin", "pwm"} THEN "gpio" ELSE class, ref[<<class, n>>]>>
  BY DEF SlotOf
<1> QED
  BY <1>3, <1>6, <1>7, <1>8 DEF class, SlotClasses

(* At first. *)
LEMMA BridgeTypesStart ==
  ASSUME BridgeInit
  PROVE  BridgeTypesInv
<1>1. Len(<<>>) = 0 /\ 0 \in Nat /\ 0 <= max_frames /\ 0 <= max_publish_per_poll
  BY BridgeAssumption
<1>2. \A t \in Topics : queue[t] = <<>> /\ published[t] = 0
  BY DEF BridgeInit
<1>3. published \in [Topics -> Nat]
  BY DEF BridgeInit
<1> QED
  BY <1>1, <1>2, <1>3 DEF BridgeInit, BridgeTypesInv, BridgeTypeOK

(* Steps of the host alone. *)
LEMMA BridgeTypesRest ==
  ASSUME BridgeTypesInv, UNCHANGED <<subscribed, queue, published, poll>>,
         phase' \in {"configuring", "info", "spinning", "ended"},
         heartbeat' \in {"off", "running", "dead"},
         response' \in {"none", "ok", "failed"}
  PROVE  BridgeTypesInv'
BY DEF BridgeTypesInv, BridgeTypeOK

(* A service. *)
LEMMA ServiceTypes ==
  ASSUME TypeOK, BridgeTypesInv, Service
  PROVE  BridgeTypesInv'
<1>1. /\ UNCHANGED <<phase, heartbeat, queue, published, poll>>
      /\ response' \in {"ok", "failed"}
  BY DEF Service, Answer, mainVars, queueVars, pollVars
<1>2. subscribed' \subseteq SlotClasses \X Nat
  <2>1. subscribed \subseteq SlotClasses \X Nat
    BY DEF BridgeTypesInv, BridgeTypeOK, SlotClasses
  <2>2. CASE \E n \in Names : subscribe(n)
    <3>1. PICK n \in Names : subscribe(n)
      BY <2>2
    <3>2. HasResource(n) /\ (subscribed' = subscribed \/ subscribed' = subscribed \cup {_resource_ref(n)})
      BY <3>1 DEF subscribe
    <3>3. _resource_ref(n) \in SlotClasses \X Nat
      BY <3>2, ResourceSlot
    <3> QED
      BY <2>1, <3>2, <3>3
  <2>3. CASE (\E h \in DOMAIN ref : HandleService(h)) \/ EmergencyStopService
    BY <2>1, <2>3 DEF HandleService, EmergencyStopService
  <2> QED
    BY <2>2, <2>3 DEF Service
<1> QED
  BY <1>1, <1>2 DEF BridgeTypesInv, BridgeTypeOK, SlotClasses

(* A frame makes no queue longer than its bound. *)
LEMMA ReceiveTypes ==
  ASSUME FramesInv, BridgeTypesInv, NEW t \in Topics, Receive(t)
  PROVE  BridgeTypesInv'
<1> DEFINE q == queue[t]
           k == Kept(t)
           F == [frame : Nat, slot : subscribed]
<1>1. /\ UNCHANGED <<phase, heartbeat, subscribed, published, poll, response>>
      /\ \E f : queue' = [queue EXCEPT ![t] = Append(k, f)]
  BY DEF Receive, mainVars, pollVars
<1>2. PICK f : queue' = [queue EXCEPT ![t] = Append(k, f)]
  BY <1>1
<1>3. queue \in [Topics -> Seq(F)] /\ q \in Seq(F)
  BY DEF FramesInv, FrameTypes
<1>4. Len(q) <= max_frames
  BY DEF BridgeTypesInv, BridgeTypeOK
<1>5. k = IF Len(q) = max_frames THEN Tail(q) ELSE q
  BY DEF Kept
<1> HIDE DEF k, q, F
<1>6. Len(q) \in Nat /\ max_frames \in Nat \ {0}
  BY <1>3, LenProperties, BridgeAssumption
<1>7. k \in Seq(F) /\ Len(k) \in Nat /\ Len(k) + 1 <= max_frames
  <2>1. CASE Len(q) = max_frames
    <3>1. q # <<>>
      BY <1>6, <2>1, EmptySeq
    <3>2. Tail(q) \in Seq(F) /\ Len(Tail(q)) = Len(q) - 1
      BY <1>3, <3>1, HeadTailProperties
    <3> QED
      BY <1>5, <1>6, <2>1, <3>2
  <2>2. CASE Len(q) # max_frames
    BY <1>3, <1>4, <1>5, <1>6, <2>2
  <2> QED
    BY <2>1, <2>2
<1>8. Len(Append(k, f)) = Len(k) + 1
  BY <1>7
<1>9. \A u \in Topics : Len(queue'[u]) <= max_frames
  <2>1. queue'[t] = Append(k, f) /\ \A u \in Topics : u # t => queue'[u] = queue[u]
    BY <1>2, <1>3
  <2> QED
    BY <1>7, <1>8, <2>1 DEF BridgeTypesInv, BridgeTypeOK
<1> QED
  BY <1>1, <1>9 DEF BridgeTypesInv, BridgeTypeOK

(* A frame is published within the budget, and leaves its queue. *)
LEMMA PublishTypes ==
  ASSUME FramesInv, BridgeTypesInv, NEW t \in Topics, Publish(t)
  PROVE  BridgeTypesInv'
<1> DEFINE F == [frame : Nat, slot : subscribed]
           q == queue[t]
<1>1. /\ UNCHANGED <<phase, heartbeat, subscribed, poll, response>>
      /\ published[t] < max_publish_per_poll /\ q # <<>>
      /\ queue' = [queue EXCEPT ![t] = Tail(q)]
      /\ published' = [published EXCEPT ![t] = published[t] + 1]
  BY DEF Publish, MayPublish, mainVars
<1>2. queue \in [Topics -> Seq(F)] /\ q \in Seq(F) /\ published \in [Topics -> Nat]
  BY DEF FramesInv, FrameTypes, BridgeTypesInv
<1>3. Len(q) <= max_frames
  BY DEF BridgeTypesInv, BridgeTypeOK
<1> HIDE DEF F, q
<1>4. Len(Tail(q)) <= max_frames
  <2>1. Len(Tail(q)) = Len(q) - 1 /\ Len(q) \in Nat
    BY <1>1, <1>2, HeadTailProperties, LenProperties
  <2> QED
    BY <1>3, <2>1, BridgeAssumption
<1>5. published[t] + 1 \in Nat /\ published[t] + 1 <= max_publish_per_poll
  BY <1>1, <1>2, BridgeAssumption
<1>6. /\ published' \in [Topics -> Nat]
      /\ \A u \in Topics : Len(queue'[u]) <= max_frames /\ published'[u] <= max_publish_per_poll
  <2>1. /\ queue'[t] = Tail(q) /\ published'[t] = published[t] + 1
        /\ \A u \in Topics : u # t => queue'[u] = queue[u] /\ published'[u] = published[u]
    BY <1>1, <1>2
  <2>2. published' \in [Topics -> Nat]
    BY <1>1, <1>2, <1>5
  <2> QED
    BY <1>4, <1>5, <2>1, <2>2 DEF BridgeTypesInv, BridgeTypeOK
<1> QED
  BY <1>1, <1>6 DEF BridgeTypesInv, BridgeTypeOK

(* Every step of the bridge keeps its types and those of the host. *)
LEMMA BridgeTypesStep ==
  BridgeInv /\ BridgeInv' /\ TypesInv /\ BridgeTypesInv /\ [BridgeNext]_<<vars, bridgeVars>>
    => TypesInv' /\ BridgeTypesInv'
<1> SUFFICES ASSUME BridgeInv, BridgeInv', TypesInv, BridgeTypesInv, [BridgeNext]_<<vars, bridgeVars>>
             PROVE  TypesInv' /\ BridgeTypesInv'
  OBVIOUS
<1>1. HostInv /\ HostInv' /\ FramesInv /\ TypeOK
  BY DEF BridgeInv, TypesInv
<1>2. UNCHANGED vars => TypesInv'
  BY <1>1, TypesStep
<1>3. /\ phase \in {"configuring", "info", "spinning", "ended"}
      /\ heartbeat \in {"off", "running", "dead"} /\ response \in {"none", "ok", "failed"}
  BY DEF BridgeTypesInv, BridgeTypeOK
<1>4. CASE Configures
  <2>1. UNCHANGED <<subscribed, queue, published, poll, heartbeat, response>>
        /\ phase' \in {"configuring", "ended"}
    BY <1>4 DEF Configures, queueVars, pollVars
  <2>2. BridgeTypesInv'
    BY <1>3, <2>1, BridgeTypesRest
  <2> QED
    BY <1>1, <1>4, <2>2, CallTypes, NextEntryTypes DEF Configures
<1>5. CASE StartsHeartbeat \/ Ends
  <2>1. UNCHANGED <<subscribed, queue, published, poll, response>> /\ UNCHANGED vars
        /\ phase' \in {"info", "ended"} /\ heartbeat' \in {"running", "off"}
    BY <1>5 DEF StartsHeartbeat, Ends, queueVars, pollVars
  <2> QED
    BY <1>2, <1>3, <2>1, BridgeTypesRest
<1>6. CASE Spins
  <2>1. UNCHANGED <<subscribed, queue, published, poll, response>>
        /\ phase' \in {"spinning", "ended"} /\ heartbeat' \in {heartbeat, "off"}
    BY <1>6 DEF Spins, queueVars, pollVars
  <2>2. PICK c : Command(c, FALSE, board)
    BY <1>6 DEF Spins
  <2>3. TypesInv'
    BY <1>1, <1>6, <2>2, CallTypes DEF Spins
  <2> QED
    BY <1>3, <2>1, <2>3, BridgeTypesRest
<1>7. CASE HeartbeatDies \/ Watchdog
  <2>1. /\ UNCHANGED <<subscribed, queue, published, poll, response, phase>>
        /\ heartbeat' \in {heartbeat, "dead"}
        /\ UNCHANGED <<configVars, ref, bits, board, result>>
    BY <1>7 DEF HeartbeatDies, Watchdog, queueVars, pollVars, bridgeVars, mainVars, handleVars, callVars
  <2>2. timeouts' \in 0 .. MaxTimeouts
    <3>1. timeouts \in 0 .. MaxTimeouts
      BY <1>1 DEF TypeOK
    <3>2. timeouts' = timeouts \/ (timeouts < MaxTimeouts /\ timeouts' = timeouts + 1)
      BY <1>7 DEF HeartbeatDies, Watchdog
    <3> QED
      BY <3>1, <3>2, HostAssumption
  <2> QED
    BY <1>1, <1>3, <2>1, <2>2, BridgeTypesRest, TypesUnchanged
<1>8. CASE Service
  <2>1. BridgeTypesInv'
    BY <1>1, <1>8, ServiceTypes
  <2>2. \A h \in DOMAIN ref : reset(h) \/ (\E v \in Values : write(h, v)) => TypesInv'
    BY <1>1, CallTypes
  <2>3. ASSUME NEW c, NEW refused, Command(c, refused, board), UNCHANGED <<configVars, handleVars>>
        PROVE  TypesInv'
    BY <1>1, <2>3, CallTypes
  <2>4. \A active : emergency_stop(active) => TypesInv'
    BY <1>1, CallTypes
  <2>5. CASE \E h \in DOMAIN ref : HandleService(h)
    <3>1. PICK h \in DOMAIN ref : HandleService(h)
      BY <2>5
    <3>2. CASE \/ \E v \in Values : write(h, v)
               \/ reset(h)
      BY <2>1, <2>2, <3>2
    <3>3. CASE /\ Command([op |-> "read"], SlotOf(h) \notin DOMAIN board, board)
               /\ UNCHANGED <<configVars, handleVars, stopped, edges, historyVars>>
      <4>1. PICK c, refused : Command(c, refused, board)
        BY <3>3
      <4> QED
        BY <2>1, <2>3, <3>3, <4>1
    <3> QED
      BY <3>1, <3>2, <3>3 DEF HandleService
  <2>6. CASE EmergencyStopService
    BY <2>1, <2>4, <2>6 DEF EmergencyStopService
  <2>7. CASE \E n \in Names : subscribe(n)
    <3>1. PICK n \in Names : subscribe(n)
      BY <2>7
    <3>2. PICK c, refused : Command(c, refused, board)
      BY <3>1 DEF subscribe
    <3> QED
      BY <2>1, <2>3, <3>1, <3>2 DEF subscribe
  <2> QED
    BY <1>8, <2>1, <2>5, <2>6, <2>7 DEF Service
<1>9. CASE PollStarts \/ PollHasRead \/ \E t \in Topics : LoopEnds(t)
  <2>1. /\ UNCHANGED vars /\ UNCHANGED <<subscribed, queue, phase, heartbeat, response>>
        /\ poll' \in {"idle", "reading"} \cup Topics
        /\ \/ published' = published
           \/ published' = [t \in Topics |-> 0]
    BY <1>9 DEF PollStarts, PollHasRead, LoopEnds, AfterLoop, Topics, mainVars, queueVars
  <2>2. /\ published' \in [Topics -> Nat]
        /\ \A t \in Topics : published'[t] <= max_publish_per_poll
    BY <2>1, BridgeAssumption DEF BridgeTypesInv, BridgeTypeOK
  <2> QED
    BY <1>2, <2>1, <2>2 DEF BridgeTypesInv, BridgeTypeOK
<1>10. CASE \E t \in Topics : Publish(t)
  <2>1. UNCHANGED vars
    BY <1>10 DEF Publish
  <2> QED
    BY <1>1, <1>2, <1>10, <2>1, PublishTypes
<1>11. CASE \E t \in Topics : Receive(t)
  <2>1. UNCHANGED vars
    BY <1>11 DEF Receive
  <2> QED
    BY <1>1, <1>2, <1>11, <2>1, ReceiveTypes
<1>12. CASE UNCHANGED <<vars, bridgeVars>>
  <2>1. UNCHANGED vars /\ UNCHANGED <<subscribed, queue, published, poll, response, phase, heartbeat>>
    BY <1>12 DEF bridgeVars, mainVars, queueVars, pollVars
  <2> QED
    BY <1>2, <1>3, <2>1, BridgeTypesRest
<1> QED
  BY <1>4, <1>5, <1>6, <1>7, <1>8, <1>9, <1>10, <1>11, <1>12 DEF BridgeNext, _poll

(* Of the two applications, the bridge keeps all of it, and a script leaves the
   bridge as it was. *)
ApplicationInv ==
  /\ TypesInv /\ BridgeTypesInv
  /\ IF application = "bridge" THEN BridgeInv ELSE HostInv

(* Handles, board, services and polls keep their types and budgets, under a
   script and under the bridge: queues are bounded, and no poll publishes more
   than its budget. *)
THEOREM HostTypesCorrect == MCSpec => []HostTypeOK
<1>1. MCInit => ApplicationInv
  BY TypesStart, BridgeTypesStart, BridgeStarts DEF MCInit, BridgeInit, BridgeInv, ApplicationInv
<1>2. ApplicationInv /\ [MCNext]_<<vars, bridgeVars, application>> => ApplicationInv'
  <2> SUFFICES ASSUME ApplicationInv, [MCNext]_<<vars, bridgeVars, application>>
               PROVE  ApplicationInv'
    OBVIOUS
  <2>1. application' = application
    BY DEF MCNext
  <2>2. CASE application = "bridge"
    <3>1. BridgeInv /\ TypesInv /\ BridgeTypesInv /\ [BridgeNext]_<<vars, bridgeVars>>
      BY <2>2 DEF ApplicationInv, MCNext
    <3> QED
      BY <2>1, <2>2, <3>1, BridgeSteps, BridgeTypesStep DEF ApplicationInv
  <2>3. CASE application # "bridge"
    <3>1. HostInv /\ TypesInv /\ BridgeTypesInv /\ [Next]_vars /\ UNCHANGED bridgeVars
      BY <2>3 DEF ApplicationInv, MCNext
    <3>2. UNCHANGED <<subscribed, queue, published, poll, response, phase, heartbeat>>
      BY <3>1 DEF bridgeVars, mainVars, queueVars, pollVars
    <3>3. BridgeTypesInv'
      BY <3>1, <3>2 DEF BridgeTypesInv, BridgeTypeOK
    <3> QED
      BY <2>1, <2>3, <3>1, <3>3, HostSteps, TypesStep DEF ApplicationInv
  <2> QED
    BY <2>2, <2>3
<1>3. ApplicationInv => HostTypeOK
  BY DEF ApplicationInv, TypesInv, BridgeTypesInv, HostTypeOK
<1> QED
  BY <1>1, <1>2, <1>3, PTL DEF MCSpec

=============================================================================
