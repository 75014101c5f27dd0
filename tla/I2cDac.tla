------------------------------- MODULE I2cDac -------------------------------
(***************************************************************************)
(* The I2C buses and the DACs behind them: i2c_configured_ and dacs_ of    *)
(* the command handler, and what the external devices put out.             *)
(*                                                                         *)
(* A DAC register is WordBits wide and a normalized command is a number of *)
(* 1/Scale parts (16 bits and 10000 on the board): the arithmetic keeps    *)
(* the code's truncation to the word.  A device that answers a transfer    *)
(* stores it; one that does not leaves its outputs alone.                  *)
(***************************************************************************)
EXTENDS Integers

CONSTANTS
  Buses,      \* bus < kMaxI2cBuses
  BusArgs,    \* bus numbers commands carry
  Addresses,  \* device addresses
  Dacs,       \* id < kMaxDacs
  DacArgs,    \* dac ids commands carry
  MaxChannels,
  WordBits,   \* 16: width of a DAC value
  Scale       \* 10000: a normalized value of one

ASSUME DacAssumption ==
  /\ Buses \subseteq BusArgs
  /\ Dacs \subseteq DacArgs
  /\ MaxChannels \in Nat /\ MaxChannels >= 1
  /\ WordBits \in Nat /\ WordBits >= 1
  /\ Scale \in Nat /\ Scale >= 1

(* Arithmetic the provers do not know. *)
ASSUME PowerAssumption ==
  \A r \in 1 .. WordBits : 2^r \in Nat /\ 2 <= 2^r /\ 2^r <= 2^WordBits

VARIABLES
  i2c_configured_,
  dacs_,
  out               \* what each device channel puts out

Words == 0 .. 2^WordBits - 1
Channels == 0 .. MaxChannels - 1
Outputs == Buses \X Addresses \X Channels

NoDac == [active |-> FALSE]

DacSlot == [active : {TRUE}, bus : Buses, address : Addresses,
            channels : 1 .. MaxChannels, resolution_bits : 1 .. WordBits,
            last_value : Words]

DacTypeOK ==
  /\ i2c_configured_ \in [Buses -> BOOLEAN]
  /\ dacs_ \in [Dacs -> DacSlot \cup {NoDac}]
  /\ out \in [Outputs -> Words]

DacInit ==
  /\ i2c_configured_ = [b \in Buses |-> FALSE]
  /\ dacs_ = [d \in Dacs |-> NoDac]
  /\ out = [o \in Outputs |-> 0]

(* max_value in write_dac_raw and DacWriteNormalized. *)
MaxValue(resolution) == 2^resolution - 1

Clamped(value, resolution) ==
  IF value > MaxValue(resolution) THEN MaxValue(resolution) ELSE value

(* DacWriteNormalized: static_cast<uint16_t>(normalized * max_value / 10000). *)
FromNormalized(normalized, resolution) ==
  ((normalized * MaxValue(resolution)) \div Scale) % 2^WordBits

(* What write_dac_raw checks before it touches the bus. *)
DacReachable(id, channel) ==
  /\ id \in Dacs
  /\ dacs_[id].active
  /\ channel < dacs_[id].channels
  /\ i2c_configured_[dacs_[id].bus]

(* The transfer that endTransmission() reports as done. *)
write_dac_raw(id, channel, value) ==
  LET d == dacs_[id]
      v == Clamped(value, d.resolution_bits)
  IN /\ out' = [out EXCEPT ![<<d.bus, d.address, channel>>] = v]
     /\ dacs_' = [dacs_ EXCEPT ![id].last_value = v]

=============================================================================
