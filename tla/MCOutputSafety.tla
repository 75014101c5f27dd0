--------------------------- MODULE MCOutputSafety ---------------------------
(***************************************************************************)
(* OutputSafety for TLC.  Pins and DACs share nothing but the safety       *)
(* flags, so that a behaviour with commands of one kind shows all that one *)
(* with both would: each behaviour picks its kind.  The clock runs with    *)
(* the pins; DAC commands only read the flags, which EmergencyStop sets    *)
(* as well as the watchdog.                                                *)
(***************************************************************************)
EXTENDS OutputSafety

VARIABLE focus   \* the kind of output the commands are for

MCInit == Init /\ focus \in {"pins", "dacs"}

MCNext ==
  /\ \/ SystemCommand
     \/ focus = "pins" /\ PinCommand
     \/ focus = "pins" /\ (Update \/ Tick)
     \/ focus = "dacs" /\ DacCommand
  /\ UNCHANGED focus

MCSpec == MCInit /\ [][MCNext]_<<vars, focus>>

=============================================================================
