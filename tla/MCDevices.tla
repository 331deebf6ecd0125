----------------------------- MODULE MCDevices -----------------------------
(***************************************************************************)
(* The device drivers for TLC.  The modules share no state, so a machine   *)
(* has one kind of controller (part), or the keyboards of input.c alone:   *)
(* the states of the modules add up instead of multiplying.  A driver that *)
(* finds no controller is off.                                             *)
(***************************************************************************)
EXTENDS Ahci, Xhci, Ohci, Input

CONSTANT Parts       \* the kinds of machine to check

VARIABLE part

MCReads == {<<1, 1>>}
MCWrites == {<<0, 2>>, <<1, 2>>}
MCXConfig == << <<"kbd", "hid", "int_in">>, <<"kbd", "other", "int_in">> >>
MCOConfig == << <<"kbd", "hid", "int_in">>, <<"other", "kbd", "int_in">> >>
MCReports == {<<0, 0>>, <<4, 0>>, <<57, 0>>, <<4, 57>>, <<1, 1>>}

Init ==
  /\ part \in Parts
  /\ IF part = "ahci" THEN AhciInit ELSE AhciStart("idle") /\ sig = "none"
  /\ IF part = "xhci" THEN XhciInit ELSE XhciStart("off")
  /\ IF part = "ohci" THEN OhciInit ELSE OhciStart("off")
  /\ InputInit

Next ==
  /\ UNCHANGED part
  /\ \/ part = "ahci" /\ AhciNext /\ UNCHANGED <<xhciVars, ohciVars, inputVars>>
     \/ part = "xhci" /\ XhciNext /\ UNCHANGED <<ahciVars, ohciVars, inputVars>>
     \/ part = "ohci" /\ OhciNext /\ UNCHANGED <<ahciVars, xhciVars, inputVars>>
     \/ part = "input" /\ InputNext /\ UNCHANGED <<ahciVars, xhciVars, ohciVars>>

Spec ==
  /\ Init /\ [][Next]_<<ahciVars, xhciVars, ohciVars, inputVars, part>>
  /\ AhciFairness /\ XhciFairness /\ OhciFairness
=============================================================================
