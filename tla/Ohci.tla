------------------------------- MODULE Ohci -------------------------------
(***************************************************************************)
(* The OHCI driver (hw/usb/ohci.c) for one controller: ohci_init, which    *)
(* enumerates the ports at boot, and ohci_poll, which the USB thread calls *)
(* for ever.  The controller (the actions marked external) works on the    *)
(* one control endpoint the driver points it to and on the interrupt       *)
(* endpoint in the table of the HCCA; it writes the data and the condition *)
(* code of a transfer before it moves the head of the endpoint on.  14 is  *)
(* the condition code of a transfer that is not done, 4 stands for every   *)
(* error.  The loops that wait for a reset to end have no limit; the       *)
(* controller is taken to end it.  Left out: the flags of usb_dev_present, *)
(* failures of usb_alloc_dev and vfs_alloc_node, the interrupt handler     *)
(* isr_ohci, which only logs.                                              *)
(***************************************************************************)
EXTENDS Integers, Sequences, FiniteSets, FiniteSetsExt

CONSTANTS OPorts,        \* number of ports
          OConfig,       \* OConfig[p]: the configuration descriptor of the device on port p
          OReports,      \* bound: reports the keyboards send
          OFaults        \* bound: transfers that fail or are not done in time

ASSUME OhciAssumption == {OPorts, OReports} \subseteq Nat \ {0} /\ OFaults \in Nat

OPort == 1..OPorts

VARIABLES
  opc, oport, addr_counter,     \* where ohci_init is, the port it is at
  status,                       \* condition code of the status block waited for
  conf_desc,                    \* conf_desc[p]: what the device on port p sent
  is_kbd, intr_table,           \* ports with a keyboard; the port the HCCA points to
  head, halted,                 \* of intr_ed[p]: "td" or "dummy" (the tail); the halted bit
  td,                           \* of intr_td[p]: condition code, and whether its buffer pointer is set
  report,                       \* kbd_report[p]
  poll,                         \* where ohci_poll is: a step and a port
  registered,                   \* addresses under /dev/usb/ohci
  osent, ohandled, ofaults

ohciVars == <<opc, oport, addr_counter, status, conf_desc, is_kbd, intr_table, head, halted, td, report,
              poll, registered, osent, ohandled, ofaults>>
enumVars == <<opc, oport, addr_counter, status, conf_desc, registered>>
intrVars == <<is_kbd, intr_table, head, halted, td, report, poll, osent, ohandled>>

(* at: where ohci_init is, "off" when there is no controller *)
OhciStart(at) ==
  /\ opc = at /\ oport = 1 /\ addr_counter = 1 /\ status = 14
  /\ conf_desc = [p \in OPort |-> <<>>]
  /\ is_kbd = {} /\ intr_table = 0
  /\ head = [p \in OPort |-> "none"] /\ halted = {}
  /\ td = [p \in OPort |-> [cc |-> 0, cbp |-> FALSE]]
  /\ report = [p \in OPort |-> 0] /\ poll = <<"look", 1>>
  /\ registered = {} /\ osent = 0 /\ ohandled = <<>> /\ ofaults = 0

OhciInit == OhciStart("start")

(***************************************************************************)
(* ohci_init.                                                              *)
(***************************************************************************)
(* registers, memory, reset; a controller more than the table holds is *)
(* initialised and not enumerated                                      *)
Setup ==
  /\ opc = "start"
  /\ \E ok \in BOOLEAN : opc' = IF ok THEN "port" ELSE "off"
  /\ UNCHANGED <<oport, addr_counter, status, conf_desc, registered, intrVars, ofaults>>

(* power, connection, reset *)
PowerPort ==
  /\ opc = "port" /\ oport <= OPorts
  /\ \E connected \in BOOLEAN :
       IF connected THEN opc' = "address" /\ oport' = oport ELSE opc' = "port" /\ oport' = oport + 1
  /\ UNCHANGED <<addr_counter, status, conf_desc, registered, intrVars, ofaults>>

(* the descriptors: the first interrupt endpoint after the interface of a boot *)
(* keyboard, whatever interfaces lie between; one of length zero ends the list *)
KeyboardEndpoint(descs) ==
  \E k \in DOMAIN descs :
    /\ descs[k] = "int_in"
    /\ \A j \in 1..(k - 1) : descs[j] # "end"
    /\ \E j \in 1..(k - 1) : descs[j] = "kbd"

(* a request on the control list: its endpoint replaces the last one *)
set_address(cc) == IF cc = 0 THEN "desc" ELSE "register"
get_device_descriptor(cc) == IF cc = 0 THEN "conf" ELSE "register"
(* a configuration that did not arrive in time is looked at all the same *)
get_config_descriptor(cc) ==
  IF cc \in {0, 14} /\ KeyboardEndpoint(conf_desc[oport]) THEN "setconf" ELSE "register"
(* the result is not looked at *)
set_config(cc) == "arm"

Requests == {"address", "desc", "conf", "setconf"}
Follows(step, cc) ==
  CASE step = "address" -> set_address(cc)
    [] step = "desc"    -> get_device_descriptor(cc)
    [] step = "conf"    -> get_config_descriptor(cc)
    [] step = "setconf" -> set_config(cc)

OhciFault(happens) ==
  (happens => ofaults < OFaults) /\ ofaults' = IF happens THEN ofaults + 1 ELSE ofaults

(* external: the controller finishes the request: data, then the status block *)
FinishRequest ==
  /\ opc \in Requests /\ status = 14
  /\ \E cc \in {0, 4} : OhciFault(cc = 4) /\ status' = cc
  /\ conf_desc' = IF opc = "conf" /\ status' = 0 THEN [conf_desc EXCEPT ![oport] = OConfig[oport]]
                  ELSE conf_desc
  /\ UNCHANGED <<opc, oport, addr_counter, registered, intrVars>>

(* external: the data of a request may be there before its status *)
SendConfig ==
  /\ opc = "conf" /\ status = 14 /\ conf_desc[oport] = <<>>
  /\ conf_desc' = [conf_desc EXCEPT ![oport] = OConfig[oport]]
  /\ UNCHANGED <<opc, oport, addr_counter, status, registered, intrVars, ofaults>>

(* the status block is done, or the wait ends without it *)
TakeStatus ==
  /\ opc \in Requests
  /\ OhciFault(status = 14)
  /\ opc' = Follows(opc, status)
  /\ status' = 14
  /\ UNCHANGED <<oport, addr_counter, conf_desc, registered, intrVars>>

(* the interrupt endpoint and its one block; the table of the HCCA has room *)
(* for one keyboard, the last one found                                     *)
ArmInterrupt ==
  /\ opc = "arm"
  /\ td' = [td EXCEPT ![oport] = [cc |-> 14, cbp |-> TRUE]]
  /\ head' = [head EXCEPT ![oport] = "td"]
  /\ intr_table' = oport /\ is_kbd' = is_kbd \cup {oport}
  /\ opc' = "register"
  /\ UNCHANGED <<oport, addr_counter, status, conf_desc, registered, halted, report, poll, osent, ohandled,
                 ofaults>>

(* every connected device is registered, under the address it was to take *)
RegisterDevice ==
  /\ opc = "register"
  /\ registered' = registered \cup {addr_counter} /\ addr_counter' = addr_counter + 1
  /\ opc' = "port" /\ oport' = oport + 1
  /\ UNCHANGED <<status, conf_desc, intrVars, ofaults>>

EnumerationDone ==
  /\ opc = "port" /\ oport > OPorts
  /\ opc' = "poll"
  /\ UNCHANGED <<oport, addr_counter, status, conf_desc, registered, intrVars, ofaults>>

OhciDriver ==
  \/ Setup \/ PowerPort \/ TakeStatus \/ ArmInterrupt \/ RegisterDevice \/ EnumerationDone

(***************************************************************************)
(* External: a transfer on the interrupt endpoint.  A report that finds no *)
(* buffer is lost; an error halts the endpoint.                            *)
(***************************************************************************)
Interrupt ==
  LET p == intr_table
  IN /\ p # 0 /\ head[p] = "td" /\ p \notin halted /\ osent < OReports
     /\ \E cc \in {0, 4} :
          /\ OhciFault(cc = 4)
          /\ osent' = IF cc = 0 THEN osent + 1 ELSE osent
          /\ report' = IF cc = 0 /\ td[p].cbp THEN [report EXCEPT ![p] = osent + 1] ELSE report
          /\ halted' = IF cc = 4 THEN halted \cup {p} ELSE halted
          /\ td' = [td EXCEPT ![p] = [cc |-> cc, cbp |-> FALSE]]
     /\ head' = [head EXCEPT ![p] = "dummy"]
     /\ UNCHANGED <<enumVars, is_kbd, intr_table, poll, ohandled>>

(***************************************************************************)
(* ohci_poll, for each port in turn: look at the endpoint; if its block is *)
(* done, handle the report, set the block up again, then move the head     *)
(* back to it, which keeps the halted bit.                                 *)
(***************************************************************************)
NextPoll(p) == <<"look", (p % OPorts) + 1>>

Look ==
  LET p == poll[2]
      done == p \in is_kbd /\ head[p] = "dummy"
  IN /\ opc = "poll" /\ poll[1] = "look"
     /\ ohandled' = IF done /\ td[p].cc = 0 THEN Append(ohandled, report[p]) ELSE ohandled
     /\ poll' = IF done THEN <<"block", p>> ELSE NextPoll(p)
     /\ UNCHANGED <<enumVars, is_kbd, intr_table, head, halted, td, report, osent, ofaults>>

SetBlock(p) == td' = [td EXCEPT ![p] = [cc |-> 14, cbp |-> TRUE]] /\ head' = head
MoveHead(p) == head' = [head EXCEPT ![p] = "td"] /\ td' = td

(* mutant: the head is moved back before the block is set up *)
Rearm_HeadFirst(step, p) == IF step = "block" THEN MoveHead(p) ELSE SetBlock(p)

Rearm(step, p) == IF step = "block" THEN SetBlock(p) ELSE MoveHead(p)

RearmStep ==
  LET step == poll[1]  p == poll[2]
  IN /\ opc = "poll" /\ step # "look"
     /\ Rearm(step, p)
     /\ poll' = IF step = "block" THEN <<"head", p>> ELSE NextPoll(p)
     /\ UNCHANGED <<enumVars, is_kbd, intr_table, halted, report, osent, ohandled, ofaults>>

ohci_poll == Look \/ RearmStep

OhciNext == OhciDriver \/ ohci_poll \/ FinishRequest \/ SendConfig \/ Interrupt

(* Boot runs alone and the USB thread gets its turns, so the driver goes on *)
OhciFairness == WF_ohciVars(OhciDriver) /\ WF_ohciVars(ohci_poll) /\ WF_ohciVars(FinishRequest)

(***************************************************************************)
(* Properties.                                                             *)
(***************************************************************************)
(* When the keyboard the HCCA points to rests, ohci_poll has handled every  *)
(* report of it, each once and in order, although the controller runs while *)
(* the driver sets the block up again: the head moves back last.            *)
OhciServed == <>[](ohandled = [n \in 1..osent |-> n])
=============================================================================
