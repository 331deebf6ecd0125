------------------------------- MODULE Xhci -------------------------------
(***************************************************************************)
(* The xHCI driver (hw/usb/xhci.c) for one controller: xhci_init, which    *)
(* enumerates the ports at boot, and xhci_poll, which the USB thread calls *)
(* for ever.  The controller itself (the actions marked external) is       *)
(* modelled from what the driver relies on: it executes commands in order, *)
(* answers on the event ring, stops an endpoint on an error, and takes a   *)
(* transfer block only if its cycle bit is the one it expects.             *)
(*                                                                         *)
(* A command or control transfer is known by its port and step, which the  *)
(* events carry here and the driver never looks at.  The rings of commands *)
(* and of endpoint 0 are not laid out (neither wraps); the event ring and  *)
(* the ring of the keyboard are, with their cycle bits; of an event the    *)
(* driver is done with only the cycle bit is kept.  The                    *)
(* driver rings a doorbell after each block it writes; the controller is   *)
(* taken to look at a ring whenever it may.  A completion code 1 is        *)
(* success, 13 a short packet, 4 stands for every error, 0 for no answer.  *)
(* Left out: the node of a device under /dev/usb/xhci, the flags of        *)
(* usb_dev_present, a second keyboard on the same controller.              *)
(***************************************************************************)
EXTENDS Integers, Sequences, SequencesExt, FiniteSetsExt

CONSTANTS XPorts,        \* number of ports
          XConfig,       \* XConfig[p]: the configuration descriptor of the device on port p
          EvLen,         \* blocks of the event ring, 256
          IntLen,        \* blocks of the keyboard's ring, 256
          XReports,      \* bound: reports the keyboard sends
          XLeds,         \* bound: changes of the LEDs
          XFaults        \* bound: failed requests and reports, answers too late

ASSUME XhciAssumption ==
  /\ {XPorts, EvLen, XReports} \subseteq Nat \ {0} /\ {XLeds, XFaults} \subseteq Nat
  /\ IntLen \in Nat /\ IntLen > 1

VARIABLES
  xpc, port, slow,       \* where xhci_init is, the port it is at, whether speed <= 2
  waiting,               \* whether it waits for the answer to its request
  pending,               \* requests the controller has not answered
  stalled,               \* ports whose endpoint 0 has stopped
  cfg,                   \* cfg_desc_buf
  event, hc, erdp,       \* the event ring, the controller's place in it and what it knows of the driver's
  here,                  \* ev_deq and ev_ccs of xhci_init
  ctrl,                  \* the driver's state of the controller
  int_in, ep,            \* the keyboard's ring and the controller's place in it
  kbd_report, leds,
  sent, handled,         \* reports sent; reports given to usb_kbd_handle_report
  faults,                \* failures so far
  mixed, xcause          \* an answer was taken for another; what can make that happen

xhciVars == <<xpc, port, slow, waiting, pending, stalled, cfg, event, hc, erdp, here, ctrl,
              int_in, ep, kbd_report, leds, sent, handled, faults, mixed, xcause>>
waitVars == <<waiting, pending, stalled, cfg, faults>>
ringVars == <<event, hc>>
kbdVars  == <<int_in, ep, kbd_report, leds, sent, handled>>

NoEvent == [c |-> 0, type |-> 0, ep |-> 0, cc |-> 0, for |-> <<>>]
NoBlock == [c |-> 0, link |-> FALSE]
Kbd == 3                           \* the endpoint of the keyboard, kbd_ep_dci
Good == {1, 13}

(* at: where xhci_init is, "off" when there is no controller *)
XhciStart(at) ==
  /\ xpc = at /\ port = 1 /\ slow = FALSE
  /\ waiting = FALSE /\ pending = <<>> /\ stalled = {} /\ cfg = <<>>
  /\ event = [k \in 0..(EvLen - 1) |-> NoEvent]
  /\ hc = [enq |-> 0, pcs |-> 1] /\ erdp = 0
  /\ here = [deq |-> 0, ccs |-> 1]
  /\ ctrl = [kbd |-> 0, deq |-> 0, ccs |-> 1, enq |-> 0, pcs |-> 1]
  /\ int_in = [k \in 0..(IntLen - 1) |-> NoBlock]
  /\ ep = [on |-> FALSE, deq |-> 0, ccs |-> 1]
  /\ kbd_report = 0 /\ leds = 0 /\ sent = 0 /\ handled = <<>>
  /\ faults = 0 /\ mixed = FALSE /\ xcause = {}

XhciInit == XhciStart("probe")

(***************************************************************************)
(* The event ring.                                                         *)
(***************************************************************************)
(* external: the controller posts an event unless the ring is full *)
Room == (hc.enq + 1) % EvLen # erdp
Post(type, endpoint, cc, request) ==
  /\ event' = [event EXCEPT ![hc.enq] =
                 [c |-> hc.pcs, type |-> type, ep |-> endpoint, cc |-> cc, for |-> request]]
  /\ hc' = IF hc.enq + 1 = EvLen THEN [enq |-> 0, pcs |-> 1 - hc.pcs] ELSE [hc EXCEPT !.enq = @ + 1]

(* xhci_advance_event: at is a place of the driver, here or ctrl *)
Advanced(at) ==
  IF at.deq + 1 = EvLen THEN [at EXCEPT !.deq = 0, !.ccs = 1 - @] ELSE [at EXCEPT !.deq = @ + 1]

(* what is kept of an event that xhci_poll, or xhci_init, is done with: the *)
(* latter leaves a report of the keyboard to be found again                 *)
IsReport(e) == e.type = 32 /\ e.ep = Kbd /\ e.cc \in Good
Done == [event EXCEPT ![ctrl.deq] = [NoEvent EXCEPT !.c = event[ctrl.deq].c]]
Passed == IF IsReport(event[here.deq]) THEN event
          ELSE [event EXCEPT ![here.deq] = [NoEvent EXCEPT !.c = event[here.deq].c]]

Ready(at) == event[at.deq].c = at.ccs

(***************************************************************************)
(* xhci_init, up to the ports.                                             *)
(***************************************************************************)
(* a BAR, a free entry, 32 byte contexts *)
Probe ==
  /\ xpc = "probe"
  /\ \E ok \in BOOLEAN : xpc' = IF ok THEN "reset" ELSE "off"
  /\ UNCHANGED <<port, slow, waitVars, ringVars, erdp, here, ctrl, kbdVars, mixed, xcause>>

(* the firmware gives the controller up, or it is taken; the controller is *)
(* stopped and reset, which may time out                                   *)
ResetController ==
  /\ xpc = "reset"
  /\ \E ok \in BOOLEAN : xpc' = IF ok THEN "rings" ELSE "off"
  /\ UNCHANGED <<port, slow, waitVars, ringVars, erdp, here, ctrl, kbdVars, mixed, xcause>>

(* memory, rings and registers, ports powered, the state of the controller *)
StartController ==
  /\ xpc = "rings"
  /\ \E ok \in BOOLEAN : xpc' = IF ok THEN "port" ELSE "off"
  /\ here' = [deq |-> 0, ccs |-> 1]
  /\ ctrl' = [ctrl EXCEPT !.kbd = 0, !.deq = 0, !.ccs = 1]
  /\ UNCHANGED <<port, slow, waitVars, ringVars, erdp, kbdVars, mixed, xcause>>

(***************************************************************************)
(* The ports.  What a port answers: connected; enabled already; a reset    *)
(* under way, and how that ends; the protocol of the port; whether a warm  *)
(* reset and a normal one enable it.                                       *)
(***************************************************************************)
PortAnswer == [ccs : BOOLEAN, ped : BOOLEAN, pr : BOOLEAN, ends : {"on", "stuck", "gone", "off"},
               usb3 : BOOLEAN, warm : BOOLEAN, normal : BOOLEAN]

(* the wait for a reset that was under way: enabled, given up, or "off": reset it *)
AutoReset(a) == IF a.pr THEN a.ends ELSE "off"
WarmReset(a) == a.usb3 /\ a.warm
NormalReset(a) == a.normal
PortReady(a) ==
  /\ a.ccs
  /\ \/ a.ped
     \/ AutoReset(a) = "on"
     \/ AutoReset(a) = "off" /\ (WarmReset(a) \/ NormalReset(a))

(* a reset makes the controller report a change of the port *)
ScanPort ==
  /\ xpc = "port" /\ port <= XPorts /\ Room
  /\ \E a \in PortAnswer, s \in BOOLEAN :
       IF PortReady(a) THEN xpc' = "enable" /\ slow' = s /\ port' = port
       ELSE xpc' = "port" /\ slow' = FALSE /\ port' = port + 1
  /\ Post(34, 0, 1, <<>>)
  /\ UNCHANGED <<waitVars, erdp, here, ctrl, kbdVars, mixed, xcause>>

PortsDone ==
  /\ xpc = "port" /\ port > XPorts
  /\ xpc' = "poll"
  /\ UNCHANGED <<port, slow, waitVars, ringVars, erdp, here, ctrl, kbdVars, mixed, xcause>>

(***************************************************************************)
(* The requests made of one device, and where each completion code leads.  *)
(***************************************************************************)
Commands == {"enable", "address", "evaluate", "configure"}
Transfers == {"desc8", "desc18", "cfg9", "cfg", "setcfg", "setproto", "setidle"}

IfIn(cc, codes, next) == IF cc \in codes THEN next ELSE "skip"

enable_slot(cc) == IfIn(cc, {1}, "address")
address_device(cc) == IfIn(cc, {1}, IF slow THEN "desc8" ELSE "desc18")
get_descriptor8(cc, resize) == IfIn(cc, Good, IF resize THEN "evaluate" ELSE "desc18")
evaluate_context(cc) == "desc18"
get_descriptor(cc) == IfIn(cc, IF slow THEN Good ELSE {1}, "cfg9")
get_config9(cc) == IfIn(cc, {1}, "cfg")

(* an interrupt endpoint of the interface that is a boot keyboard; a *)
(* descriptor of length zero ends the search                         *)
FindKeyboard(descs) ==
  \E k \in DOMAIN descs :
    /\ descs[k] = "int_in"
    /\ \A j \in 1..(k - 1) : descs[j] # "end"
    /\ LET ifaces == {j \in 1..(k - 1) : descs[j] \in {"kbd", "other"}}
       IN ifaces # {} /\ descs[Max(ifaces)] = "kbd"

get_config(cc) == IfIn(cc, Good, IF FindKeyboard(cfg) THEN "setcfg" ELSE "skip")
set_configuration(cc) == IfIn(cc, {1}, "setproto")
set_protocol(cc) == "setidle"
set_idle(cc) == "configure"
configure_endpoint(cc) == IfIn(cc, {1}, "arm")

After(step, cc, resize) ==
  CASE step = "enable"    -> enable_slot(cc)
    [] step = "address"   -> address_device(cc)
    [] step = "desc8"     -> get_descriptor8(cc, resize)
    [] step = "evaluate"  -> evaluate_context(cc)
    [] step = "desc18"    -> get_descriptor(cc)
    [] step = "cfg9"      -> get_config9(cc)
    [] step = "cfg"       -> get_config(cc)
    [] step = "setcfg"    -> set_configuration(cc)
    [] step = "setproto"  -> set_protocol(cc)
    [] step = "setidle"   -> set_idle(cc)
    [] step = "configure" -> configure_endpoint(cc)

(* the request is answered, or given up: on to the next one, or the next port *)
GoOn(cc) ==
  /\ waiting' = FALSE
  /\ \E resize \in BOOLEAN :
       LET next == After(xpc, cc, resize)
       IN IF next = "skip" THEN xpc' = "port" /\ port' = port + 1 /\ slow' = FALSE
          ELSE xpc' = next /\ UNCHANGED <<port, slow>>

(* xhci_enqueue_cmd, or the first half of xhci_control_transfer *)
Issue ==
  /\ xpc \in Commands \cup Transfers /\ ~waiting
  /\ waiting' = TRUE
  /\ pending' = Append(pending, [step |-> xpc, port |-> port])
  /\ cfg' = IF xpc \in {"cfg9", "cfg"} THEN <<>> ELSE cfg
  /\ UNCHANGED <<xpc, port, slow, stalled, faults, ringVars, erdp, here, ctrl, kbdVars, mixed, xcause>>

Expected == IF xpc \in Commands THEN 33 ELSE 32

(* mutant: the answer is not passed over, the next request finds it again *)
TakeAnswer_Kept ==
  /\ waiting /\ Ready(here) /\ event[here.deq].type = Expected
  /\ GoOn(event[here.deq].cc)
  /\ mixed' = (mixed \/ event[here.deq].for # <<port, xpc>>)
  /\ UNCHANGED <<pending, stalled, cfg, faults, event, hc, erdp, here, ctrl, kbdVars, xcause>>

(* xhci_wait_for_event: the next event of the type waited for is the answer *)
TakeAnswer ==
  /\ waiting /\ Ready(here) /\ event[here.deq].type = Expected
  /\ GoOn(event[here.deq].cc)
  /\ mixed' = (mixed \/ event[here.deq].for # <<port, xpc>>)
  /\ here' = Advanced(here) /\ erdp' = here'.deq /\ event' = Passed
  /\ UNCHANGED <<pending, stalled, cfg, faults, hc, ctrl, kbdVars, xcause>>

(* events of other types are passed over *)
SkipEvent ==
  /\ waiting /\ Ready(here) /\ event[here.deq].type # Expected
  /\ here' = Advanced(here) /\ erdp' = here'.deq /\ event' = Passed
  /\ UNCHANGED <<xpc, port, slow, waitVars, hc, ctrl, kbdVars, mixed, xcause>>

(* a stopped endpoint never answers, a slow one answers too late *)
Fault(happens) == (happens => faults < XFaults) /\ faults' = IF happens THEN faults + 1 ELSE faults
WillAnswer(r) == r.step \in Commands \/ r.port \notin stalled
Outstanding == \E k \in DOMAIN pending : pending[k] = [step |-> xpc, port |-> port] /\ WillAnswer(pending[k])

WaitTimesOut ==
  /\ waiting /\ ~Ready(here)
  /\ GoOn(0)
  /\ Fault(Outstanding)
  /\ xcause' = IF Outstanding THEN xcause \cup {"late"} ELSE xcause
  /\ UNCHANGED <<pending, stalled, cfg, ringVars, erdp, here, ctrl, kbdVars, mixed>>

(* the first block of the keyboard's ring; the controller's state is saved, *)
(* the place in the event ring included                                     *)
ArmKeyboard ==
  /\ xpc = "arm"
  /\ int_in' = [k \in 0..(IntLen - 1) |-> IF k = 0 THEN [c |-> 1, link |-> FALSE] ELSE NoBlock]
  /\ ctrl' = [kbd |-> port, deq |-> here.deq, ccs |-> here.ccs, enq |-> 1, pcs |-> 1]
  /\ kbd_report' = 0 /\ leds' = 0
  /\ xpc' = "port" /\ port' = port + 1 /\ slow' = FALSE
  /\ UNCHANGED <<waitVars, ringVars, erdp, here, ep, sent, handled, mixed, xcause>>

DriverStep ==
  \/ Probe \/ ResetController \/ StartController \/ ScanPort \/ PortsDone
  \/ Issue \/ TakeAnswer \/ SkipEvent \/ WaitTimesOut \/ ArmKeyboard

(***************************************************************************)
(* External: the controller and the keyboard.                              *)
(***************************************************************************)
(* requests of one ring are answered in order *)
Ring(r) == IF r.step \in Commands THEN 0 ELSE r.port
Answerable(k) ==
  /\ WillAnswer(pending[k])
  /\ \A j \in 1..(k - 1) : Ring(pending[j]) # Ring(pending[k])

(* external: a request is carried out and answered *)
Answer ==
  /\ Room
  /\ \E k \in DOMAIN pending, cc \in {1, 13, 4} :
       LET r == pending[k]
       IN /\ Answerable(k) /\ (cc = 13 => r.step \in {"desc8", "desc18", "cfg"})
          /\ Fault(cc = 4)
          /\ pending' = RemoveAt(pending, k)
          /\ cfg' = IF r.step = "cfg" /\ cc \in Good THEN XConfig[r.port] ELSE cfg
          /\ stalled' = IF r.step \notin Commands /\ cc = 4 THEN stalled \cup {r.port} ELSE stalled
          /\ ep' = IF r.step = "configure" /\ cc = 1 THEN [on |-> TRUE, deq |-> 0, ccs |-> 1] ELSE ep
          /\ Post(IF r.step \in Commands THEN 33 ELSE 32, 1, cc, <<r.port, r.step>>)
  /\ UNCHANGED <<xpc, port, slow, waiting, erdp, here, ctrl, int_in, kbd_report, leds, sent, handled,
                 mixed, xcause>>

(* external: where the controller is in the ring: an owned link leads back to *)
(* the first block, with the other cycle bit                                 *)
Place == IF int_in[ep.deq].link /\ int_in[ep.deq].c = ep.ccs
         THEN [ep EXCEPT !.deq = 0, !.ccs = 1 - @] ELSE ep

(* external: the controller holds a block it may fill *)
Owned == ep.on /\ ~int_in[Place.deq].link /\ int_in[Place.deq].c = Place.ccs

(* external: the keyboard sends a report; or the transfer fails and the endpoint stops *)
SendReport ==
  /\ Owned /\ Room /\ sent < XReports
  /\ \E cc \in {1, 4} :
       /\ Post(32, Kbd, cc, <<>>)
       /\ Fault(cc = 4)
       /\ ep' = [Place EXCEPT !.deq = @ + 1, !.on = (cc # 4)]
       /\ sent' = IF cc = 4 THEN sent ELSE sent + 1
       /\ kbd_report' = IF cc = 4 THEN kbd_report ELSE sent + 1
       /\ xcause' = xcause \cup (IF xpc # "poll" THEN {"typed"} ELSE {})
                           \cup (IF cc = 4 THEN {"error"} ELSE {})
  /\ UNCHANGED <<xpc, port, slow, waiting, pending, stalled, cfg, erdp, here, ctrl, int_in, leds, handled,
                 mixed>>

(***************************************************************************)
(* xhci_poll, one event at a time; that a round ends after 16 events only  *)
(* lets other controllers in.                                              *)
(***************************************************************************)
(* the next block of the ring; at the end a link leads back *)
Rearmed(c) ==
  LET last == c.enq + 1 >= IntLen - 1
      now  == [int_in EXCEPT ![c.enq] = [c |-> c.pcs, link |-> FALSE]]
  IN IF last THEN [now EXCEPT ![IntLen - 1] = [c |-> 1 - c.pcs, link |-> TRUE]] ELSE now
NextBlock(c) ==
  IF c.enq + 1 >= IntLen - 1 THEN [c EXCEPT !.enq = 0, !.pcs = 1 - @] ELSE [c EXCEPT !.enq = @ + 1]

(* the report is handled, which may change the LEDs and make the driver send *)
(* them (xhci_set_kbd_leds), and the next block is armed                     *)
PollReport ==
  /\ xpc = "poll" /\ ctrl.kbd # 0 /\ Ready(ctrl) /\ IsReport(event[ctrl.deq])
  /\ handled' = Append(handled, kbd_report)
  /\ \E changed \in BOOLEAN :
       /\ changed => leds < XLeds
       /\ leds' = IF changed THEN leds + 1 ELSE leds
       /\ pending' = IF changed THEN Append(pending, [step |-> "leds", port |-> ctrl.kbd])
                     ELSE pending
  /\ int_in' = Rearmed(ctrl)
  /\ ctrl' = Advanced(NextBlock(ctrl)) /\ erdp' = ctrl'.deq /\ event' = Done
  /\ UNCHANGED <<xpc, port, slow, waiting, stalled, cfg, faults, hc, here, ep, kbd_report, sent, mixed, xcause>>

(* mutant: only events of transfers are passed over *)
PollOther_TransfersOnly ==
  /\ xpc = "poll" /\ ctrl.kbd # 0 /\ Ready(ctrl) /\ ~IsReport(event[ctrl.deq])
  /\ event[ctrl.deq].type = 32
  /\ ctrl' = Advanced(ctrl) /\ erdp' = ctrl'.deq /\ event' = Done
  /\ UNCHANGED <<xpc, port, slow, waitVars, hc, here, kbdVars, mixed, xcause>>

(* every other event is passed over, a failed transfer of the keyboard too *)
PollOther ==
  /\ xpc = "poll" /\ ctrl.kbd # 0 /\ Ready(ctrl) /\ ~IsReport(event[ctrl.deq])
  /\ ctrl' = Advanced(ctrl) /\ erdp' = ctrl'.deq /\ event' = Done
  /\ UNCHANGED <<xpc, port, slow, waitVars, hc, here, kbdVars, mixed, xcause>>

xhci_poll == PollReport \/ PollOther

XhciNext == DriverStep \/ xhci_poll \/ Answer \/ SendReport

(* Boot runs alone and the USB thread gets its turns, so the driver goes on;  *)
(* the controller answers what it has accepted.                               *)
XhciFairness == WF_xhciVars(DriverStep) /\ WF_xhciVars(xhci_poll) /\ WF_xhciVars(Answer)

(***************************************************************************)
(* Properties.                                                             *)
(***************************************************************************)
(* The event xhci_wait_for_event returns answers the request just made,     *)
(* although it looks at the type alone, as long as no wait was given up     *)
(* with its answer still to come and the keyboard sent nothing while later  *)
(* ports are enumerated.                                                    *)
XhciAnswersOwn == mixed => xcause # {}

(* Whatever happens during enumeration, when the keyboard rests the reports *)
(* it sent have been handled, each once and in order: kbd_report is not     *)
(* overwritten before it is handled, and events passed over while later     *)
(* ports are enumerated are found again from the place saved with the       *)
(* keyboard.                                                                *)
XhciServed == <>[](handled = [n \in 1..sent |-> n])

(* Once the keyboard's endpoint is active, and unless a transfer fails, the *)
(* keyboard can send its next report: the controller holds a block, or an   *)
(* event that makes the driver arm one is on its way.                       *)
KeyboardActive ==
  (ctrl.kbd # 0 /\ ep.on /\ xpc = "poll") => Owned \/ Len(handled) < sent
=============================================================================
