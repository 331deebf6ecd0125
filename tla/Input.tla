------------------------------- MODULE Input -------------------------------
(***************************************************************************)
(* From key reports to events: usb_kbd_handle_report (hw/usb/usb_kbd.c) in *)
(* the USB thread, which runs with interrupts on, the PS/2 keyboard        *)
(* interrupt (hw/ps2.c), the event queue behind /dev/input/kbd             *)
(* (dev/input.c), the characters of the active terminal (tty.c) and their  *)
(* readers.  The report of a USB keyboard lists the keys that are down; a  *)
(* queue is a ring buffer that drops its oldest entries when it is full,   *)
(* here whole events, and writes of one event are not cut in two except    *)
(* where an interrupt does that (Torn).                                    *)
(***************************************************************************)
EXTENDS Integers, Sequences, FiniteSets, SequencesExt

CONSTANTS Reports,       \* reports of the USB keyboard: sequences of key codes, 0 is no key
          CapsLock,      \* the code of the key, in USB reports
          Letters,       \* codes of letters, in USB reports
          PsCodes,       \* codes of the PS/2 keyboard
          PsShift,       \* those of its shift keys
          EventLen, CharLen   \* bound: capacities of the queues

ASSUME InputAssumption == {EventLen, CharLen} \subseteq Nat \ {0} /\ PsShift \subseteq PsCodes

VARIABLES
  prev_keys, caps_lock,      \* usb_kbd.c
  work, next_keys,           \* what the call in progress has still to do, and its report
  caps_led,                  \* kbd_led_state, caps lock only
  kbd_rb, chars,             \* the events, the characters of the terminal
  shift_pressed, ps_down,    \* ps2.c; the PS/2 keys that are down
  seen,                      \* keys down according to the events read
  icause                     \* what can make events and keys disagree

inputVars == <<prev_keys, caps_lock, work, next_keys, caps_led, kbd_rb, chars, shift_pressed, ps_down,
               seen, icause>>

Keys(r) == {k \in ToSet(r) : k # 0 /\ k < 128}
UsbKeys == UNION {Keys(r) : r \in Reports}
NoKeys == CHOOSE r \in Reports : Keys(r) = {}

InputInit ==
  /\ prev_keys = NoKeys /\ next_keys = NoKeys /\ work = <<>>
  /\ caps_lock = FALSE /\ caps_led = FALSE
  /\ kbd_rb = <<>> /\ chars = <<>>
  /\ shift_pressed = FALSE /\ ps_down = {}
  /\ seen = {} /\ icause = {}

(* ring_buffer_write: the oldest entries make room *)
Pushed(queue, entries, len) ==
  LET all == queue \o entries IN IF Len(all) <= len THEN all ELSE SubSeq(all, Len(all) - len + 1, Len(all))

Event(code, value) == [code |-> code, value |-> value]
Sync == Event(0, 0)

(* input_report_key_kbd, input_sync_kbd: events enter the queue; the caps lock *)
(* LED follows the presses of a code                                           *)
Report(events) ==
  /\ kbd_rb' = Pushed(kbd_rb, events, EventLen)
  /\ caps_led' = (caps_led # (Cardinality({k \in DOMAIN events : events[k] = Event(CapsLock, 1)}) % 2 = 1))

Lost(events) == IF Len(kbd_rb) + Len(events) > EventLen THEN {"overflow"} ELSE {}

(***************************************************************************)
(* usb_kbd_handle_report.                                                  *)
(***************************************************************************)
(* mutant: a key that moved to another place of the report counts as gone *)
Gone_ByPlace(r) ==
  SelectSeq([k \in DOMAIN r |-> IF prev_keys[k] # r[k] THEN prev_keys[k] ELSE 0], LAMBDA k : k \in 1..127)

(* keys of the last report that this one does not list, and the reverse *)
Gone(r) == SelectSeq(prev_keys, LAMBDA k : k \in 1..127 /\ k \notin ToSet(r))
New(r) == SelectSeq(r, LAMBDA k : k # 0 /\ k \notin ToSet(prev_keys))

(* a letter is in upper case if shift is down or caps lock is on, not both *)
Char(k, shift, caps) == IF k \in Letters THEN <<[key |-> k, upper |-> shift # caps]>> ELSE <<>>

Does(event, char) == [event |-> event, char |-> char]

(* the call begins: caps lock is toggled once for each new key, then come the *)
(* releases, the presses with their characters, the end of the report         *)
usb_kbd_handle_report(r, shift) ==
  LET caps == caps_lock # (Cardinality({k \in DOMAIN New(r) : New(r)[k] = CapsLock}) % 2 = 1)
      Release(k) == Does(Event(k, 0), <<>>)
      Press(k) == Does(Event(k, 1), Char(k, shift, caps))
      pressed == SelectSeq(New(r), LAMBDA k : k < 128)
  IN /\ work = <<>>
     /\ caps_lock' = caps
     /\ next_keys' = r
     /\ work' = [k \in DOMAIN Gone(r) |-> Release(Gone(r)[k])]
                  \o [k \in DOMAIN pressed |-> Press(pressed[k])] \o <<Does(Sync, <<>>)>>
     /\ UNCHANGED <<prev_keys, caps_led, kbd_rb, chars, shift_pressed, ps_down, seen, icause>>

(* one event of it; the report is remembered at the end *)
UsbStep ==
  /\ work # <<>>
  /\ Report(<<work[1].event>>)
  /\ chars' = Pushed(chars, work[1].char, CharLen)
  /\ work' = Tail(work)
  /\ prev_keys' = IF work' = <<>> THEN next_keys ELSE prev_keys
  /\ icause' = icause \cup Lost(<<work[1].event>>)
  /\ UNCHANGED <<caps_lock, next_keys, shift_pressed, ps_down, seen>>

(***************************************************************************)
(* isr_ps2_keyboard.  Its codes are those of another table: where one is a *)
(* USB key too, nobody can tell them apart.                                *)
(***************************************************************************)
isr_ps2_keyboard(code, pressed) ==
  /\ pressed # (code \in ps_down)
  /\ ps_down' = IF pressed THEN ps_down \cup {code} ELSE ps_down \ {code}
  /\ shift_pressed' = IF code \in PsShift THEN pressed ELSE shift_pressed
  /\ Report(<<Event(code, IF pressed THEN 1 ELSE 0), Sync>>)
  /\ chars' = IF pressed /\ code \notin PsShift
              THEN Pushed(chars, <<[key |-> code, upper |-> shift_pressed']>>, CharLen) ELSE chars
  /\ icause' = icause \cup Lost(<<Sync, Sync>>) \cup (IF code \in UsbKeys THEN {"collide"} ELSE {})
  /\ UNCHANGED <<prev_keys, caps_lock, work, next_keys, seen>>

(* The interrupt comes while the USB thread is inside ring_buffer_write: the *)
(* bytes of two events are mixed, and nothing more is said.                  *)
Torn ==
  /\ work # <<>> /\ icause = {}
  /\ icause' = {"torn"}
  /\ UNCHANGED <<prev_keys, caps_lock, work, next_keys, caps_led, kbd_rb, chars, shift_pressed, ps_down, seen>>

(***************************************************************************)
(* Readers: a program that reads /dev/input/kbd, or the shell or a program *)
(* that reads the terminal.                                                *)
(***************************************************************************)
Applied(down, e) ==
  IF e = Sync THEN down ELSE IF e.value = 1 THEN down \cup {e.code} ELSE down \ {e.code}

input_read_kbd ==
  /\ kbd_rb # <<>>
  /\ \E n \in 1..Len(kbd_rb) :
       /\ seen' = FoldLeft(Applied, seen, SubSeq(kbd_rb, 1, n))
       /\ kbd_rb' = SubSeq(kbd_rb, n + 1, Len(kbd_rb))
  /\ UNCHANGED <<prev_keys, caps_lock, work, next_keys, caps_led, chars, shift_pressed, ps_down, icause>>

dev_tty_read ==
  /\ chars # <<>>
  /\ chars' = Tail(chars)
  /\ UNCHANGED <<prev_keys, caps_lock, work, next_keys, caps_led, kbd_rb, shift_pressed, ps_down, seen, icause>>

InputNext ==
  /\ icause = {}
  /\ \/ \E r \in Reports, shift \in BOOLEAN : usb_kbd_handle_report(r, shift)
     \/ UsbStep
     \/ \E code \in PsCodes, pressed \in BOOLEAN : isr_ps2_keyboard(code, pressed)
     \/ Torn
     \/ input_read_kbd \/ dev_tty_read

(***************************************************************************)
(* Properties.                                                             *)
(***************************************************************************)
(* Whoever reads /dev/input/kbd to its end knows the keys that are down: the *)
(* events of usb_kbd_handle_report and of the PS/2 interrupt, however they   *)
(* interleave, add up to the last report and the PS/2 keys, and the caps     *)
(* lock LED that input.c keeps is the caps lock of usb_kbd.c.                *)
InputAgrees ==
  (icause = {} /\ work = <<>>) =>
    /\ FoldLeft(Applied, seen, kbd_rb) = Keys(prev_keys) \cup ps_down
    /\ caps_led = caps_lock
=============================================================================
