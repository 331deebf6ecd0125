------------------------------- MODULE Ahci -------------------------------
(***************************************************************************)
(* One port of the AHCI driver (hw/sata/ahci.c) and the reads and writes   *)
(* the file system makes of its drive.  The ports do not share state.      *)
(*                                                                         *)
(* A program's call runs with interrupts off to its end; the shell and its *)
(* child before execve run with interrupts on, only read, and can lose the *)
(* processor at any step, in the middle of a command too.  The driver has  *)
(* no lock.  A caller fills a command slot, sets its bit in PxCI and spins *)
(* until the controller clears it or reports a task file error.            *)
(*                                                                         *)
(* A sector is two units, the smallest part a caller can name; the PRDT    *)
(* entries of a command are one range of units and one buffer.  A buffer   *)
(* is named after the units it receives.  pmm_alloc succeeds (a call that  *)
(* gets no buffer returns at once).                                        *)
(***************************************************************************)
EXTENDS Integers, FiniteSets, FiniteSetsExt

CONSTANTS Thread,     \* callers with interrupts on
          Program,    \* callers with interrupts off
          Slots,      \* command slots of the port
          Sectors,    \* sectors of the drive
          Val,        \* contents of a unit
          Reads, Writes   \* requests callers make: <<offset, size>>, in units

Boot == "boot"

ASSUME AhciAssumption ==
  /\ Slots \in Nat \ {0} /\ Sectors \in Nat \ {0} /\ Val \subseteq Nat /\ Val # {}
  /\ Reads \subseteq Nat \X Nat /\ Writes \subseteq Nat \X Nat
  /\ Thread \cap Program = {} /\ Boot \notin Thread \cup Program

VARIABLES sig,        \* PxSIG, PxSSTS: what is attached to the port
          cr,         \* command engine running
          ci, tfe, err,        \* PxCI; bit 30 of PxIS; ERR of PxTFD
          stopped,             \* the engine stopped on an error
          table,               \* what the slots' command tables say
          pc, call, slot,      \* where each caller is, its request, its slot
          mem,                 \* the buffer of each caller: <<>> when it has none
          media, want,         \* the units of the drive, and what they should be
          sectors,             \* of the registered drive; 0: none is registered
          clash                \* two callers chose the same slot

ahciVars == <<sig, cr, ci, tfe, err, stopped, table, pc, call, slot, mem, media, want, sectors, clash>>

Caller == Thread \cup Program \cup {Boot}
Unit == 0..(2 * Sectors - 1)
NoCall == [op |-> "none", offset |-> 0, size |-> 0, val |-> 0]
NoCommand == [op |-> "none", units |-> {}, caller |-> Boot]
Junk == [u \in Unit |-> -1]

(* at: what the boot code does of the port, "probe" or, with no controller, "idle" *)
AhciStart(at) ==
  /\ sig \in {"none", "ATAPI", "ATA"}
  /\ cr = TRUE /\ ci = {} /\ tfe = FALSE /\ err = FALSE /\ stopped = FALSE
  /\ table = [s \in 0..(Slots - 1) |-> NoCommand]
  /\ pc = [c \in Caller |-> IF c = Boot THEN at ELSE "idle"]
  /\ call = [c \in Caller |-> NoCall]
  /\ slot = [c \in Caller |-> 0]
  /\ mem = [c \in Caller |-> <<>>]
  /\ media \in [Unit -> {Min(Val)}] /\ want = media
  /\ sectors = 0 /\ clash = FALSE

AhciInit == AhciStart("probe")

(* the processor: nothing else runs while a program is in a call, nor before *)
(* the drivers are initialized                                               *)
Runs(c) == \A d \in (Program \cup {Boot}) \ {c} : pc[d] = "idle"

portVars == <<sig, cr, ci, tfe, err, stopped, table, clash>>
drive == <<media, want, sectors>>

(* mutant: the command engine is left stopped *)
ahci_port_rebase_Stopped == cr' = FALSE

(* the engine is stopped, the command tables are laid out and it starts again *)
ahci_port_rebase == cr' = TRUE

ahci_init ==
  /\ pc[Boot] = "probe"
  /\ IF sig = "ATA"
     THEN /\ ahci_port_rebase
          /\ call' = [call EXCEPT ![Boot].op = "identify"]
          /\ mem' = [mem EXCEPT ![Boot] = Junk]
          /\ pc' = [pc EXCEPT ![Boot] = "find"]
     ELSE pc' = [pc EXCEPT ![Boot] = "idle"] /\ UNCHANGED <<cr, call, mem>>
  /\ UNCHANGED <<sig, ci, tfe, err, stopped, table, clash, slot, drive>>

(***************************************************************************)
(* ahci_vfs_read and ahci_vfs_write.  A request is cut off at the end of   *)
(* the drive; a write of part of a sector reads the sectors first.  Bound: *)
(* no call starts after an error or after two callers took one slot.       *)
(***************************************************************************)
Partial(r) == r.offset % 2 # 0 \/ r.size % 2 # 0

Given(r) == r.offset..(r.offset + r.size - 1)
(* the units of the sectors from start_lba to end_lba *)
Span(r) == {u \in Unit : \E v \in Given(r) : u \div 2 = v \div 2}
(* memcpy from the caller's buffer into the sectors *)
Copied(r, units) == [u \in Unit |-> IF u \in Given(r) THEN r.val ELSE units[u]]

Start(c, op, offset, size, v) ==
  LET r == [op |-> op, offset |-> offset, size |-> Min({size, 2 * sectors - offset}), val |-> v]
  IN /\ pc[c] = "idle" /\ Runs(c)
     /\ ~stopped /\ ~clash
     /\ offset < 2 * sectors
     /\ call' = [call EXCEPT ![c] = IF op = "write" /\ Partial(r) THEN [r EXCEPT !.op = "modify"] ELSE r]
     /\ mem' = [mem EXCEPT ![c] = IF op = "write" /\ ~Partial(r) THEN Copied(r, Junk) ELSE Junk]
     /\ pc' = [pc EXCEPT ![c] = "find"]
     /\ UNCHANGED <<portVars, slot, drive>>

(* the call returns, its buffer is freed *)
Returns(c) ==
  /\ pc' = [pc EXCEPT ![c] = "idle"]
  /\ call' = [call EXCEPT ![c] = NoCall]
  /\ mem' = [mem EXCEPT ![c] = <<>>]
  /\ slot' = [slot EXCEPT ![c] = 0]

(***************************************************************************)
(* ahci_identify, ahci_read_sectors, ahci_write_sectors: one command.      *)
(***************************************************************************)
(* mutant: PxCI is not looked at *)
FreeSlots_Any == 0..(Slots - 1)

FreeSlots == {s \in 0..(Slots - 1) : s \notin ci}

(* PxIS is cleared, whoever waits for it *)
ahci_find_cmdslot(c) ==
  LET s == Min(FreeSlots)
  IN /\ pc[c] = "find" /\ Runs(c)
     /\ tfe' = FALSE
     /\ IF FreeSlots = {} THEN Returns(c) /\ UNCHANGED clash
        ELSE /\ slot' = [slot EXCEPT ![c] = s]
             /\ pc' = [pc EXCEPT ![c] = "build"]
             /\ clash' = (clash \/ \E d \in Caller \ {c} : pc[d] \in {"build", "issue"} /\ slot[d] = s)
             /\ UNCHANGED <<call, mem>>
     /\ UNCHANGED <<sig, cr, ci, err, stopped, table, drive>>

Command(c) == [op |-> IF call[c].op = "write" THEN "write" ELSE "read",
               units |-> IF c = Boot THEN {} ELSE Span(call[c]), caller |-> c]

Build(c) ==
  /\ pc[c] = "build" /\ Runs(c)
  /\ table' = [table EXCEPT ![slot[c]] = Command(c)]
  /\ pc' = [pc EXCEPT ![c] = "issue"]
  /\ UNCHANGED <<sig, cr, ci, tfe, err, stopped, clash, call, slot, mem, drive>>

(* after a bounded wait for the drive to be ready *)
IssueCommand(c) ==
  /\ pc[c] = "issue" /\ Runs(c)
  /\ ci' = ci \cup {slot[c]}
  /\ pc' = [pc EXCEPT ![c] = "wait"]
  /\ UNCHANGED <<sig, cr, tfe, err, stopped, table, clash, call, slot, mem, drive>>

(* the bit is clear and no error is left in PxTFD *)
Succeeds(c) ==
  /\ pc[c] = "wait" /\ Runs(c) /\ slot[c] \notin ci /\ ~err
  /\ CASE call[c].op = "modify" ->
            /\ call' = [call EXCEPT ![c].op = "write"]
            /\ mem' = [mem EXCEPT ![c] = Copied(call[c], @)]
            /\ pc' = [pc EXCEPT ![c] = "find"]
            /\ UNCHANGED <<slot, want, sectors>>
       [] call[c].op = "write" -> Returns(c) /\ want' = Copied(call[c], want) /\ UNCHANGED sectors
       [] call[c].op = "identify" -> Returns(c) /\ sectors' = Sectors /\ UNCHANGED want
       [] OTHER -> Returns(c) /\ UNCHANGED <<want, sectors>>
  /\ UNCHANGED <<portVars, media>>

(* the command stays in PxCI and the engine is not restarted *)
Fails(c) ==
  /\ pc[c] = "wait" /\ Runs(c)
  /\ IF slot[c] \in ci THEN tfe ELSE err
  /\ Returns(c)
  /\ UNCHANGED <<portVars, drive>>

(***************************************************************************)
(* The controller (external).  It carries out the commands of PxCI in any  *)
(* order, or stops at one with a task file error until it is restarted.    *)
(* What a table says after its command is done is not kept.                *)
(***************************************************************************)
Transfer(s) ==
  LET t == table[s]
  IN /\ s \in ci /\ cr /\ ~stopped
     /\ ci' = ci \ {s}
     /\ err' = FALSE
     /\ mem' = IF t.op = "read" /\ mem[t.caller] # <<>>
               THEN [mem EXCEPT ![t.caller] = [u \in Unit |-> IF u \in t.units THEN media[u] ELSE @[u]]]
               ELSE mem
     /\ media' = IF t.op # "write" THEN media
                 ELSE [u \in Unit |-> IF u \notin t.units THEN media[u]
                                      ELSE IF mem[t.caller] = <<>> THEN -1 ELSE mem[t.caller][u]]
     /\ table' = [table EXCEPT ![s] = NoCommand]
     /\ UNCHANGED <<sig, cr, tfe, stopped, clash, pc, call, slot, want, sectors>>

TaskFileError ==
  /\ ci # {} /\ cr /\ ~stopped
  /\ stopped' = TRUE /\ tfe' = TRUE /\ err' = TRUE
  /\ UNCHANGED <<sig, cr, ci, table, clash, pc, call, slot, mem, drive>>

CallerStep(c) == ahci_find_cmdslot(c) \/ Build(c) \/ IssueCommand(c) \/ Succeeds(c) \/ Fails(c)

AhciNext ==
  \/ ahci_init
  \/ \E c \in Thread \cup Program, r \in Reads : Start(c, "read", r[1], r[2], Min(Val))
  \/ \E c \in Program, r \in Writes, v \in Val : Start(c, "write", r[1], r[2], v)
  \/ \E c \in Caller : CallerStep(c)
  \/ \E s \in 0..(Slots - 1) : Transfer(s)
  \/ TaskFileError

AhciSpec == AhciInit /\ [][AhciNext]_ahciVars

(* the tick gives every thread its turn between the calls of the programs, a *)
(* program in a call has the processor to itself, the controller goes on     *)
AhciFairness ==
  /\ WF_ahciVars(ahci_init)
  /\ \A s \in 0..(Slots - 1) : WF_ahciVars(Transfer(s))
  /\ \A c \in Caller : SF_ahciVars(CallerStep(c))

(***************************************************************************)
(* Properties.                                                             *)
(***************************************************************************)
(* While no two callers fill the same slot at the same time and the drive   *)
(* reports no error, every command the controller may carry out is the one *)
(* its caller built and waits for, with a buffer that is still allocated;  *)
(* and when no call is in progress the drive holds what the writes that    *)
(* returned put there, neighbours within a sector included.                *)
CommandsOwned ==
  ~clash /\ ~stopped =>
  /\ \A s \in ci : \E c \in Caller : /\ pc[c] = "wait" /\ slot[c] = s
                                     /\ table[s] = Command(c) /\ mem[c] # <<>>
  /\ (\A c \in Program : pc[c] = "idle") => media = want

(* A caller is outside the driver again and again: a call returns, as its   *)
(* spin loops rely on, unless the drive has reported an error (nothing      *)
(* restarts the port after one).                                            *)
AhciReturns == \A c \in Caller : []<>(pc[c] = "idle" \/ stopped)
=============================================================================
