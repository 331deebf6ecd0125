----------------------------- MODULE AhciProofs -----------------------------
(***************************************************************************)
(* Proofs about Ahci for any number of callers, command slots and sectors  *)
(* and any requests.                                                       *)
(***************************************************************************)
EXTENDS Ahci, TLAPS, WellFoundedInduction

-----------------------------------------------------------------------------
(* The inductive invariant. *)

Slot == 0 .. Slots - 1
Data == [Unit -> Int]
Ops == {"none", "read", "write", "modify", "identify"}
CallType == [op : Ops, offset : Nat, size : Int, val : Int]
TableType == [op : {"none", "read", "write"}, units : SUBSET Unit, caller : Caller]
Busy == {"find", "build", "issue", "wait"}

CallersTyped ==
  /\ pc \in [Caller -> Busy \cup {"idle", "probe"}]
  /\ call \in [Caller -> CallType] /\ slot \in [Caller -> Slot]
  /\ mem \in [Caller -> Data \cup {<<>>}]

AhciTyped ==
  /\ CallersTyped
  /\ ci \in SUBSET Slot /\ table \in [Slot -> TableType]
  /\ media \in Data /\ want \in Data /\ sectors \in Nat
  /\ {tfe, err, stopped, clash} \subseteq BOOLEAN

(* A call in progress has a buffer.  Threads only read, and of the programs  *)
(* and the boot code at most one is in a call.                               *)
Roles ==
  /\ \A c \in Caller : /\ pc[c] \in Busy => mem[c] \in Data
                       /\ pc[c] \notin Busy => call[c].op = "none"
                       /\ pc[c] = "probe" => c = Boot
  /\ \A c \in Thread : call[c].op \in {"none", "read"}
  /\ call[Boot].op \in {"none", "identify"}
  /\ \A c, d \in Program \cup {Boot} : c # d => pc[c] = "idle" \/ pc[d] = "idle"

Choosing(c) == pc[c] \in {"build", "issue"}

(* A slot a caller is filling is not in PxCI and nobody else's; a slot in    *)
(* PxCI holds the command of a caller that waits for it; a program that      *)
(* waits for its slot waits for its own command.                             *)
SlotsOwned ==
  /\ \A c \in Caller : Choosing(c) => slot[c] \notin ci
  /\ \A c, d \in Caller : c # d /\ Choosing(c) /\ Choosing(d) => slot[c] # slot[d]
  /\ \A c \in Caller : pc[c] = "issue" => table[slot[c]] = Command(c)
  /\ \A s \in ci : LET c == table[s].caller
                   IN pc[c] = "wait" /\ slot[c] = s /\ table[s] = Command(c)
  /\ \A c \in Program \cup {Boot} : pc[c] = "wait" /\ slot[c] \in ci => table[slot[c]].caller = c

Carried(c) == pc[c] = "wait" /\ slot[c] \notin ci
Written(c) == call[c].op = "write" /\ Carried(c)

(* The drive is behind want only between the end of a write and its return;  *)
(* a write of parts of sectors has read the rest of them before.             *)
DriveAgrees ==
  /\ \A c \in Program :
       /\ Written(c) => media = Copied(call[c], want)
       /\ call[c].op = "modify" /\ Carried(c) => \A u \in Span(call[c]) : mem[c][u] = media[u]
       /\ call[c].op = "write" => \A u \in Span(call[c]) : mem[c][u] = Copied(call[c], want)[u]
  /\ (\A c \in Program : ~Written(c)) => media = want

IInv ==
  /\ AhciTyped /\ Roles
  /\ ~clash /\ ~stopped => ~tfe /\ ~err /\ SlotsOwned /\ DriveAgrees

-----------------------------------------------------------------------------
(* The operators. *)

(* a set of naturals has a least member, which Min chooses *)
LEMMA MinIsMember ==
  ASSUME NEW T, T \subseteq Nat, T # {}
  PROVE  Min(T) \in T
  <1>1. \E x \in T : \A y \in T : ~(<<y, x>> \in OpToRel(<, Nat))
    BY NatLessThanWellFounded, WFMin
  <1>2. \E x \in T : \A y \in T : ~(y < x)
    BY <1>1 DEF OpToRel
  <1>3. \E x \in T : \A y \in T : x <= y
    BY <1>2
  <1>4. QED
    BY <1>3, Zenon DEF Min

(* the smaller of two numbers is a number *)
LEMMA MinOfTwo ==
  ASSUME NEW a \in Int, NEW b \in Int
  PROVE  Min({a, b}) \in Int
  <1>1. \E x \in {a, b} : \A y \in {a, b} : x <= y
    BY a <= b \/ b <= a
  <1>2. QED
    BY <1>1 DEF Min

(* the units of a drive: there are some *)
LEMMA Units ==
  /\ Unit \subseteq Nat /\ 0 \in Unit
  /\ \A f \in Data : f # <<>>
  <1>1. Unit \subseteq Nat /\ 0 \in Unit
    BY AhciAssumption DEF Unit
  <1>2. ASSUME NEW f \in Data PROVE f # <<>>
    <2>1. DOMAIN f = Unit /\ 0 \in DOMAIN f
      BY <1>1 DEF Data
    <2>2. 0 \notin DOMAIN <<>>
      OBVIOUS
    <2>3. QED
      BY <2>1, <2>2
  <1>3. QED
    BY <1>1, <1>2

(* a request lies in the sectors it touches *)
LEMMA GivenInSpan ==
  ASSUME NEW r \in CallType, NEW u \in Unit, u \in Given(r)
  PROVE  u \in Span(r)
  BY DEF Span

(* and fills them if it is made of whole sectors *)
LEMMA WholeSectors ==
  ASSUME NEW r \in CallType, ~Partial(r), NEW u \in Span(r)
  PROVE  u \in Given(r)
  <1>1. r.offset \in Nat /\ r.size \in Int /\ r.offset % 2 = 0 /\ r.size % 2 = 0 /\ u \in Nat
    BY Units DEF CallType, Partial, Span
  <1>2. PICK v \in Given(r) : u \div 2 = v \div 2
    BY DEF Span
  <1> DEFINE o == r.offset
             z == r.size
  <1>3. v \in o .. o + z - 1
    BY <1>2 DEF Given
  <1> HIDE DEF o, z
  <1>4. o \in Nat /\ z \in Int /\ o % 2 = 0 /\ z % 2 = 0
    BY <1>1 DEF o, z
  <1>5. v \in Nat /\ o <= v /\ v <= o + z - 1
    BY <1>3, <1>4
  <1>6. o <= u /\ u <= o + z - 1
    BY <1>1, <1>2, <1>4, <1>5
  <1>7. u \in o .. o + z - 1
    BY <1>1, <1>4, <1>6
  <1>8. QED
    BY <1>7 DEF Given, o, z

(* copying into a buffer *)
LEMMA CopiedUnits ==
  ASSUME NEW r \in CallType, NEW f \in Data
  PROVE  /\ Copied(r, f) \in Data
         /\ \A u \in Unit : Copied(r, f)[u] = IF u \in Given(r) THEN r.val ELSE f[u]
  BY DEF Copied, Data, CallType

(* what a command is for *)
LEMMA CommandTyped ==
  ASSUME AhciTyped, NEW c \in Caller
  PROVE  /\ Command(c) \in TableType
         /\ Command(c).caller = c
         /\ Command(c).op = IF call[c].op = "write" THEN "write" ELSE "read"
         /\ Command(c).units = IF c = Boot THEN {} ELSE Span(call[c])
  BY DEF Command, TableType, Span

(* the buffer before anything is read *)
LEMMA JunkTyped == Junk \in Data
  BY DEF Junk, Data

-----------------------------------------------------------------------------
(* before the first step: no command, no buffer, nothing written *)
LEMMA InitIInv == AhciInit => IInv
  <1> SUFFICES ASSUME AhciInit PROVE IInv
    OBVIOUS
  <1>1. /\ pc = [c \in Caller |-> IF c = Boot THEN "probe" ELSE "idle"]
        /\ call = [c \in Caller |-> NoCall] /\ slot = [c \in Caller |-> 0] /\ ci = {}
        /\ table = [s \in 0..(Slots - 1) |-> NoCommand]
        /\ mem = [c \in Caller |-> <<>>]
        /\ media \in [Unit -> {Min(Val)}] /\ want = media /\ sectors = 0
        /\ tfe = FALSE /\ err = FALSE /\ stopped = FALSE /\ clash = FALSE
    BY DEF AhciInit, AhciStart
  <1>2. NoCall \in CallType /\ NoCall.op = "none" /\ NoCommand \in TableType /\ 0 \in Slot
    BY AhciAssumption DEF NoCall, CallType, Ops, NoCommand, TableType, Caller, Slot
  <1>3. media \in Data
    <2>1. Min(Val) \in Int
      <3>1. Val \subseteq Nat /\ Val # {}
        BY AhciAssumption
      <3>2. Min(Val) \in Val
        BY <3>1, MinIsMember, Zenon
      <3>3. \A x \in Val : x \in Int
        BY <3>1
      <3>4. QED
        BY <3>2, <3>3, Zenon
    <2>2. QED
      BY <1>1, <2>1 DEF Data
  <1>4. AhciTyped
    <2>1. pc \in [Caller -> Busy \cup {"idle", "probe"}]
      BY <1>1
    <2>2. call \in [Caller -> CallType] /\ slot \in [Caller -> Slot] /\ ci \in SUBSET Slot
      BY <1>1, <1>2
    <2>3. table \in [Slot -> TableType]
      BY <1>1, <1>2 DEF Slot
    <2>4. mem \in [Caller -> Data \cup {<<>>}]
      BY <1>1
    <2>5. QED
      BY <1>1, <1>3, <2>1, <2>2, <2>3, <2>4, Zenon DEF AhciTyped, CallersTyped
  <1>5. \A c \in Caller : pc[c] = (IF c = Boot THEN "probe" ELSE "idle") /\ call[c].op = "none"
    BY <1>1, <1>2
  <1>6. Thread \subseteq Caller /\ Program \subseteq Caller /\ Boot \in Caller
    BY DEF Caller
  <1>7. Roles
    BY <1>5, <1>6 DEF Roles, Busy
  <1>8. SlotsOwned
    BY <1>1, <1>5, <1>6 DEF SlotsOwned, Choosing
  <1>9. DriveAgrees
    BY <1>1, <1>5, <1>6 DEF DriveAgrees, Written, Carried
  <1>10. QED
    BY <1>1, <1>4, <1>7, <1>8, <1>9 DEF IInv

-----------------------------------------------------------------------------
(* Who is who. *)
LEMMA Callers ==
  /\ Thread \subseteq Caller /\ Program \subseteq Caller /\ Boot \in Caller
  /\ Boot \notin Program /\ Boot \notin Thread /\ Thread \cap Program = {}
  BY AhciAssumption DEF Caller

(* A caller that has the processor is a program or the boot code, alone in a *)
(* call, or a thread while no program is in one.                             *)
LEMMA Others ==
  ASSUME IInv, NEW c \in Caller, Runs(c), NEW d \in Program, d # c
  PROVE  pc[d] = "idle" /\ call[d].op = "none" /\ ~Written(d)
  <1>1. pc[d] = "idle"
    BY DEF Runs
  <1>2. call[d].op = "none"
    BY <1>1, Callers DEF IInv, Roles, Busy
  <1>3. QED
    BY <1>1, <1>2 DEF Written

(* when the caller that runs has not written, the drive is up to date *)
LEMMA UpToDate ==
  ASSUME IInv, DriveAgrees, NEW c \in Caller, Runs(c), ~(c \in Program /\ Written(c))
  PROVE  media = want
  BY Others DEF DriveAgrees

-----------------------------------------------------------------------------
(* What the steps of a caller have in common. *)

(* the step is one of caller c *)
Only(c) ==
  \A d \in Caller \ {c} :
    pc'[d] = pc[d] /\ call'[d] = call[d] /\ slot'[d] = slot[d] /\ mem'[d] = mem[d]

(* A step of one caller keeps every caller in its role. *)
LEMMA RolesStep ==
  ASSUME IInv, NEW c \in Caller, Runs(c), Only(c),
         pc'[c] \in Busy => mem'[c] \in Data,
         pc'[c] \notin Busy => call'[c].op = "none",
         pc'[c] # "probe",
         c \in Thread => call'[c].op \in {"none", "read"},
         c = Boot => call'[c].op \in {"none", "identify"}
  PROVE  Roles'
  <1>1. \A d \in Caller : /\ pc'[d] \in Busy => mem'[d] \in Data
                          /\ pc'[d] \notin Busy => call'[d].op = "none"
                          /\ pc'[d] = "probe" => d = Boot
    BY DEF Only, IInv, Roles
  <1>2. /\ \A d \in Thread : call'[d].op \in {"none", "read"}
        /\ call'[Boot].op \in {"none", "identify"}
    BY Callers DEF Only, IInv, Roles
  <1>3. ASSUME NEW d \in Program \cup {Boot}, NEW e \in Program \cup {Boot}, d # e
        PROVE  pc'[d] = "idle" \/ pc'[e] = "idle"
    <2>1. \A x \in Program \cup {Boot} : x # c => pc'[x] = "idle"
      BY Callers DEF Only, Runs
    <2>2. QED
      BY <1>3, <2>1
  <1>4. QED
    BY <1>1, <1>2, <1>3 DEF Roles

(* the caller goes on without a command of its own in its slot *)
LEMMA SlotsAside ==
  ASSUME IInv, SlotsOwned, NEW c \in Caller, Only(c), UNCHANGED <<ci, table>>,
         ~Choosing(c), pc[c] = "wait" => slot[c] \notin ci,
         pc'[c] \in {"find", "idle"}
  PROVE  SlotsOwned'
  <1>1. \A d \in Caller \ {c} : Command(d)' = Command(d)
    BY DEF Only, Command
  <1>2. \A d \in Caller : Choosing(d)' => d # c /\ Choosing(d)
    BY DEF Only, Choosing
  <1>3. /\ \A d \in Caller : Choosing(d)' => slot'[d] \notin ci
        /\ \A d, e \in Caller : d # e /\ Choosing(d)' /\ Choosing(e)' => slot'[d] # slot'[e]
    BY <1>2 DEF Only, SlotsOwned
  <1>4. \A d \in Caller : pc'[d] = "issue" => table[slot'[d]] = Command(d)'
    BY <1>1 DEF Only, SlotsOwned
  <1>5. ASSUME NEW s \in ci, NEW d, d = table[s].caller
        PROVE  pc'[d] = "wait" /\ slot'[d] = s /\ table[s] = Command(d)'
    <2>1. d \in Caller
      BY <1>5 DEF IInv, AhciTyped, CallersTyped, TableType
    <2>2. pc[d] = "wait" /\ slot[d] = s /\ table[s] = Command(d)
      BY <1>5 DEF SlotsOwned
    <2>3. d # c
      BY <2>2
    <2>4. QED
      BY <1>1, <2>1, <2>2, <2>3 DEF Only
  <1>6. \A d \in Program \cup {Boot} :
            pc'[d] = "wait" /\ slot'[d] \in ci => table[slot'[d]].caller = d
    BY Callers DEF Only, SlotsOwned
  <1>7. QED
    BY <1>3, <1>4, <1>5, <1>6 DEF SlotsOwned

(* the caller has no write behind it that has not returned *)
LEMMA DriveAside ==
  ASSUME IInv, NEW c \in Caller, Runs(c), Only(c), media' = want', ~Carried(c)',
         c \in Program /\ call'[c].op = "write" =>
             \A u \in Span(call'[c]) : mem'[c][u] = Copied(call'[c], want')[u]
  PROVE  DriveAgrees'
  <1>1. ASSUME NEW d \in Program, d # c PROVE call'[d].op = "none"
    BY <1>1, Others, Callers DEF Only
  <1>2. \A d \in Program : ~Written(d)'
    BY <1>1 DEF Written
  <1>3. ASSUME NEW d \in Program
        PROVE  /\ Written(d)' => media' = Copied(call'[d], want')
               /\ call'[d].op = "modify" /\ Carried(d)'
                      => \A u \in Span(call'[d]) : mem'[d][u] = media'[u]
               /\ call'[d].op = "write"
                      => \A u \in Span(call'[d]) : mem'[d][u] = Copied(call'[d], want')[u]
    <2>1. CASE d = c
      BY <1>2, <2>1
    <2>2. CASE d # c
      BY <1>1, <1>2, <2>2
    <2>3. QED
      BY <2>1, <2>2
  <1>4. QED
    BY <1>3 DEF DriveAgrees, Copied, Span, Given

-----------------------------------------------------------------------------
(* The steps of the callers. *)

(* a step of caller c in terms of what it puts where *)
Puts(c, a, r, s, b) ==
  /\ pc' = [pc EXCEPT ![c] = a] /\ call' = [call EXCEPT ![c] = r]
  /\ slot' = [slot EXCEPT ![c] = s] /\ mem' = [mem EXCEPT ![c] = b]

Fits(a, r, s, b) ==
  a \in Busy \cup {"idle", "probe"} /\ r \in CallType /\ s \in Slot /\ b \in Data \cup {<<>>}

(* A step that puts what fits is a step of one caller, and keeps the types. *)
LEMMA OnlyOne ==
  ASSUME AhciTyped, NEW c \in Caller, NEW a, NEW r, NEW s, NEW b,
         Puts(c, a, r, s, b), Fits(a, r, s, b)
  PROVE  /\ Only(c) /\ pc'[c] = a /\ call'[c] = r /\ slot'[c] = s /\ mem'[c] = b
         /\ CallersTyped'
  <1>1. Only(c) /\ pc'[c] = a /\ call'[c] = r /\ slot'[c] = s /\ mem'[c] = b
    BY DEF AhciTyped, CallersTyped, Only, Puts
  <1>2. CallersTyped'
    BY DEF AhciTyped, CallersTyped, Puts, Fits
  <1>3. QED
    BY <1>1, <1>2

(* the same fields of a caller put back *)
LEMMA Unmoved ==
  ASSUME AhciTyped, NEW c \in Caller
  PROVE  /\ pc = [pc EXCEPT ![c] = pc[c]] /\ call = [call EXCEPT ![c] = call[c]]
         /\ slot = [slot EXCEPT ![c] = slot[c]] /\ mem = [mem EXCEPT ![c] = mem[c]]
         /\ pc[c] \in Busy \cup {"idle", "probe"} /\ call[c] \in CallType /\ slot[c] \in Slot
         /\ mem[c] \in Data \cup {<<>>}
  BY DEF AhciTyped, CallersTyped

(* the driver finds the drive, or none *)
LEMMA InitKeeps ==
  ASSUME IInv, ahci_init
  PROVE  IInv'
  <1>1. /\ AhciTyped /\ Boot \in Caller /\ pc[Boot] = "probe"
        /\ UNCHANGED <<sig, ci, tfe, err, stopped, table, clash, slot, media, want, sectors>>
    BY Callers DEF IInv, ahci_init, drive
  <1>2. PICK a, r, b :
            /\ pc' = [pc EXCEPT ![Boot] = a] /\ call' = [call EXCEPT ![Boot] = r]
            /\ mem' = [mem EXCEPT ![Boot] = b]
            /\ \/ a = "find" /\ r = [call[Boot] EXCEPT !.op = "identify"] /\ b = Junk
               \/ a = "idle" /\ r = call[Boot] /\ b = mem[Boot]
    BY <1>1, Unmoved, Zenon DEF ahci_init
  <1>3. slot' = [slot EXCEPT ![Boot] = slot[Boot]]
    BY <1>1, Unmoved
  <1>4. /\ a \in Busy \cup {"idle", "probe"} /\ r \in CallType /\ slot[Boot] \in Slot
        /\ b \in Data \cup {<<>>}
        /\ r.op = (IF a = "find" THEN "identify" ELSE "none")
    <2>1. call[Boot] \in CallType /\ call[Boot].op = "none"
      BY <1>1, Unmoved DEF IInv, Roles, Busy
    <2>2. [call[Boot] EXCEPT !.op = "identify"] \in CallType
          /\ [call[Boot] EXCEPT !.op = "identify"].op = "identify"
      BY <2>1 DEF CallType, Ops
    <2>3. QED
      BY <1>1, <1>2, <2>1, <2>2, JunkTyped, Unmoved, Zenon DEF Busy
  <1>5. /\ Only(Boot) /\ pc'[Boot] = a /\ call'[Boot] = r /\ mem'[Boot] = b
        /\ CallersTyped'
    <2>1. Puts(Boot, a, r, slot[Boot], b)
      BY <1>2, <1>3, Zenon DEF Puts
    <2>2. Fits(a, r, slot[Boot], b)
      BY <1>4, Zenon DEF Fits
    <2>3. QED
      BY <1>1, <2>1, <2>2, OnlyOne, Zenon
  <1>6. Runs(Boot)
    BY <1>1 DEF Runs, IInv, Roles
  <1>7. AhciTyped'
    BY <1>1, <1>5 DEF AhciTyped
  <1>8. Roles'
    BY <1>1, <1>2, <1>4, <1>5, <1>6, JunkTyped, Callers, RolesStep DEF Busy
  <1>9. ASSUME ~clash, ~stopped PROVE SlotsOwned' /\ DriveAgrees'
    <2>1. SlotsOwned /\ DriveAgrees
      BY <1>9 DEF IInv
    <2>2. SlotsOwned'
      BY <1>1, <1>2, <1>5, <2>1, SlotsAside DEF Choosing
    <2>3. media = want
      BY <1>1, <1>6, <2>1, Callers, UpToDate
    <2>4. ~Carried(Boot)'
      BY <1>2, <1>5 DEF Carried
    <2>5. DriveAgrees'
      BY <1>1, <1>5, <1>6, <2>3, <2>4, Callers, DriveAside
    <2>6. QED
      BY <2>2, <2>5
  <1>10. QED
    BY <1>1, <1>7, <1>8, <1>9 DEF IInv

(* A call starts.  A write of whole sectors has its buffer filled, any other *)
(* one reads first.                                                          *)
LEMMA StartKeeps ==
  ASSUME IInv, NEW c \in Thread \cup Program, NEW op \in {"read", "write"},
         op = "write" => c \in Program,
         NEW o \in Nat, NEW z \in Nat, NEW v \in Int, Start(c, op, o, z, v)
  PROVE  IInv'
  <1> DEFINE r == [op |-> op, offset |-> o, size |-> Min({z, 2 * sectors - o}), val |-> v]
             q == IF op = "write" /\ Partial(r) THEN [r EXCEPT !.op = "modify"] ELSE r
             b == IF op = "write" /\ ~Partial(r) THEN Copied(r, Junk) ELSE Junk
  <1>1. /\ AhciTyped /\ c \in Caller /\ pc[c] = "idle" /\ Runs(c) /\ ~stopped /\ ~clash
        /\ call' = [call EXCEPT ![c] = q] /\ mem' = [mem EXCEPT ![c] = b]
        /\ pc' = [pc EXCEPT ![c] = "find"]
        /\ UNCHANGED <<sig, cr, ci, tfe, err, stopped, table, clash, slot, media, want, sectors>>
    BY Callers DEF IInv, Start, portVars, drive
  <1>2. r \in CallType /\ r.op = op
    <2>1. 2 * sectors - o \in Int
      BY <1>1 DEF AhciTyped, CallersTyped
    <2>2. Min({z, 2 * sectors - o}) \in Int
      BY <2>1, MinOfTwo
    <2>3. QED
      BY <2>2 DEF CallType, Ops
  <1> HIDE DEF r
  <1>3. /\ q \in CallType
        /\ q.op = IF op = "write" /\ Partial(r) THEN "modify" ELSE op
    BY <1>2 DEF CallType, Ops
  <1>4. b \in Data
    BY <1>2, JunkTyped, CopiedUnits
  <1>5. q.op = "write" => q = r /\ b = Copied(r, Junk) /\ ~Partial(r)
    BY <1>3
  <1> HIDE DEF q, b
  <1>6. /\ Only(c) /\ pc'[c] = "find" /\ call'[c] = q /\ mem'[c] = b
        /\ CallersTyped'
    <2>1. slot' = [slot EXCEPT ![c] = slot[c]] /\ slot[c] \in Slot
      BY <1>1, Unmoved
    <2>2. Puts(c, "find", q, slot[c], b)
      BY <1>1, <2>1, Zenon DEF Puts
    <2>3. Fits("find", q, slot[c], b)
      BY <1>3, <1>4, <2>1, Zenon DEF Fits, Busy
    <2>4. QED
      BY <1>1, <2>2, <2>3, OnlyOne, Zenon
  <1>7. AhciTyped'
    BY <1>1, <1>6 DEF AhciTyped
  <1>8. Roles'
    <2>1. /\ c \in Thread => q.op \in {"none", "read"}
          /\ c # Boot /\ "find" \in Busy /\ "find" # "probe"
      BY <1>3, Callers DEF Busy
    <2>2. QED
      BY <1>1, <1>4, <1>6, <2>1, RolesStep, Zenon
  <1>9. SlotsOwned /\ DriveAgrees /\ ~tfe /\ ~err
    BY <1>1 DEF IInv
  <1>10. SlotsOwned'
    BY <1>1, <1>6, <1>9, SlotsAside DEF Choosing
  <1>11. DriveAgrees'
    <2>1. media' = want'
      <3>1. ~Written(c)
        BY <1>1 DEF Written, Carried
      <3>2. media = want
        BY <1>1, <1>9, <3>1, UpToDate
      <3>3. QED
        BY <1>1, <3>2
    <2>2. ~Carried(c)'
      BY <1>6 DEF Carried
    <2>3. ASSUME q.op = "write", NEW u \in Span(q)
          PROVE  b[u] = Copied(q, want)[u]
      <3>1. q = r /\ b = Copied(r, Junk) /\ ~Partial(r) /\ u \in Unit
        BY <1>5, <2>3 DEF Span
      <3>2. u \in Given(r)
        BY <1>2, <2>3, <3>1, WholeSectors
      <3>3. want \in Data
        BY <1>1 DEF AhciTyped, CallersTyped
      <3>4. Copied(r, Junk)[u] = r.val /\ Copied(r, want)[u] = r.val
        BY <1>2, <3>1, <3>2, <3>3, JunkTyped, CopiedUnits
      <3>5. QED
        BY <3>1, <3>4
    <2>4. QED
      BY <1>1, <1>6, <2>1, <2>2, <2>3, DriveAside
  <1>12. QED
    BY <1>1, <1>7, <1>8, <1>9, <1>10, <1>11 DEF IInv

(* a call returns *)
LEMMA ReturnTyped ==
  ASSUME IInv, NEW c \in Caller, Runs(c), Returns(c)
  PROVE  /\ Only(c) /\ pc'[c] = "idle" /\ call'[c].op = "none"
         /\ CallersTyped'
         /\ Roles'
  <1>1. /\ NoCall \in CallType /\ NoCall.op = "none" /\ 0 \in Slot /\ <<>> \in Data \cup {<<>>}
        /\ "idle" \in Busy \cup {"idle", "probe"} /\ "idle" \notin Busy /\ "idle" # "probe"
    BY AhciAssumption DEF NoCall, CallType, Ops, Slot, Busy
  <1>2. AhciTyped /\ Puts(c, "idle", NoCall, 0, <<>>) /\ Fits("idle", NoCall, 0, <<>>)
    BY <1>1, Zenon DEF Returns, IInv, Puts, Fits
  <1>3. /\ Only(c) /\ pc'[c] = "idle" /\ call'[c] = NoCall
        /\ CallersTyped'
    BY <1>2, OnlyOne, Zenon
  <1>4. call'[c].op = "none"
    BY <1>1, <1>3
  <1>5. Roles'
    BY <1>1, <1>3, <1>4, RolesStep
  <1>6. QED
    BY <1>3, <1>4, <1>5

(* and leaves no command behind *)
LEMMA ReturnAside ==
  ASSUME IInv, SlotsOwned, NEW c \in Caller, Runs(c), Returns(c), UNCHANGED <<ci, table>>,
         ~Choosing(c), pc[c] = "wait" => slot[c] \notin ci, media' = want'
  PROVE  SlotsOwned' /\ DriveAgrees'
  <1>1. Only(c) /\ pc'[c] = "idle" /\ call'[c].op = "none"
    BY ReturnTyped
  <1>2. SlotsOwned'
    BY <1>1, SlotsAside
  <1>3. ~Carried(c)'
    BY <1>1 DEF Carried
  <1>4. DriveAgrees'
    BY <1>1, <1>3, DriveAside
  <1>5. QED
    BY <1>2, <1>4

(* a call goes on to its next step with the same request and buffer *)
LEMMA GoesOn ==
  ASSUME IInv, NEW c \in Caller, Runs(c), NEW a \in Busy, NEW s \in Slot, pc[c] \in Busy,
         pc' = [pc EXCEPT ![c] = a], slot' = [slot EXCEPT ![c] = s], UNCHANGED <<call, mem>>
  PROVE  /\ Only(c) /\ pc'[c] = a /\ slot'[c] = s
         /\ CallersTyped'
         /\ Roles'
  <1>1. AhciTyped /\ call[c] \in CallType /\ mem[c] \in Data \cup {<<>>}
    BY Unmoved DEF IInv
  <1>2. call' = [call EXCEPT ![c] = call[c]] /\ mem' = [mem EXCEPT ![c] = mem[c]]
    BY <1>1, Unmoved
  <1>3. a \in Busy \cup {"idle", "probe"} /\ a # "probe"
    BY DEF Busy
  <1>4. /\ Only(c) /\ pc'[c] = a /\ slot'[c] = s
        /\ CallersTyped'
    <2>1. Puts(c, a, call[c], s, mem[c])
      BY <1>2, Zenon DEF Puts
    <2>2. Fits(a, call[c], s, mem[c])
      BY <1>1, <1>3, Zenon DEF Fits
    <2>3. QED
      BY <1>1, <2>1, <2>2, OnlyOne, Zenon
  <1>5. /\ mem'[c] \in Data
        /\ c \in Thread => call'[c].op \in {"none", "read"}
        /\ c = Boot => call'[c].op \in {"none", "identify"}
    BY DEF IInv, Roles
  <1>6. Roles'
    BY <1>3, <1>4, <1>5, RolesStep
  <1>7. QED
    BY <1>4, <1>6

(* nothing of the drive is at stake before the command is carried out *)
LEMMA DriveKept ==
  ASSUME IInv, DriveAgrees, NEW c \in Caller, Runs(c), Only(c), ~Carried(c), ~Carried(c)',
         UNCHANGED <<call, mem, media, want>>
  PROVE  DriveAgrees'
  <1>1. media' = want'
    <2>1. ~Written(c)
      BY DEF Written
    <2>2. QED
      BY <2>1, UpToDate
  <1>2. c \in Program /\ call[c].op = "write" =>
            \A u \in Span(call[c]) : mem[c][u] = Copied(call[c], want)[u]
    BY DEF DriveAgrees
  <1>3. QED
    BY <1>1, <1>2, DriveAside

(* The caller takes the lowest slot that PxCI does not name.                 *)
LEMMA FindKeeps ==
  ASSUME IInv, NEW c \in Caller, ahci_find_cmdslot(c)
  PROVE  IInv'
  <1>1. /\ pc[c] = "find" /\ Runs(c) /\ tfe' = FALSE /\ AhciTyped
        /\ UNCHANGED <<sig, cr, ci, err, stopped, table, media, want, sectors>>
    BY DEF ahci_find_cmdslot, drive, IInv
  <1>2. ~Choosing(c) /\ ~Carried(c) /\ pc[c] # "wait" /\ pc[c] \in Busy
    BY <1>1 DEF Choosing, Carried, Busy
  <1>3. CASE FreeSlots = {}
    <2>1. Returns(c) /\ clash' = clash
      BY <1>3 DEF ahci_find_cmdslot
    <2>2. AhciTyped' /\ Roles'
      <3>1. /\ CallersTyped'
            /\ Roles'
        BY <1>1, <2>1, ReturnTyped
      <3>2. QED
        BY <1>1, <2>1, <3>1, Zenon DEF AhciTyped, CallersTyped
    <2>3. ASSUME ~clash, ~stopped PROVE ~err /\ SlotsOwned' /\ DriveAgrees'
      <3>1. ~err /\ SlotsOwned /\ DriveAgrees
        BY <2>3 DEF IInv
      <3>2. media = want
        BY <1>1, <1>2, <3>1, UpToDate DEF Written
      <3>3. QED
        BY <1>1, <1>2, <2>1, <3>1, <3>2, ReturnAside
    <2>4. QED
      BY <1>1, <2>1, <2>2, <2>3 DEF IInv
  <1>4. CASE FreeSlots # {}
    <2> DEFINE s == Min(FreeSlots)
    <2>1. s \in Slot /\ s \notin ci
      <3>1. FreeSlots \subseteq Nat
        BY DEF FreeSlots
      <3>2. s \in FreeSlots
        BY <1>4, <3>1, MinIsMember, Zenon
      <3>3. QED
        BY <3>2 DEF FreeSlots, Slot
    <2>2. /\ slot' = [slot EXCEPT ![c] = s] /\ pc' = [pc EXCEPT ![c] = "build"]
          /\ clash' = (clash \/ \E d \in Caller \ {c} : Choosing(d) /\ slot[d] = s)
          /\ UNCHANGED <<call, mem>>
      BY <1>4 DEF ahci_find_cmdslot, Choosing
    <2> HIDE DEF s
    <2>3. "build" \in Busy
      BY DEF Busy
    <2>4. /\ Only(c) /\ pc'[c] = "build" /\ slot'[c] = s
          /\ CallersTyped'
          /\ Roles'
      BY <1>1, <1>2, <2>1, <2>2, <2>3, GoesOn, Zenon
    <2>5. AhciTyped'
      <3>1. clash' \in BOOLEAN
        BY <1>1, <2>2 DEF AhciTyped, CallersTyped
      <3>2. QED
        BY <1>1, <2>2, <2>4, <3>1, Zenon DEF AhciTyped, CallersTyped
    <2>6. ASSUME ~clash', ~stopped PROVE ~err /\ SlotsOwned' /\ DriveAgrees'
      <3>1. /\ ~err /\ SlotsOwned /\ DriveAgrees
            /\ \A d \in Caller \ {c} : Choosing(d) => slot[d] # s
        BY <2>2, <2>6, Zenon DEF IInv
      <3>2. \A d \in Caller : Command(d)' = Command(d)
        BY <2>2 DEF Command, Span
      <3>3. \A d \in Caller \ {c} : /\ Choosing(d)' <=> Choosing(d)
                                    /\ pc'[d] = pc[d] /\ slot'[d] = slot[d]
        BY <2>4 DEF Only, Choosing
      <3>4. /\ \A d \in Caller : Choosing(d)' => slot'[d] \notin ci
            /\ \A d, e \in Caller : d # e /\ Choosing(d)' /\ Choosing(e)' => slot'[d] # slot'[e]
        BY <2>1, <2>4, <3>1, <3>3 DEF SlotsOwned
      <3>5. \A d \in Caller : pc'[d] = "issue" => table[slot'[d]] = Command(d)'
        BY <2>4, <3>1, <3>2, <3>3 DEF SlotsOwned
      <3>6. ASSUME NEW t \in ci, NEW d, d = table[t].caller
            PROVE  pc'[d] = "wait" /\ slot'[d] = t /\ table[t] = Command(d)'
        <4>1. d \in Caller
          BY <1>1, <3>6 DEF AhciTyped, CallersTyped, TableType
        <4>2. pc[d] = "wait" /\ slot[d] = t /\ table[t] = Command(d)
          BY <3>1, <3>6 DEF SlotsOwned
        <4>3. QED
          BY <1>2, <3>2, <3>3, <4>1, <4>2
      <3>7. \A d \in Program \cup {Boot} :
                pc'[d] = "wait" /\ slot'[d] \in ci => table[slot'[d]].caller = d
        BY <2>4, <3>1, <3>3, Callers DEF SlotsOwned
      <3>8. SlotsOwned'
        BY <1>1, <3>4, <3>5, <3>6, <3>7 DEF SlotsOwned
      <3>9. ~Carried(c)'
        BY <2>4 DEF Carried
      <3>10. DriveAgrees'
        BY <1>1, <1>2, <2>2, <2>4, <3>1, <3>9, DriveKept
      <3>11. QED
        BY <3>1, <3>8, <3>10
    <2>7. QED
      BY <1>1, <2>4, <2>5, <2>6 DEF IInv
  <1>5. QED
    BY <1>3, <1>4

(* The caller fills the table of its slot. *)
LEMMA BuildKeeps ==
  ASSUME IInv, NEW c \in Caller, Build(c)
  PROVE  IInv'
  <1>1. /\ pc[c] = "build" /\ Runs(c) /\ AhciTyped
        /\ table' = [table EXCEPT ![slot[c]] = Command(c)]
        /\ pc' = [pc EXCEPT ![c] = "issue"]
        /\ UNCHANGED <<sig, cr, ci, tfe, err, stopped, clash, call, slot, mem, media, want, sectors>>
    BY DEF Build, drive, IInv
  <1>2. /\ Choosing(c) /\ ~Carried(c) /\ pc[c] \in Busy /\ "issue" \in Busy
        /\ slot[c] \in Slot /\ slot' = [slot EXCEPT ![c] = slot[c]]
    BY <1>1, Unmoved DEF Choosing, Carried, Busy
  <1>3. /\ Only(c) /\ pc'[c] = "issue"
        /\ CallersTyped'
        /\ Roles'
    BY <1>1, <1>2, GoesOn, Zenon
  <1>4. /\ table'[slot[c]] = Command(c)
        /\ \A t \in Slot \ {slot[c]} : table'[t] = table[t]
        /\ table' \in [Slot -> TableType]
    BY <1>1, <1>2, CommandTyped DEF AhciTyped, CallersTyped
  <1>5. AhciTyped'
    BY <1>1, <1>3, <1>4 DEF AhciTyped
  <1>6. ASSUME ~clash, ~stopped PROVE ~err /\ ~tfe /\ SlotsOwned' /\ DriveAgrees'
    <2>1. ~err /\ ~tfe /\ SlotsOwned /\ DriveAgrees
      BY <1>6 DEF IInv
    <2>2. \A d \in Caller : /\ Command(d)' = Command(d) /\ slot'[d] = slot[d] /\ slot[d] \in Slot
                            /\ Choosing(d)' <=> Choosing(d)
                            /\ d # c => pc'[d] = pc[d]
      <3>1. \A d \in Caller : Command(d)' = Command(d)
        BY <1>1 DEF Command, Span
      <3>2. \A d \in Caller : slot'[d] = slot[d] /\ slot[d] \in Slot
        BY <1>1 DEF AhciTyped, CallersTyped
      <3>3. \A d \in Caller : /\ Choosing(d)' <=> Choosing(d)
                              /\ d # c => pc'[d] = pc[d]
        BY <1>2, <1>3 DEF Choosing, Only
      <3>4. QED
        BY <3>1, <3>2, <3>3, Zenon
    <2>3. /\ \A d \in Caller : Choosing(d)' => slot'[d] \notin ci
          /\ \A d, e \in Caller : d # e /\ Choosing(d)' /\ Choosing(e)' => slot'[d] # slot'[e]
      <3>1. \A d \in Caller : Choosing(d) => slot[d] \notin ci
        BY <2>1 DEF SlotsOwned
      <3>2. \A d, e \in Caller : d # e /\ Choosing(d) /\ Choosing(e) => slot[d] # slot[e]
        BY <2>1 DEF SlotsOwned
      <3>3. QED
        BY <2>2, <3>1, <3>2, Zenon
    <2>4. ASSUME NEW d \in Caller, pc'[d] = "issue"
          PROVE  table'[slot'[d]] = Command(d)'
      <3>1. CASE d = c
        BY <1>4, <2>2, <3>1
      <3>2. CASE d # c
        <4>1. pc[d] = "issue" /\ Choosing(d)
          BY <2>2, <2>4, <3>2 DEF Choosing
        <4>2. slot[d] # slot[c] /\ table[slot[d]] = Command(d)
          BY <1>2, <2>1, <3>2, <4>1 DEF SlotsOwned
        <4>3. QED
          BY <1>4, <2>2, <4>2
      <3>3. QED
        BY <3>1, <3>2
    <2>5. \A t \in ci : t \in Slot /\ table'[t] = table[t]
      <3>1. slot[c] \notin ci /\ ci \subseteq Slot
        BY <1>1, <1>2, <2>1 DEF SlotsOwned, AhciTyped
      <3>2. QED
        BY <1>4, <3>1, Zenon
    <2>6. ASSUME NEW t \in ci, NEW d, d = table[t].caller
          PROVE  pc'[d] = "wait" /\ slot'[d] = t /\ table[t] = Command(d)'
      <3>1. d \in Caller
        BY <2>5, <1>1, <2>6 DEF AhciTyped, CallersTyped, TableType
      <3>2. pc[d] = "wait" /\ slot[d] = t /\ table[t] = Command(d)
        BY <2>1, <2>6 DEF SlotsOwned
      <3>3. QED
        BY <1>1, <2>2, <3>1, <3>2
    <2>7. \A d \in Program \cup {Boot} :
              pc'[d] = "wait" /\ slot'[d] \in ci => table[slot'[d]].caller = d
      BY <1>3, <2>1, <2>2, Callers DEF SlotsOwned
    <2>8. SlotsOwned'
      BY <1>1, <2>3, <2>4, <2>5, <2>6, <2>7 DEF SlotsOwned
    <2>9. ~Carried(c)'
      BY <1>3 DEF Carried
    <2>10. DriveAgrees'
      BY <1>1, <1>2, <1>3, <2>1, <2>9, DriveKept
    <2>11. QED
      BY <2>1, <2>8, <2>10
  <1>7. QED
    BY <1>1, <1>3, <1>5, <1>6 DEF IInv

(* The caller sets the bit of its slot in PxCI. *)
LEMMA IssueKeeps ==
  ASSUME IInv, NEW c \in Caller, IssueCommand(c)
  PROVE  IInv'
  <1>1. /\ pc[c] = "issue" /\ Runs(c) /\ AhciTyped
        /\ ci' = ci \cup {slot[c]}
        /\ pc' = [pc EXCEPT ![c] = "wait"]
        /\ UNCHANGED <<sig, cr, tfe, err, stopped, table, clash, call, slot, mem, media, want, sectors>>
    BY DEF IssueCommand, drive, IInv
  <1>2. /\ Choosing(c) /\ ~Carried(c) /\ pc[c] \in Busy /\ "wait" \in Busy
        /\ slot[c] \in Slot /\ slot' = [slot EXCEPT ![c] = slot[c]]
    BY <1>1, Unmoved DEF Choosing, Carried, Busy
  <1>3. /\ Only(c) /\ pc'[c] = "wait"
        /\ CallersTyped'
        /\ Roles'
    BY <1>1, <1>2, GoesOn, Zenon
  <1>4. AhciTyped'
    <2>1. ci' \in SUBSET Slot
      BY <1>1, <1>2 DEF AhciTyped, CallersTyped
    <2>2. QED
      BY <1>1, <1>3, <2>1 DEF AhciTyped, CallersTyped
  <1>5. ASSUME ~clash, ~stopped PROVE ~err /\ ~tfe /\ SlotsOwned' /\ DriveAgrees'
    <2>1. ~err /\ ~tfe /\ SlotsOwned /\ DriveAgrees
      BY <1>5 DEF IInv
    <2>2. \A d \in Caller : /\ Command(d)' = Command(d) /\ slot'[d] = slot[d]
                            /\ Choosing(d)' => Choosing(d) /\ d # c
                            /\ d # c => pc'[d] = pc[d]
      BY <1>1, <1>2, <1>3 DEF Command, Span, Choosing, Only
    <2>3. /\ \A d \in Caller : Choosing(d)' => slot'[d] \notin ci'
          /\ \A d, e \in Caller : d # e /\ Choosing(d)' /\ Choosing(e)' => slot'[d] # slot'[e]
      BY <1>1, <1>2, <2>1, <2>2 DEF SlotsOwned
    <2>4. \A d \in Caller : pc'[d] = "issue" => table[slot'[d]] = Command(d)'
      BY <1>3, <2>1, <2>2 DEF SlotsOwned
    <2>5. table[slot[c]] = Command(c) /\ table[slot[c]].caller = c
      BY <1>1, <2>1, CommandTyped DEF SlotsOwned
    <2>6. ASSUME NEW t \in ci', NEW d, d = table[t].caller
          PROVE  pc'[d] = "wait" /\ slot'[d] = t /\ table[t] = Command(d)'
      <3>1. CASE t = slot[c]
        BY <1>3, <2>2, <2>5, <2>6, <3>1
      <3>2. CASE t \in ci
        <4>1. d \in Caller
          BY <1>1, <2>6, <3>2 DEF AhciTyped, CallersTyped, TableType
        <4>2. pc[d] = "wait" /\ slot[d] = t /\ table[t] = Command(d)
          BY <2>1, <2>6, <3>2 DEF SlotsOwned
        <4>3. QED
          BY <1>1, <2>2, <4>1, <4>2
      <3>3. QED
        BY <1>1, <3>1, <3>2
    <2>7. ASSUME NEW d \in Program \cup {Boot}, pc'[d] = "wait", slot'[d] \in ci'
          PROVE  table[slot'[d]].caller = d
      <3>1. d = c
        BY <1>1, <2>2, <2>7, Callers DEF Runs
      <3>2. QED
        BY <2>2, <2>5, <3>1
    <2>8. SlotsOwned'
      BY <1>1, <2>3, <2>4, <2>6, <2>7 DEF SlotsOwned
    <2>9. ~Carried(c)'
      BY <1>1 DEF Carried
    <2>10. DriveAgrees'
      BY <1>1, <1>2, <1>3, <2>1, <2>9, DriveKept
    <2>11. QED
      BY <2>1, <2>8, <2>10
  <1>6. QED
    BY <1>1, <1>3, <1>4, <1>5 DEF IInv

(* The command is done.  A write of parts of sectors goes on to write what   *)
(* it read with the caller's bytes over it; any other call returns.          *)
LEMMA SucceedsKeeps ==
  ASSUME IInv, NEW c \in Caller, Succeeds(c)
  PROVE  IInv'
  <1> DEFINE r == call[c]
  <1>1. /\ pc[c] = "wait" /\ Runs(c) /\ slot[c] \notin ci /\ AhciTyped
        /\ UNCHANGED <<sig, cr, ci, tfe, err, stopped, table, clash, media>>
        /\ r \in CallType /\ mem[c] \in Data /\ want \in Data /\ media \in Data
        /\ c \in Thread => r.op \in {"none", "read"}
        /\ c = Boot => r.op \in {"none", "identify"}
    BY DEF Succeeds, portVars, IInv, Roles, Busy, AhciTyped, CallersTyped
  <1>2. ~Choosing(c) /\ Carried(c)
    BY <1>1 DEF Choosing, Carried
  <1>3. CASE r.op = "modify"
    <2> DEFINE q == [r EXCEPT !.op = "write"]
               b == Copied(r, mem[c])
    <2>1. /\ call' = [call EXCEPT ![c] = q] /\ mem' = [mem EXCEPT ![c] = b]
          /\ pc' = [pc EXCEPT ![c] = "find"] /\ UNCHANGED <<slot, want, sectors>>
      BY <1>3 DEF Succeeds
    <2>2. c \in Program
      BY <1>1, <1>3 DEF Caller
    <2>3. q \in CallType /\ q.op = "write" /\ Span(q) = Span(r) /\ Copied(q, want) = Copied(r, want)
      BY <1>1 DEF CallType, Ops, Span, Given, Copied
    <2>4. b \in Data
      BY <1>1, CopiedUnits
    <2> HIDE DEF q, b
    <2>5. /\ Only(c) /\ pc'[c] = "find" /\ call'[c] = q /\ mem'[c] = b
          /\ CallersTyped'
      <3>1. slot' = [slot EXCEPT ![c] = slot[c]] /\ slot[c] \in Slot
        BY <1>1, <2>1, Unmoved
      <3>2. Puts(c, "find", q, slot[c], b)
        BY <2>1, <3>1, Zenon DEF Puts
      <3>3. Fits("find", q, slot[c], b)
        BY <2>3, <2>4, <3>1, Zenon DEF Fits, Busy
      <3>4. QED
        BY <1>1, <3>2, <3>3, OnlyOne, Zenon
    <2>6. AhciTyped'
      BY <1>1, <2>1, <2>5 DEF AhciTyped
    <2>7. Roles'
      <3>1. c \notin Thread /\ c # Boot /\ "find" \in Busy /\ "find" # "probe"
        BY <2>2, Callers DEF Busy
      <3>2. QED
        BY <1>1, <2>4, <2>5, <3>1, RolesStep, Zenon
    <2>8. ASSUME ~clash, ~stopped PROVE ~tfe /\ ~err /\ SlotsOwned' /\ DriveAgrees'
      <3>1. ~err /\ ~tfe /\ SlotsOwned /\ DriveAgrees
        BY <2>8 DEF IInv
      <3>2. SlotsOwned'
        BY <1>1, <1>2, <2>5, <3>1, SlotsAside, Zenon
      <3>3. media = want
        BY <1>1, <1>3, <3>1, UpToDate DEF Written
      <3>4. ASSUME NEW u \in Span(r) PROVE b[u] = Copied(r, want)[u]
        <4>1. u \in Unit
          BY <3>4 DEF Span
        <4>2. mem[c][u] = want[u]
          BY <1>2, <1>3, <2>2, <3>1, <3>3, <3>4 DEF DriveAgrees
        <4>3. QED
          BY <1>1, <4>1, <4>2, CopiedUnits DEF b
      <3>5. ~Carried(c)'
        BY <2>5 DEF Carried
      <3>6. DriveAgrees'
        <4>1. \A u \in Span(call'[c]) : mem'[c][u] = Copied(call'[c], want')[u]
          BY <2>1, <2>3, <2>5, <3>4
        <4>2. QED
          BY <1>1, <2>1, <2>5, <3>3, <3>5, <4>1, DriveAside
      <3>7. QED
        BY <3>1, <3>2, <3>6
    <2>9. QED
      BY <1>1, <2>6, <2>7, <2>8 DEF IInv
  <1>4. CASE r.op # "modify"
    <2>1. /\ Returns(c) /\ sectors' \in {sectors, Sectors}
          /\ want' = IF r.op = "write" THEN Copied(r, want) ELSE want
      BY <1>4 DEF Succeeds
    <2>2. /\ CallersTyped'
          /\ Roles'
      BY <1>1, <2>1, ReturnTyped
    <2>3. want' \in Data /\ sectors' \in Nat
      BY <1>1, <2>1, CopiedUnits, AhciAssumption DEF AhciTyped, CallersTyped
    <2>4. AhciTyped'
      BY <1>1, <2>2, <2>3 DEF AhciTyped
    <2>5. ASSUME ~clash, ~stopped PROVE ~tfe /\ ~err /\ SlotsOwned' /\ DriveAgrees'
      <3>1. ~err /\ ~tfe /\ SlotsOwned /\ DriveAgrees
        BY <2>5 DEF IInv
      <3>2. media = want'
        <4>1. CASE r.op = "write"
          <5>1. c \in Program
            BY <1>1, <4>1 DEF Caller
          <5>2. media = Copied(r, want)
            BY <1>2, <3>1, <4>1, <5>1 DEF DriveAgrees, Written
          <5>3. QED
            BY <2>1, <4>1, <5>2
        <4>2. CASE r.op # "write"
          BY <1>1, <2>1, <3>1, <4>2, UpToDate DEF Written
        <4>3. QED
          BY <4>1, <4>2
      <3>3. SlotsOwned' /\ DriveAgrees'
        BY <1>1, <1>2, <2>1, <3>1, <3>2, ReturnAside
      <3>4. QED
        BY <3>1, <3>3
    <2>6. QED
      BY <1>1, <2>2, <2>4, <2>5 DEF IInv
  <1>5. QED
    BY <1>3, <1>4

(* A call that fails returns; without an error none does. *)
LEMMA FailsKeeps ==
  ASSUME IInv, NEW c \in Caller, Fails(c)
  PROVE  IInv'
  <1>1. /\ Runs(c) /\ Returns(c) /\ AhciTyped /\ (tfe \/ err)
        /\ UNCHANGED <<sig, cr, ci, tfe, err, stopped, table, clash, media, want, sectors>>
    BY DEF Fails, portVars, drive, IInv
  <1>2. /\ CallersTyped'
        /\ Roles'
    BY <1>1, ReturnTyped
  <1>3. AhciTyped'
    BY <1>1, <1>2 DEF AhciTyped
  <1>4. clash \/ stopped
    BY <1>1 DEF IInv
  <1>5. QED
    BY <1>1, <1>2, <1>3, <1>4 DEF IInv

-----------------------------------------------------------------------------
(* The controller. *)

(* it stops at an error *)
LEMMA ErrorKeeps ==
  ASSUME IInv, TaskFileError
  PROVE  IInv'
  <1>1. /\ stopped' = TRUE /\ tfe' = TRUE /\ err' = TRUE
        /\ UNCHANGED <<ci, table, clash, pc, call, slot, mem, media, want, sectors>>
    BY DEF TaskFileError, drive
  <1>2. AhciTyped'
    BY <1>1 DEF IInv, AhciTyped, CallersTyped
  <1>3. Roles'
    BY <1>1 DEF IInv, Roles
  <1>4. QED
    BY <1>1, <1>2, <1>3 DEF IInv

(* the requests and what the drive should hold are not its business *)
LEMMA DriveMoved ==
  ASSUME UNCHANGED <<call, want>>,
         \A c \in Program :
           /\ Written(c)' => media' = Copied(call[c], want)
           /\ call[c].op = "modify" /\ Carried(c)' => \A u \in Span(call[c]) : mem'[c][u] = media'[u]
           /\ call[c].op = "write" => \A u \in Span(call[c]) : mem'[c][u] = Copied(call[c], want)[u],
         (\A c \in Program : ~Written(c)') => media' = want
  PROVE  DriveAgrees'
  <1>1. \A c \in Program : Span(call[c])' = Span(call[c]) /\ Copied(call[c], want)' = Copied(call[c], want)
    BY DEF Span, Copied
  <1>2. QED
    BY <1>1 DEF DriveAgrees

(* It carries out the command of a slot: data between the drive and the      *)
(* buffer of the caller that the table names.                                *)
LEMMA TransferKeeps ==
  ASSUME IInv, NEW s \in Slot, Transfer(s)
  PROVE  IInv'
  <1>0. PICK t, d : t = table[s] /\ d = t.caller
    OBVIOUS
  <1>1. /\ s \in ci /\ ~stopped /\ ci' = ci \ {s} /\ err' = FALSE /\ AhciTyped
        /\ mem' = IF t.op = "read" /\ mem[d] # <<>>
                  THEN [mem EXCEPT ![d] = [u \in Unit |-> IF u \in t.units THEN media[u] ELSE mem[d][u]]]
                  ELSE mem
        /\ media' = IF t.op # "write" THEN media
                    ELSE [u \in Unit |-> IF u \notin t.units THEN media[u]
                                         ELSE IF mem[d] = <<>> THEN -1 ELSE mem[d][u]]
        /\ table' = [table EXCEPT ![s] = NoCommand]
        /\ UNCHANGED <<tfe, stopped, clash, pc, call, slot, want, sectors>>
    BY <1>0 DEF Transfer, IInv
  <1>2. /\ t \in TableType /\ d \in Caller /\ mem[d] \in Data \cup {<<>>} /\ media \in Data
        /\ mem \in [Caller -> Data \cup {<<>>}] /\ want \in Data
    BY <1>0, <1>1 DEF AhciTyped, CallersTyped, TableType
  <1>3. /\ mem' \in [Caller -> Data \cup {<<>>}]
        /\ \A c \in Caller : mem[c] \in Data => mem'[c] \in Data
        /\ \A c \in Caller : c # d => mem'[c] = mem[c]
    <2>1. CASE t.op = "read" /\ mem[d] # <<>>
      <3> DEFINE b == [u \in Unit |-> IF u \in t.units THEN media[u] ELSE mem[d][u]]
      <3>1. b \in Data
        BY <1>2, <2>1 DEF Data
      <3>2. mem' = [mem EXCEPT ![d] = b]
        BY <1>1, <2>1
      <3> HIDE DEF b
      <3>3. QED
        BY <1>2, <3>1, <3>2
    <2>2. CASE ~(t.op = "read" /\ mem[d] # <<>>)
      BY <1>1, <1>2, <2>2
    <2>3. QED
      BY <2>1, <2>2
  <1>4. media' \in Data
    BY <1>1, <1>2 DEF Data
  <1>5. /\ table' \in [Slot -> TableType]
        /\ \A x \in Slot \ {s} : table'[x] = table[x]
    <2>1. NoCommand \in TableType
      BY Callers DEF NoCommand, TableType
    <2>2. QED
      BY <1>1, <2>1 DEF AhciTyped, CallersTyped
  <1>6. AhciTyped'
    <2>1. ci' \in SUBSET Slot
      BY <1>1 DEF AhciTyped, CallersTyped
    <2>2. QED
      BY <1>1, <1>3, <1>4, <1>5, <2>1, Zenon DEF AhciTyped, CallersTyped
  <1>7. Roles'
    BY <1>1, <1>3 DEF IInv, Roles
  <1>8. ASSUME ~clash PROVE SlotsOwned /\ DriveAgrees /\ ~tfe
    BY <1>1, <1>8 DEF IInv
  <1>9. ASSUME ~clash
        PROVE  /\ pc[d] = "wait" /\ slot[d] = s /\ t = Command(d) /\ mem[d] \in Data
               /\ \A c \in Caller : slot[c] \in Slot /\ Command(c)' = Command(c)
    <2>1. pc[d] = "wait" /\ slot[d] = s /\ t = Command(d)
      BY <1>0, <1>1, <1>8, <1>9 DEF SlotsOwned
    <2>2. mem[d] \in Data
      BY <1>2, <2>1 DEF IInv, Roles, Busy
    <2>3. \A c \in Caller : slot[c] \in Slot /\ Command(c)' = Command(c)
      BY <1>1 DEF Command, Span, AhciTyped, CallersTyped
    <2>4. QED
      BY <2>1, <2>2, <2>3
  <1>10. ASSUME ~clash PROVE SlotsOwned'
    <2>1. /\ \A c \in Caller : Choosing(c) => slot[c] \notin ci'
          /\ \A c, e \in Caller : c # e /\ Choosing(c) /\ Choosing(e) => slot[c] # slot[e]
      BY <1>1, <1>8, <1>10 DEF SlotsOwned
    <2>2. ASSUME NEW c \in Caller, pc[c] = "issue"
          PROVE  table'[slot[c]] = Command(c)'
      <3>1. slot[c] \in Slot \ {s} /\ table[slot[c]] = Command(c)
        BY <1>1, <1>8, <1>9, <1>10, <2>2 DEF SlotsOwned, Choosing
      <3>2. QED
        BY <1>5, <1>9, <1>10, <3>1
    <2>3. ASSUME NEW x \in ci', NEW e, e = table'[x].caller
          PROVE  pc[e] = "wait" /\ slot[e] = x /\ table'[x] = Command(e)'
      <3>1. x \in ci /\ x \in Slot /\ table'[x] = table[x]
        BY <1>1, <1>5, <2>3 DEF AhciTyped, CallersTyped
      <3>2. e \in Caller
        BY <1>1, <2>3, <3>1 DEF AhciTyped, CallersTyped, TableType
      <3>3. QED
        <4>1. SlotsOwned /\ Command(e)' = Command(e) /\ e = table[x].caller
          BY <1>8, <1>9, <1>10, <2>3, <3>1, <3>2, Zenon
        <4>2. pc[e] = "wait" /\ slot[e] = x /\ table[x] = Command(e)
          BY <3>1, <4>1 DEF SlotsOwned
        <4>3. QED
          BY <3>1, <4>1, <4>2
    <2>4. ASSUME NEW c \in Program \cup {Boot}, pc[c] = "wait", slot[c] \in ci'
          PROVE  table'[slot[c]].caller = c
      <3>1. slot[c] \in ci /\ slot[c] \in Slot \ {s} /\ table'[slot[c]] = table[slot[c]]
        BY <1>1, <1>5, <2>4, Callers DEF AhciTyped, CallersTyped
      <3>2. QED
        BY <1>8, <1>10, <2>4, <3>1 DEF SlotsOwned
    <2>5. QED
      BY <1>1, <2>1, <2>2, <2>3, <2>4 DEF SlotsOwned, Choosing
  <1>11. ASSUME ~clash, NEW c \in Program
         PROVE  /\ Carried(c) => Carried(c)'
                /\ Carried(c)' => Carried(c) \/ c = d
                /\ ~Carried(d)
    BY <1>0, <1>1, <1>8, <1>9, <1>11, Callers DEF Carried, SlotsOwned
  <1>12. ASSUME ~clash PROVE DriveAgrees'
    <2>1. t.op = (IF call[d].op = "write" THEN "write" ELSE "read") /\ mem[d] # <<>>
      BY <1>1, <1>2, <1>9, <1>12, CommandTyped, Units
    <2>2. CASE call[d].op # "write"
      <3>1. media' = media
            /\ mem' = [mem EXCEPT ![d] = [u \in Unit |-> IF u \in t.units THEN media[u] ELSE mem[d][u]]]
        BY <1>1, <2>1, <2>2
      <3>2. ASSUME NEW c \in Program PROVE Written(c)' <=> Written(c)
        BY <1>1, <1>11, <1>12, <2>2 DEF Written
      <3>3. ASSUME NEW c \in Program, call[c].op = "modify", Carried(c)', NEW u \in Span(call[c])
            PROVE  mem'[c][u] = media[u]
        <4>1. c \in Caller /\ c # Boot /\ u \in Unit
          BY <3>3, Callers DEF Span
        <4>2. CASE c = d
          <5>1. t.units = Span(call[d])
            BY <1>1, <1>2, <1>9, <1>12, <4>1, <4>2, CommandTyped
          <5>2. QED
            BY <1>2, <3>1, <3>3, <4>1, <4>2, <5>1
        <4>3. CASE c # d
          <5>1. mem[c][u] = media[u]
            BY <1>8, <1>11, <1>12, <3>3, <4>3 DEF DriveAgrees
          <5>2. QED
            BY <1>3, <4>1, <4>3, <5>1
        <4>4. QED
          BY <4>2, <4>3
      <3>4. ASSUME NEW c \in Program, call[c].op = "write" PROVE mem'[c] = mem[c]
        BY <1>3, <2>2, <3>4, Callers
      <3>5. ASSUME NEW c \in Program
            PROVE  /\ Written(c)' => media' = Copied(call[c], want)
                   /\ call[c].op = "modify" /\ Carried(c)' => \A u \in Span(call[c]) : mem'[c][u] = media'[u]
                   /\ call[c].op = "write" => \A u \in Span(call[c]) : mem'[c][u] = Copied(call[c], want)[u]
        <4>1. Written(c)' => media' = Copied(call[c], want)
          BY <1>8, <1>12, <3>1, <3>2 DEF DriveAgrees
        <4>2. call[c].op = "modify" /\ Carried(c)' => \A u \in Span(call[c]) : mem'[c][u] = media'[u]
          BY <3>1, <3>3
        <4>3. call[c].op = "write" => \A u \in Span(call[c]) : mem'[c][u] = Copied(call[c], want)[u]
          BY <1>8, <1>12, <3>4 DEF DriveAgrees
        <4>4. QED
          BY <4>1, <4>2, <4>3
      <3>6. (\A c \in Program : ~Written(c)') => media' = want
        BY <1>8, <1>12, <3>1, <3>2 DEF DriveAgrees
      <3>7. QED
        BY <1>1, <3>5, <3>6, DriveMoved, Zenon
    <2>3. CASE call[d].op = "write"
      <3> DEFINE r == call[d]
      <3>1. d \in Program /\ r \in CallType
        BY <1>1, <1>2, <2>3 DEF Caller, IInv, Roles, AhciTyped, CallersTyped
      <3>2. \A c \in Program : c # d => call[c].op = "none"
        <4>1. \A c \in Program : c # d => pc[c] = "idle"
          BY <1>9, <1>12, <3>1 DEF IInv, Roles
        <4>2. QED
          BY <4>1, Callers DEF IInv, Roles, Busy
      <3>3. media = want
        BY <1>8, <1>11, <1>12, <3>1, <3>2, Zenon DEF DriveAgrees, Written
      <3>4. t.units = Span(r) /\ t.op = "write" /\ mem' = mem
        BY <1>1, <1>2, <1>9, <1>12, <2>1, <2>3, <3>1, CommandTyped, Callers
      <3>5. media' = [u \in Unit |-> IF u \notin Span(r) THEN media[u] ELSE mem[d][u]]
        BY <1>1, <2>1, <3>4
      <3>6. ASSUME NEW u \in Unit PROVE media'[u] = Copied(r, want)[u]
        <4>1. CASE u \in Span(r)
          <5>1. mem[d][u] = Copied(r, want)[u]
            BY <1>8, <1>12, <2>3, <3>1, <4>1 DEF DriveAgrees
          <5>2. QED
            BY <3>5, <4>1, <5>1
        <4>2. CASE u \notin Span(r)
          <5>1. u \notin Given(r)
            BY <3>1, <4>2, GivenInSpan
          <5>2. Copied(r, want)[u] = want[u]
            BY <1>2, <3>1, <5>1, CopiedUnits
          <5>3. QED
            BY <3>3, <3>5, <4>2, <5>2
        <4>3. QED
          BY <4>1, <4>2, Zenon
      <3>7. media' = Copied(r, want)
        <4>1. media' = [u \in Unit |-> media'[u]] /\ Copied(r, want) = [u \in Unit |-> Copied(r, want)[u]]
          BY <1>4, <1>2, <3>1, CopiedUnits DEF Data
        <4>2. QED
          BY <3>6, <4>1
      <3>8. Written(d)'
        BY <1>1, <1>9, <1>12, <2>3 DEF Written, Carried
      <3>9. ASSUME NEW c \in Program
            PROVE  /\ Written(c)' => media' = Copied(call[c], want)
                   /\ call[c].op = "modify" /\ Carried(c)' => \A u \in Span(call[c]) : mem'[c][u] = media'[u]
                   /\ call[c].op = "write" => \A u \in Span(call[c]) : mem'[c][u] = Copied(call[c], want)[u]
        <4>1. CASE c = d
          BY <1>8, <1>12, <2>3, <3>1, <3>4, <3>7, <4>1 DEF DriveAgrees
        <4>2. CASE c # d
          BY <1>1, <3>2, <4>2 DEF Written
        <4>3. QED
          BY <4>1, <4>2
      <3>10. QED
        BY <1>1, <3>1, <3>8, <3>9, DriveMoved, Zenon
    <2>4. QED
      BY <2>2, <2>3
  <1>13. QED
    BY <1>1, <1>6, <1>7, <1>8, <1>10, <1>12 DEF IInv

-----------------------------------------------------------------------------
(* every step keeps the invariant *)
LEMMA NextIInv == IInv /\ [AhciNext]_ahciVars => IInv'
  <1> SUFFICES ASSUME IInv, [AhciNext]_ahciVars PROVE IInv'
    OBVIOUS
  <1>1. Min(Val) \in Int /\ \A v \in Val : v \in Int
    <2>1. Val \subseteq Nat /\ Val # {}
      BY AhciAssumption
    <2>2. Min(Val) \in Val
      BY <2>1, MinIsMember, Zenon
    <2>3. \A x \in Val : x \in Int
      BY <2>1
    <2>4. QED
      BY <2>2, <2>3, Zenon
  <1>2. \A r \in Reads \cup Writes : r[1] \in Nat /\ r[2] \in Nat
    BY AhciAssumption
  <1>3. CASE ahci_init
    BY <1>3, InitKeeps
  <1>4. CASE \E c \in Thread \cup Program, r \in Reads : Start(c, "read", r[1], r[2], Min(Val))
    BY <1>1, <1>2, <1>4, StartKeeps
  <1>5. CASE \E c \in Program, r \in Writes, v \in Val : Start(c, "write", r[1], r[2], v)
    BY <1>1, <1>2, <1>5, StartKeeps
  <1>6. CASE \E c \in Caller : CallerStep(c)
    BY <1>6, FindKeeps, BuildKeeps, IssueKeeps, SucceedsKeeps, FailsKeeps DEF CallerStep
  <1>7. CASE \E s \in 0..(Slots - 1) : Transfer(s)
    BY <1>7, TransferKeeps DEF Slot
  <1>8. CASE TaskFileError
    BY <1>8, ErrorKeeps
  <1>9. CASE UNCHANGED ahciVars
    <2>1. /\ AhciTyped' <=> AhciTyped
          /\ Roles' <=> Roles
      BY <1>9 DEF ahciVars, AhciTyped, CallersTyped, Roles
    <2>2. SlotsOwned' <=> SlotsOwned
      <3>1. \A c : Command(c)' = Command(c)
        BY <1>9 DEF ahciVars, Command, Span
      <3>2. UNCHANGED <<pc, slot, ci, table>>
        BY <1>9 DEF ahciVars
      <3>3. QED
        BY <3>1, <3>2 DEF SlotsOwned, Choosing
    <2>3. DriveAgrees' <=> DriveAgrees
      BY <1>9, Zenon DEF ahciVars, DriveAgrees, Written, Carried
    <2>4. QED
      BY <1>9, <2>1, <2>2, <2>3 DEF IInv, ahciVars
  <1>10. QED
    BY <1>3, <1>4, <1>5, <1>6, <1>7, <1>8, <1>9, Zenon DEF AhciNext

(* While no two callers fill the same slot and the drive reports no error,   *)
(* for any number of callers, slots and sectors: every command in PxCI is    *)
(* the one its caller built and waits for, with its buffer allocated, and    *)
(* between the calls of programs the drive holds what their writes put there *)
(* (ahci_find_cmdslot, ahci_read_sectors, ahci_vfs_write).                   *)
THEOREM CommandsStayOwned == AhciSpec => []CommandsOwned
  <1>1. IInv => CommandsOwned
    <2> SUFFICES ASSUME IInv, ~clash, ~stopped PROVE CommandsOwned
      BY DEF CommandsOwned
    <2>1. AhciTyped /\ SlotsOwned /\ DriveAgrees
      BY DEF IInv
    <2>2. ASSUME NEW s \in ci
          PROVE  \E c \in Caller : /\ pc[c] = "wait" /\ slot[c] = s
                                   /\ table[s] = Command(c) /\ mem[c] # <<>>
      <3> DEFINE c == table[s].caller
      <3>1. c \in Caller
        BY <2>1 DEF AhciTyped, CallersTyped, TableType
      <3>2. pc[c] = "wait" /\ slot[c] = s /\ table[s] = Command(c)
        BY <2>1 DEF SlotsOwned
      <3>3. mem[c] # <<>>
        BY <3>1, <3>2, Units DEF IInv, Roles, Busy
      <3>4. QED
        BY <3>1, <3>2, <3>3
    <2>3. ASSUME \A c \in Program : pc[c] = "idle" PROVE media = want
      BY <2>1, <2>3 DEF DriveAgrees, Written, Carried
    <2>4. QED
      BY <2>2, <2>3 DEF CommandsOwned
  <1>2. QED
    BY InitIInv, NextIInv, <1>1, PTL DEF AhciSpec
=============================================================================
