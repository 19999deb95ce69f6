-------------------------------- MODULE Pic --------------------------------
(***************************************************************************)
(* The interrupt controllers of src/patches/src/hardware/pic.cpp: two 8259s *)
(* (the slave's output is one line of the master), the delayed check that   *)
(* hands a request to the CPU, and the guest's and the devices' calls.      *)
(*                                                                         *)
(* A register is the set of lines whose bit is 1.  imrr and isrr, the code's *)
(* complements of imr and isr, are recomputed wherever imr and isr change,  *)
(* so they are definitions here.                                           *)
(***************************************************************************)
EXTENDS Integers, FiniteSets

CONSTANTS
    NLines,                   \* lines of one controller (8 in the hardware)
    Arch,                     \* "at", "pc98" or "xt": where the cascade is wired
    Irqs,                     \* the IRQ numbers the devices of a model use
    EdgeIrqs,                 \* those a device may switch to edge filtering
    MaskIrqs,                 \* those the BIOS and drivers mask and unmask
    Masks,                    \* the masks the guest writes (bounds a model)
    SpecialMask,              \* the special-mask settings the guest may select
    Icws,                     \* the <<single, words>> pairs an ICW1 may carry
    AutoEois,                 \* the auto-EOI settings an ICW4 may carry
    NeverMarkCascade,         \* "cascade interrupt never in service"
    IgnoreCascade,            \* "cascade interrupt ignore in service"
    Hacked                    \* IRQ numbers with the cs_equ_ds dispatch hack

Lines   == 0 .. NLines - 1
Irq16   == 0 .. 2 * NLines - 1
Cascade == IF Arch = "at" THEN 2 ELSE IF Arch = "pc98" THEN NLines - 1 ELSE -1
HasSlave == Arch # "xt"
Chips   == {"master", "slave"}

ASSUME PicAssumption ==
    /\ NLines \in Nat /\ NLines > 2
    /\ Arch \in {"at", "pc98", "xt"}
    /\ Irqs \subseteq Irq16
    /\ EdgeIrqs \subseteq Irq16
    /\ MaskIrqs \subseteq Irq16
    /\ Masks \subseteq SUBSET Lines
    /\ SpecialMask \subseteq BOOLEAN
    /\ Icws \subseteq BOOLEAN \X {2, 3}
    /\ AutoEois \subseteq BOOLEAN
    /\ NeverMarkCascade \in BOOLEAN
    /\ IgnoreCascade \in BOOLEAN
    /\ Hacked \subseteq Irq16

VARIABLES
    master, slave,      \* the PIC_Controllers
    irqCheck,           \* PIC_IRQCheck: the CPU loop must call PIC_runIRQs
    irqCheckPending,    \* PIC_IRQCheckPending: PIC_IRQCheckDelayed is queued
    accepting           \* IF is set, no trap decoder, no NMI: the CPU takes IRQs

vars == <<master, slave, irqCheck, irqCheckPending, accepting>>

Chip == [irr : SUBSET Lines, imr : SUBSET Lines, isr : SUBSET Lines,
         input : SUBSET Lines, edge : SUBSET Lines, isr_ignore : SUBSET Lines,
         active_irq : 0 .. NLines, special : BOOLEAN, auto_eoi : BOOLEAN,
         icw_index : 0 .. 3, icw_words : {0, 2, 3}, single : BOOLEAN]

LowestLine(S) == CHOOSE l \in S : \A k \in S : l <= k

----------------------------------------------------------------------------
(* One controller: what may be delivered, and what each method leaves.      *)

\* (irr & imrr) & isrr
Possible(p) == (p.irr \ p.imr) \cap ((Lines \ p.isr) \cup p.isr_ignore)

\* the first line that may not interrupt what is in service
Limit(p) == IF p.special THEN NLines
            ELSE IF p.active_irq \in p.isr_ignore THEN p.active_irq + 1
            ELSE p.active_irq

Deliverable(p) == {l \in Possible(p) : l < Limit(p)}

Filtered(p, l) == l \in p.edge \cap p.input

Raised(p, l) ==
    IF Filtered(p, l) THEN p
    ELSE [p EXCEPT !.input = @ \cup {l}, !.irr = @ \cup {l}]

\* Mutant: the master's ignored cascade is compared like any other line.
RaiseForgetsIgnore(p, l) ==
    /\ ~Filtered(p, l)
    /\ l \notin p.irr
    /\ l \in Possible(Raised(p, l))
    /\ p.special \/ l < p.active_irq

\* raise_irq calls activate
RaiseActivates(p, l) ==
    /\ ~Filtered(p, l)
    /\ l \notin p.irr
    /\ l \in Possible(Raised(p, l))
    /\ p.special \/ l < p.active_irq \/ l \in p.isr_ignore

Lowered(p, l) == [p EXCEPT !.input = @ \ {l}, !.irr = @ \ {l}]

\* lower_irq calls check_for_irq
LowerChecks(p, l) == l \in Possible(p) /\ (p.special \/ l < p.active_irq)

\* Mutant: acknowledging one request clears the request register.
StartedClearsAll(p, l) ==
    IF p.auto_eoi THEN [p EXCEPT !.irr = {}]
    ELSE [p EXCEPT !.irr = {}, !.isr = @ \cup {l}, !.active_irq = l]

Started(p, l) ==
    IF p.auto_eoi THEN [p EXCEPT !.irr = @ \ {l}]
    ELSE [p EXCEPT !.irr = @ \ {l}, !.isr = @ \cup {l}, !.active_irq = l]

\* Mutant: an EOI resets active_irq instead of recomputing it.
EndedResetsPriority(p, l) == [p EXCEPT !.isr = @ \ {l}, !.active_irq = NLines]

\* isr after an EOI of line l, and update_active_irq
Ended(p, l) ==
    LET isr == p.isr \ {l}
    IN  [p EXCEPT !.isr = isr,
                  !.active_irq = IF isr = {} THEN NLines ELSE LowestLine(isr)]

----------------------------------------------------------------------------
(* What the slave's check_for_irq (activate or deactivate) does to the master. *)

Cascaded(m, s) ==
    IF Deliverable(s) # {} THEN Raised(m, Cascade)
    ELSE IF s.irr \subseteq s.imr THEN Lowered(m, Cascade)
    ELSE m

CascadeActivates(m, s) ==
    IF Deliverable(s) # {} THEN RaiseActivates(m, Cascade)
    ELSE /\ s.irr \subseteq s.imr
         /\ LowerChecks(m, Cascade)
         /\ Deliverable(Lowered(m, Cascade)) # {}

\* PIC_Controller::activate of the master: queue one delayed check
Signal(activates) == irqCheckPending' = (irqCheckPending \/ activates)

\* Controller c becomes p; its check_for_irq runs when "check" holds.
Commit(c, p, check) ==
    IF c = "master"
    THEN /\ master' = p
         /\ slave' = slave
         /\ Signal(check /\ Deliverable(p) # {})
    ELSE /\ slave' = p
         /\ master' = IF check THEN Cascaded(master, p) ELSE master
         /\ Signal(check /\ CascadeActivates(master, p))

Controller(c) == IF c = "master" THEN master ELSE slave

CPUUnchanged == UNCHANGED <<irqCheck, accepting>>

----------------------------------------------------------------------------
(* Reset *)

NewChip(unmasked, ignored) ==
    [irr |-> {}, imr |-> Lines \ unmasked, isr |-> {}, input |-> {},
     edge |-> {}, isr_ignore |-> ignored, active_irq |-> NLines,
     special |-> FALSE, auto_eoi |-> FALSE, icw_index |-> 0,
     icw_words |-> 0, single |-> FALSE]

ResetMaster ==
    IF HasSlave THEN NewChip({0, 1, Cascade}, IF IgnoreCascade THEN {Cascade} ELSE {})
    ELSE NewChip({0, 1}, {})
ResetSlave == NewChip({0}, {})

\* A reset forgets the check it was asked for, not the check still queued.
PIC_Reset ==
    /\ master' = ResetMaster
    /\ slave' = ResetSlave
    /\ irqCheck' = FALSE
    /\ UNCHANGED <<irqCheckPending, accepting>>

Init ==
    /\ master = ResetMaster
    /\ slave = ResetSlave
    /\ irqCheck = FALSE
    /\ irqCheckPending = FALSE
    /\ accepting = FALSE

----------------------------------------------------------------------------
(* The devices: PIC_ActivateIRQ, PIC_DeActivateIRQ, PIC_EdgeTrigger.        *)

\* IRQ 2 of the XT bus is IRQ 9 on the AT; the cascade of a PC-98 is no IRQ.
Routed(irq) ==
    IF Arch = "at" /\ irq = 2 THEN NLines + 1
    ELSE IF Arch = "xt" /\ irq = NLines + 1 THEN 2
    ELSE irq
Routable(irq) ==
    /\ Arch = "pc98" => irq # Cascade
    /\ Arch = "xt" => Routed(irq) < NLines
ChipOf(n) == IF n < NLines THEN "master" ELSE "slave"
LineOf(n) == IF n < NLines THEN n ELSE n - NLines

PIC_ActivateIRQ(irq) ==
    /\ Routable(irq)
    /\ LET c == ChipOf(Routed(irq))
           l == LineOf(Routed(irq))
           p == Raised(Controller(c), l)
           activates == RaiseActivates(Controller(c), l)
       IN  IF c = "master"
           THEN master' = p /\ slave' = slave /\ Signal(activates)
           ELSE /\ slave' = p
                /\ master' = IF activates THEN Raised(master, Cascade) ELSE master
                /\ Signal(activates /\ RaiseActivates(master, Cascade))
    /\ CPUUnchanged

PIC_DeActivateIRQ(irq) ==
    /\ Routable(irq)
    /\ LET c == ChipOf(Routed(irq))
           l == LineOf(Routed(irq))
       IN  Commit(c, Lowered(Controller(c), l), LowerChecks(Controller(c), l))
    /\ CPUUnchanged

PIC_EdgeTrigger(irq, set) ==
    /\ Routable(irq)
    /\ LET c == ChipOf(Routed(irq))
           l == LineOf(Routed(irq))
       IN  Commit(c, [Controller(c) EXCEPT !.edge = IF set THEN @ \cup {l} ELSE @ \ {l}],
                  FALSE)
    /\ CPUUnchanged

----------------------------------------------------------------------------
(* The guest's port writes.  Only the ports of installed controllers exist.  *)

Installed == IF HasSlave THEN Chips ELSE {"master"}

\* set_imr: check when a changed bit is a request that is not in service
SetImr(c, mask) ==
    LET p == Controller(c)
        change == (p.imr \ mask) \cup (mask \ p.imr)
        unserved == (Lines \ p.isr) \cup p.isr_ignore
    IN  Commit(c, [p EXCEPT !.imr = mask], p.irr \cap change \cap unserved # {})

\* ICW1 unmasks every line and starts the initialisation sequence.
WriteICW1(c, single, words) ==
    /\ LET p == Controller(c)
           cleared == [p EXCEPT !.imr = {}]
           q == [cleared EXCEPT !.single = single, !.icw_index = 1, !.icw_words = words]
       IN  Commit(c, q, (p.irr \cap p.imr) \cap ((Lines \ p.isr) \cup p.isr_ignore) # {})
    /\ CPUUnchanged

\* OCW3, special mask select
WriteSpecialMask(c, on) ==
    /\ Commit(c, [Controller(c) EXCEPT !.special = on], TRUE)
    /\ CPUUnchanged

\* Mutant: an EOI does not look for requests it uncovers.
EndOfInterruptNoCheck(c, l) == Commit(c, Ended(Controller(c), l), FALSE)

\* check_after_EOI
EndOfInterrupt(c, l) ==
    LET p == Ended(Controller(c), l) IN Commit(c, p, Possible(p) # {})

SpecificEOI(c, l) == EndOfInterrupt(c, l) /\ CPUUnchanged

NonspecificEOI(c) ==
    /\ Controller(c).active_irq # NLines
    /\ EndOfInterrupt(c, Controller(c).active_irq)
    /\ CPUUnchanged

WriteMask(c, mask) ==
    /\ Controller(c).icw_index = 0
    /\ SetImr(c, mask)
    /\ CPUUnchanged

\* What follows icw_index after the word it stands for has been written.
NextIcw(p) ==
    IF p.icw_index >= p.icw_words THEN 0
    ELSE IF p.icw_index = 1 /\ p.single THEN 3
    ELSE p.icw_index + 1

\* ICW2 (the vector base) and ICW3 change only the index.
WriteICW23(c) ==
    LET p == Controller(c)
    IN  /\ p.icw_index \in {1, 2}
        /\ Commit(c, [p EXCEPT !.icw_index = NextIcw(p)], FALSE)
        /\ CPUUnchanged

WriteICW4(c, autoEoi) ==
    LET p == Controller(c)
    IN  /\ p.icw_index = 3
        /\ Commit(c, [p EXCEPT !.auto_eoi = autoEoi, !.icw_index = NextIcw(p)], FALSE)
        /\ CPUUnchanged

\* The BIOS and the mouse driver mask and unmask single lines themselves.
PIC_SetIRQMask(irq, masked) ==
    LET c == ChipOf(irq)
        l == LineOf(irq)
        imr == Controller(c).imr
    IN  SetImr(c, IF masked THEN imr \cup {l} ELSE imr \ {l}) /\ CPUUnchanged

----------------------------------------------------------------------------
(* The CPU side *)

PIC_IRQCheckDelayed ==
    /\ irqCheckPending
    /\ irqCheck' = TRUE
    /\ irqCheckPending' = FALSE
    /\ UNCHANGED <<master, slave, accepting>>

\* The lines of controller p the dispatch loop does not skip, when cs = ds
\* or not decides the cs_equ_ds hack.
Candidates(p, first, csEquDs) ==
    {l \in Deliverable(p) : csEquDs \/ first + l \notin Hacked}

MasterStarted(l) ==
    IF NeverMarkCascade /\ l = Cascade
    THEN [master EXCEPT !.irr = @ \ {l}]
    ELSE Started(master, l)

\* The slave after slave_startIRQ.  With nothing deliverable the code lowers
\* the slave's own line whose number is that of the cascade.
SlaveStarted(csEquDs) ==
    LET cand == Candidates(slave, NLines, csEquDs)
    IN  IF cand # {} THEN Started(slave, LowestLine(cand))
        ELSE IF Deliverable(slave) = {} THEN Lowered(slave, Cascade)
        ELSE slave

\* Mutant: a dispatch does not ask for the next check.
AfterDispatchNoRecheck(m, s, found, taken) ==
    LET m2 == IF s.auto_eoi THEN Cascaded(m, s) ELSE m
    IN  /\ master' = m2
        /\ slave' = s
        /\ irqCheck' = FALSE
        /\ Signal(s.auto_eoi /\ CascadeActivates(m, s))
        /\ accepting' = (accepting /\ ~taken)

\* Dispatch of the master's line i, m and s being the controllers after it:
\* the auto-EOI checks, then PIC_IRQCheck = 0 and another delayed check.
AfterDispatch(m, s, found, taken) ==
    LET m2 == IF s.auto_eoi THEN Cascaded(m, s) ELSE m
    IN  /\ master' = m2
        /\ slave' = s
        /\ irqCheck' = FALSE
        /\ Signal(\/ found
                  \/ s.auto_eoi /\ CascadeActivates(m, s)
                  \/ m2.auto_eoi /\ Deliverable(m2) # {})
        /\ accepting' = (accepting /\ ~taken)

Runnable == accepting /\ irqCheck

RunNone(csEquDs) ==
    /\ Runnable
    /\ Candidates(master, 0, csEquDs) = {}
    /\ AfterDispatch(master, slave, FALSE, FALSE)

RunMaster(csEquDs) ==
    LET cand == Candidates(master, 0, csEquDs)
    IN  /\ Runnable
        /\ cand # {}
        /\ LowestLine(cand) # Cascade
        /\ AfterDispatch(MasterStarted(LowestLine(cand)), slave, TRUE, TRUE)

RunSlave(csEquDs) ==
    LET cand == Candidates(master, 0, csEquDs)
        taken == Candidates(slave, NLines, csEquDs) # {}
    IN  /\ Runnable
        /\ cand # {}
        /\ LowestLine(cand) = Cascade
        /\ AfterDispatch(IF taken THEN MasterStarted(Cascade) ELSE master,
                         SlaveStarted(csEquDs), TRUE, taken)

PIC_runIRQs ==
    \E csEquDs \in BOOLEAN :
        RunNone(csEquDs) \/ RunMaster(csEquDs) \/ RunSlave(csEquDs)

\* STI, CLI, IRET, the trap decoder and NMIs: what the guest's CPU does.
CPUSetsAccepting(b) ==
    /\ accepting # b
    /\ accepting' = b
    /\ UNCHANGED <<master, slave, irqCheck, irqCheckPending>>

----------------------------------------------------------------------------
Device ==
    \/ \E irq \in Irqs : PIC_ActivateIRQ(irq) \/ PIC_DeActivateIRQ(irq)
    \/ \E irq \in EdgeIrqs, set \in BOOLEAN : PIC_EdgeTrigger(irq, set)

Program ==
    \E c \in Installed :
        \/ \E icw \in Icws : WriteICW1(c, icw[1], icw[2])
        \/ \E on \in SpecialMask : WriteSpecialMask(c, on)
        \/ \E l \in Lines : SpecificEOI(c, l)
        \/ NonspecificEOI(c)
        \/ \E mask \in Masks : WriteMask(c, mask)
        \/ WriteICW23(c)
        \/ \E autoEoi \in AutoEois : WriteICW4(c, autoEoi)

Firmware == \E irq \in MaskIrqs, masked \in BOOLEAN : PIC_SetIRQMask(irq, masked)

CPU == PIC_runIRQs \/ \E b \in BOOLEAN : CPUSetsAccepting(b)

Next == Device \/ Program \/ Firmware \/ PIC_IRQCheckDelayed \/ CPU \/ PIC_Reset

Spec == Init /\ [][Next]_vars

\* The machine loop keeps running the event queue and, with PIC_IRQCheck set,
\* PIC_runIRQs; nothing is assumed of the guest or of the devices.
FairSpec == Spec /\ WF_vars(PIC_IRQCheckDelayed) /\ WF_vars(PIC_runIRQs)

----------------------------------------------------------------------------
(* Correctness *)

\* Every variable and register holds a value of its type.
TypeOK ==
    /\ master \in Chip
    /\ slave \in Chip
    /\ irqCheck \in BOOLEAN
    /\ irqCheckPending \in BOOLEAN
    /\ accepting \in BOOLEAN

\* active_irq, the cached priority every raise and every dispatch compares
\* with, stays what isr says: no line, or a line that is in service.
ActiveInService(p) ==
    IF p.isr = {} THEN p.active_irq = NLines ELSE p.active_irq \in p.isr
ActiveMatchesService == ActiveInService(master) /\ ActiveInService(slave)

\* No lost wakeup: a request the master could deliver now always has a check
\* under way, whatever raising, lowering, masking, EOI and dispatch came before.
NoLostInterrupt ==
    Hacked = {} /\ Deliverable(master) # {} => irqCheck \/ irqCheckPending

\* A request the slave could deliver now is requested of the master, or the
\* slave still has an interrupt in service whose EOI will request it.
SlaveReachesMaster ==
    HasSlave /\ Hacked = {} /\ Deliverable(slave) # {} =>
        \/ Cascade \in master.irr
        \/ slave.special /\ slave.isr # {}

\* Without a slave its registers stay idle, although masks are set on it.
NoSlaveIdle == HasSlave \/ (slave.irr = {} /\ ~slave.auto_eoi)

\* What each step preserves, and all the proofs of NoLostInterrupt need.
PicInv == TypeOK /\ ActiveMatchesService /\ NoLostInterrupt /\ NoSlaveIdle

\* Fully nested mode: without the special mask mode a line enters service
\* only above every line already in service.
FullyNested ==
    [][\A p \in {<<master, master'>>, <<slave, slave'>>} :
          SpecialMask \subseteq {FALSE} =>
              \A l \in p[2].isr \ p[1].isr, k \in p[1].isr \cap p[2].isr : l < k]_vars

\* The device requests a step forgets.  The slave's line numbered like the
\* cascade is left out: slave_startIRQ clears it (see SpuriousCascadeIsCleared).
Forgotten ==
    {<<"master", l>> : l \in (master.irr \ master'.irr) \ {Cascade}} \cup
    {<<"slave", l>> : l \in (slave.irr \ slave'.irr) \ {Cascade}}

\* No request is forgotten: only its device or a reset withdraws it, and a
\* dispatch consumes one and only if it interrupts the CPU.
OneRequestPerInterrupt ==
    [][\/ PIC_Reset
       \/ \E irq \in Irqs : PIC_DeActivateIRQ(irq)
       \/ Forgotten = {}
       \/ PIC_runIRQs /\ ~accepting' /\ Cardinality(Forgotten) = 1]_vars

\* Whether the master would pass on what the slave requested of it.
CascadeOpen ==
    /\ Cascade \in (Lines \ master.imr) \cap ((Lines \ master.isr) \cup master.isr_ignore)
    /\ Cascade < Limit(master)

\* The requests of devices that may interrupt what is in service.
Waiting ==
    {<<"master", l>> : l \in Deliverable(master) \ {Cascade}} \cup
    {<<"slave", l>> : l \in {k \in Deliverable(slave) : CascadeOpen}}

\* The slave's lines come in the place of the cascade.
Rank(request) ==
    IF request[1] = "slave" THEN Cascade + request[2]
    ELSE IF request[2] < Cascade THEN request[2]
    ELSE request[2] + NLines

\* The requests the CPU is interrupted for.
Consumed ==
    {<<"master", l>> : l \in (master.irr \ master'.irr) \ {Cascade}} \cup
    {<<"slave", l>> : l \in slave.irr \ slave'.irr}

\* The CPU is interrupted for a request that waits, and for the highest of those
\* of both controllers: the master's copy of what the slave has is never so stale
\* that a lower line of the master goes first. (A slave in special mask mode with
\* a line in service does not tell the master of what it could deliver.)
HighestFirst ==
    [][Hacked = {} /\ PIC_runIRQs /\ accepting /\ ~accepting' =>
         /\ Consumed # {} /\ Consumed \subseteq Waiting
         /\ \/ slave.special /\ slave.isr # {}
            \/ \A t \in Consumed, w \in Waiting : Rank(t) <= Rank(w)]_vars

\* A spurious cascade: the master's cascade request without a slave request.
SpuriousCascade == Cascade \in Deliverable(master) /\ Deliverable(slave) = {}

\* A CPU that keeps accepting interrupts does not leave a request of either
\* controller waiting forever, unless a spurious cascade is in its way or the
\* slave in special mask mode keeps it to itself.
WaitingIsTaken ==
    ~<>[](accepting /\ ~SpuriousCascade /\ ~(slave.special /\ slave.isr # {}) /\ Waiting # {})

----------------------------------------------------------------------------
(* What the source says of itself and the code does not do.                 *)

\* pic.cpp:525 "clear it": after a dispatch found the cascade requested with
\* nothing to deliver on the slave, the cascade request is gone.
SpuriousCascadeIsCleared ==
    [][Runnable /\ RunSlave(TRUE) /\ SpuriousCascade => Cascade \notin master'.irr]_vars
=============================================================================
