----------------------------- MODULE PicProofs -----------------------------
(* Proofs about Pic, for any number of lines and any wiring: its types, the  *)
(* cached priority, that no deliverable request is left without a check, that *)
(* the slave's requests reach the master, that the highest of both goes first, *)
(* that service nests, and that no request is forgotten.                      *)
EXTENDS Pic, FiniteSetTheorems, WellFoundedInduction, TLAPS

----------------------------------------------------------------------------
(* Lines *)

\* The cascade, where there is one, is a line of the master.
LEMMA CascadeIsLine == HasSlave => Cascade \in Lines
  BY PicAssumption DEF HasSlave, Cascade, Lines

\* A non-empty set of lines has a lowest one.
LEMMA LowestLineIn ==
  ASSUME NEW S \in SUBSET Lines, S # {}
  PROVE  LowestLine(S) \in S /\ \A k \in S : LowestLine(S) <= k
<1>1. S \subseteq Nat
  BY PicAssumption DEF Lines
<1>2. PICK l \in S : \A k \in S : ~ (<<k, l>> \in OpToRel(<, Nat))
  BY <1>1, NatLessThanWellFounded, WFMin
<1>3. ASSUME NEW k \in S PROVE l <= k
  <2>1. k \in Nat /\ l \in Nat
    BY <1>1
  <2>2. ~ (k < l)
    BY <1>2, <2>1, Zenon DEF OpToRel
  <2>. QED
    BY <2>1, <2>2
<1>. QED
  BY <1>3 DEF LowestLine

\* A routed IRQ is a line of the controller it is routed to.
LEMMA RoutedLine ==
  ASSUME NEW irq \in Irq16
  PROVE  LineOf(Routed(irq)) \in Lines /\ LineOf(irq) \in Lines
  BY PicAssumption DEF Irq16, LineOf, Routed, Lines

----------------------------------------------------------------------------
(* The methods of a controller keep its type. *)

LEMMA RaisedType ==
  ASSUME NEW p \in Chip, NEW l \in Lines
  PROVE  Raised(p, l) \in Chip
  BY DEF Raised, Chip

LEMMA LoweredType ==
  ASSUME NEW p \in Chip, NEW l \in Lines
  PROVE  Lowered(p, l) \in Chip
<1>. p.irr \ {l} \in SUBSET Lines /\ p.input \ {l} \in SUBSET Lines
  BY DEF Chip
<1>. QED
  BY DEF Lowered, Chip

\* A controller whose service registers change is a controller.
LEMMA ServiceType ==
  ASSUME NEW p \in Chip, NEW irr \in SUBSET Lines, NEW isr \in SUBSET Lines,
         NEW active \in 0 .. NLines
  PROVE  [p EXCEPT !.irr = irr, !.isr = isr, !.active_irq = active] \in Chip
<1>1. [p EXCEPT !.irr = irr] \in Chip
  BY DEF Chip
<1>2. ASSUME NEW q \in Chip PROVE [q EXCEPT !.isr = isr] \in Chip
  BY DEF Chip
<1>3. ASSUME NEW q \in Chip PROVE [q EXCEPT !.active_irq = active] \in Chip
  BY DEF Chip
<1>. QED
  BY <1>1, <1>2, <1>3, Zenon

LEMMA StartedType ==
  ASSUME NEW p \in Chip, NEW l \in Lines
  PROVE  Started(p, l) \in Chip
<1>1. p.irr \ {l} \in SUBSET Lines /\ p.isr \cup {l} \in SUBSET Lines
  BY DEF Chip
<1>2. l \in 0 .. NLines
  BY PicAssumption DEF Lines
<1>3. [p EXCEPT !.irr = p.irr \ {l}] \in Chip
  BY <1>1 DEF Chip
<1>4. [p EXCEPT !.irr = p.irr \ {l}, !.isr = p.isr \cup {l}, !.active_irq = l] \in Chip
  BY <1>1, <1>2, ServiceType
<1>. QED
  BY <1>3, <1>4, Zenon DEF Started

LEMMA EndedType ==
  ASSUME NEW p \in Chip, NEW l
  PROVE  Ended(p, l) \in Chip
<1>. DEFINE isr == p.isr \ {l}
            active == IF isr = {} THEN NLines ELSE LowestLine(isr)
<1>1. isr \in SUBSET Lines
  BY DEF Chip
<1>2. active \in 0 .. NLines
  BY <1>1, LowestLineIn, PicAssumption DEF Lines
<1>3. [p EXCEPT !.isr = isr] \in Chip
  BY <1>1 DEF Chip
<1>4. ASSUME NEW q \in Chip PROVE [q EXCEPT !.active_irq = active] \in Chip
  BY <1>2 DEF Chip
<1>. QED
  BY <1>3, <1>4, Zenon DEF Ended

LEMMA CascadedType ==
  ASSUME HasSlave, NEW m \in Chip, NEW s \in Chip
  PROVE  Cascaded(m, s) \in Chip
  BY CascadeIsLine, RaisedType, LoweredType DEF Cascaded

----------------------------------------------------------------------------
(* active_irq goes with isr. *)

LEMMA RaisedActive ==
  ASSUME NEW p \in Chip, NEW l
  PROVE  /\ Raised(p, l).isr = p.isr /\ Raised(p, l).active_irq = p.active_irq
         /\ Lowered(p, l).isr = p.isr /\ Lowered(p, l).active_irq = p.active_irq
  BY DEF Raised, Lowered, Chip

LEMMA StartedActive ==
  ASSUME NEW p \in Chip, NEW l \in Lines, ActiveInService(p)
  PROVE  ActiveInService(Started(p, l))
  BY DEF ActiveInService, Started, Chip

LEMMA EndedActive ==
  ASSUME NEW p \in Chip, NEW l
  PROVE  ActiveInService(Ended(p, l))
<1>1. p.isr \ {l} \in SUBSET Lines
  BY DEF Chip
<1>2. p.isr \ {l} # {} => LowestLine(p.isr \ {l}) \in p.isr \ {l}
  BY <1>1, LowestLineIn
<1>. QED
  BY <1>2 DEF ActiveInService, Ended, Chip

LEMMA CascadedActive ==
  ASSUME NEW m \in Chip, NEW s, ActiveInService(m)
  PROVE  ActiveInService(Cascaded(m, s))
  BY RaisedActive DEF ActiveInService, Cascaded

----------------------------------------------------------------------------
(* What a method makes deliverable, it signals. *)

LEMMA RaisedDeliverable ==
  ASSUME NEW p \in Chip, NEW l \in Lines, Deliverable(Raised(p, l)) # {}
  PROVE  RaiseActivates(p, l) \/ Deliverable(p) # {}
<1>1. CASE Filtered(p, l)
  BY <1>1 DEF Raised
<1>2. CASE ~Filtered(p, l)
  <2>. DEFINE q == Raised(p, l)
  <2>1. /\ q \in Chip
        /\ q.irr = p.irr \cup {l} /\ q.imr = p.imr /\ q.isr = p.isr
        /\ q.isr_ignore = p.isr_ignore /\ q.special = p.special
        /\ q.active_irq = p.active_irq
    BY <1>2, RaisedType DEF Raised, Chip
  <2>2. Limit(q) = Limit(p)
    BY <2>1 DEF Limit
  <2>3. PICK k \in Possible(q) : k < Limit(p)
    BY <2>2 DEF Deliverable
  <2>4. k # l \/ l \in p.irr => k \in Possible(p)
    BY <2>1, <2>3 DEF Possible
  <2>5. ASSUME k = l, l \notin p.irr PROVE RaiseActivates(p, l)
    <3>1. l < Limit(p) => p.special \/ l < p.active_irq \/ l \in p.isr_ignore
      BY PicAssumption DEF Limit, Lines, Chip
    <3>. QED
      BY <1>2, <2>3, <2>5, <3>1 DEF RaiseActivates
  <2>. QED
    BY <2>3, <2>4, <2>5 DEF Deliverable
<1>. QED
  BY <1>1, <1>2

LEMMA LoweredDeliverable ==
  ASSUME NEW p \in Chip, NEW l
  PROVE  Deliverable(Lowered(p, l)) \subseteq Deliverable(p)
<1>1. LET q == Lowered(p, l)
      IN  /\ q.irr = p.irr \ {l} /\ q.imr = p.imr /\ q.isr = p.isr
          /\ q.isr_ignore = p.isr_ignore /\ q.special = p.special
          /\ q.active_irq = p.active_irq
  BY DEF Lowered, Chip
<1>. QED
  BY <1>1 DEF Deliverable, Possible, Limit

LEMMA CascadedDeliverable ==
  ASSUME HasSlave, NEW m \in Chip, NEW s, Deliverable(Cascaded(m, s)) # {}
  PROVE  CascadeActivates(m, s) \/ Deliverable(m) # {}
<1>1. CASE Deliverable(s) # {}
  BY <1>1, CascadeIsLine, RaisedDeliverable DEF Cascaded, CascadeActivates
<1>2. CASE Deliverable(s) = {} /\ s.irr \subseteq s.imr
  BY <1>2, LoweredDeliverable DEF Cascaded
<1>3. CASE Deliverable(s) = {} /\ ~(s.irr \subseteq s.imr)
  BY <1>3 DEF Cascaded
<1>. QED
  BY <1>1, <1>2, <1>3

LEMMA MaskDeliverable ==
  ASSUME NEW p \in Chip, NEW mask \in SUBSET Lines,
         Deliverable([p EXCEPT !.imr = mask]) # {}
  PROVE  \/ Deliverable(p) # {}
         \/ p.irr \cap ((p.imr \ mask) \cup (mask \ p.imr))
                  \cap ((Lines \ p.isr) \cup p.isr_ignore) # {}
<1>. DEFINE q == [p EXCEPT !.imr = mask]
<1>1. /\ q.irr = p.irr /\ q.imr = mask /\ q.isr = p.isr
      /\ q.isr_ignore = p.isr_ignore /\ q.special = p.special
      /\ q.active_irq = p.active_irq
  BY DEF Chip
<1>2. Limit(q) = Limit(p)
  BY <1>1 DEF Limit
<1>3. PICK k \in Possible(q) : k < Limit(p)
  BY <1>2 DEF Deliverable
<1>4. k \in p.irr /\ k \notin mask /\ k \in (Lines \ p.isr) \cup p.isr_ignore
  BY <1>1, <1>3 DEF Possible
<1>5. k \notin p.imr => k \in Deliverable(p)
  BY <1>3, <1>4 DEF Possible, Deliverable
<1>. QED
  BY <1>4, <1>5

----------------------------------------------------------------------------
(* Commit and AfterDispatch, through which the actions change controllers. *)

\* A controller with no deliverable request added unless it is checked may be
\* committed.
LEMMA CommitInv ==
  ASSUME PicInv, CPUUnchanged,
         NEW c \in Chips, NEW p \in Chip, NEW check \in BOOLEAN,
         Commit(c, p, check), ActiveInService(p),
         c = "master" /\ Deliverable(p) # {} => check \/ Deliverable(master) # {},
         c = "slave" /\ ~HasSlave => p.irr = {} /\ ~p.auto_eoi /\ ~check
  PROVE  PicInv'
<1>. USE DEF PicInv, TypeOK, ActiveMatchesService, CPUUnchanged
<1>1. irqCheckPending' \in BOOLEAN /\ irqCheck' \in BOOLEAN /\ accepting' \in BOOLEAN
  BY DEF Commit, Signal
<1>2. CASE c = "master"
  <2>1. master' = p /\ slave' = slave
        /\ irqCheckPending' = (irqCheckPending \/ (check /\ Deliverable(p) # {}))
    BY <1>2 DEF Commit, Signal
  <2>2. NoLostInterrupt'
    BY <1>2, <2>1 DEF NoLostInterrupt
  <2>3. NoSlaveIdle'
    BY <2>1 DEF NoSlaveIdle
  <2>. QED
    BY <1>1, <2>1, <2>2, <2>3
<1>3. CASE c = "slave"
  <2>1. /\ slave' = p
        /\ master' = IF check THEN Cascaded(master, p) ELSE master
        /\ irqCheckPending' = (irqCheckPending \/ (check /\ CascadeActivates(master, p)))
    BY <1>3 DEF Commit, Signal
  <2>2. check => HasSlave
    BY <1>3
  <2>3. master' \in Chip /\ ActiveInService(master)'
    BY <2>1, <2>2, CascadedType, CascadedActive
  <2>4. NoLostInterrupt'
    BY <2>1, <2>2, CascadedDeliverable DEF NoLostInterrupt
  <2>5. NoSlaveIdle'
    BY <1>3, <2>1 DEF NoSlaveIdle
  <2>6. slave' \in Chip /\ ActiveInService(slave)'
    BY <2>1 DEF ActiveInService
  <2>. QED
    BY <1>1, <2>3, <2>4, <2>5, <2>6
<1>. QED
  BY <1>2, <1>3 DEF Chips

LEMMA AfterDispatchInv ==
  ASSUME PicInv,
         NEW m \in Chip, NEW s \in Chip, NEW found \in BOOLEAN, NEW taken \in BOOLEAN,
         AfterDispatch(m, s, found, taken),
         ActiveInService(m), ActiveInService(s),
         Hacked = {} /\ Deliverable(m) # {} => found,
         ~HasSlave => s.irr = {} /\ ~s.auto_eoi
  PROVE  PicInv'
<1>. USE DEF PicInv, TypeOK, ActiveMatchesService
<1>. DEFINE m2 == IF s.auto_eoi THEN Cascaded(m, s) ELSE m
<1>1. /\ master' = m2 /\ slave' = s /\ irqCheck' = FALSE
      /\ Signal(\/ found
                \/ s.auto_eoi /\ CascadeActivates(m, s)
                \/ m2.auto_eoi /\ Deliverable(m2) # {})
      /\ accepting' = (accepting /\ ~taken)
  BY Zenon DEF AfterDispatch
<1>0. found \/ (s.auto_eoi /\ CascadeActivates(m, s)) => irqCheckPending'
  BY <1>1, Zenon DEF Signal
<1>2. s.auto_eoi => HasSlave
  BY Zenon
<1>3. m2 \in Chip /\ ActiveInService(m2)
  <2>1. CASE s.auto_eoi
    <3>1. Cascaded(m, s) \in Chip /\ ActiveInService(Cascaded(m, s))
      BY <1>2, <2>1, CascadedType, CascadedActive
    <3>. QED
      BY <2>1, <3>1
  <2>2. CASE ~s.auto_eoi
    BY <2>2
  <2>. QED
    BY <2>1, <2>2
<1>4. NoLostInterrupt'
  <2>1. SUFFICES ASSUME Hacked = {}, Deliverable(m2) # {}
                 PROVE  irqCheckPending'
    BY <1>1 DEF NoLostInterrupt, Deliverable, Possible, Limit
  <2>2. CASE s.auto_eoi
    <3>1. CascadeActivates(m, s) \/ Deliverable(m) # {}
      BY <1>2, <2>1, <2>2, CascadedDeliverable
    <3>. QED
      BY <1>0, <2>1, <2>2, <3>1, Zenon
  <2>3. CASE ~s.auto_eoi
    BY <1>0, <2>1, <2>3, Zenon
  <2>. QED
    BY <2>2, <2>3
<1>5. NoSlaveIdle'
  BY <1>1 DEF NoSlaveIdle
<1>6. irqCheckPending' \in BOOLEAN /\ irqCheck' \in BOOLEAN /\ accepting' \in BOOLEAN
  BY DEF AfterDispatch, Signal
<1>7. /\ master' \in Chip /\ ActiveInService(master)'
      /\ slave' \in Chip /\ ActiveInService(slave)'
  BY <1>1, <1>3 DEF ActiveInService
<1>. QED
  BY <1>4, <1>5, <1>6, <1>7

----------------------------------------------------------------------------
(* The invariant holds initially and every action keeps it. *)

LEMMA NewChipInv ==
  ASSUME NEW unmasked, NEW ignored \in SUBSET Lines
  PROVE  LET p == NewChip(unmasked, ignored)
         IN  /\ p \in Chip /\ ActiveInService(p)
             /\ p.irr = {} /\ ~p.auto_eoi /\ Deliverable(p) = {}
<1>1. NLines \in 0 .. NLines
  BY PicAssumption
<1>. QED
  BY <1>1 DEF NewChip, Chip, ActiveInService, Deliverable, Possible

LEMMA ResetChips ==
  /\ ResetMaster \in Chip /\ ActiveInService(ResetMaster) /\ Deliverable(ResetMaster) = {}
  /\ ResetSlave \in Chip /\ ActiveInService(ResetSlave)
  /\ ResetSlave.irr = {} /\ ~ResetSlave.auto_eoi
  BY NewChipInv, CascadeIsLine DEF ResetMaster, ResetSlave

LEMMA InitInv == Init => PicInv
  BY ResetChips DEF Init, PicInv, TypeOK, ActiveMatchesService, NoLostInterrupt, NoSlaveIdle

LEMMA ResetInv ==
  ASSUME PicInv, PIC_Reset
  PROVE  PicInv'
<1>1. /\ master' \in Chip /\ ActiveInService(master)' /\ Deliverable(master') = {}
      /\ slave' \in Chip /\ ActiveInService(slave)'
      /\ slave'.irr = {} /\ ~slave'.auto_eoi
  BY ResetChips DEF PIC_Reset, ActiveInService
<1>2. /\ irqCheck' = FALSE /\ irqCheckPending' = irqCheckPending
      /\ accepting' = accepting
  BY DEF PIC_Reset
<1>. QED
  BY <1>1, <1>2
  DEF PicInv, TypeOK, ActiveMatchesService, NoLostInterrupt, NoSlaveIdle, Deliverable,
      Possible, Limit

\* The controllers of a good state.
LEMMA Controllers ==
  ASSUME PicInv, NEW c \in Chips
  PROVE  Controller(c) \in Chip /\ ActiveInService(Controller(c))
  BY DEF PicInv, TypeOK, ActiveMatchesService, Controller, Chips

\* A routable IRQ of a machine without a slave is one of the master's lines.
LEMMA RoutableToMaster ==
  ASSUME NEW irq \in Irq16, Routable(irq), ~HasSlave
  PROVE  ChipOf(Routed(irq)) = "master"
  BY PicAssumption DEF Routable, ChipOf, HasSlave

LEMMA ActivateInv ==
  ASSUME PicInv, NEW irq \in Irq16, PIC_ActivateIRQ(irq)
  PROVE  PicInv'
<1>. DEFINE c == ChipOf(Routed(irq))
            l == LineOf(Routed(irq))
            q == Controller(c)
            p == Raised(q, l)
<1>1. c \in Chips /\ l \in Lines
  BY RoutedLine DEF ChipOf, Chips
<1>2. q \in Chip /\ ActiveInService(q)
  BY <1>1, Controllers
<1>3. p \in Chip /\ ActiveInService(p)
  BY <1>1, <1>2, RaisedType, RaisedActive DEF ActiveInService
<1>4. CPUUnchanged /\ Routable(irq)
  BY DEF PIC_ActivateIRQ
<1>5. CASE c = "master"
  <2>1. master' = p /\ slave' = slave /\ Signal(RaiseActivates(q, l)) /\ q = master
    BY <1>5 DEF PIC_ActivateIRQ, Controller
  <2>2. Deliverable(p) # {} => RaiseActivates(q, l) \/ Deliverable(master) # {}
    BY <1>1, <1>2, <2>1, RaisedDeliverable
  <2>3. NoLostInterrupt'
    BY <1>4, <2>1, <2>2
    DEF PicInv, NoLostInterrupt, Signal, CPUUnchanged, Deliverable, Possible, Limit
  <2>. QED
    BY <1>3, <1>4, <2>1, <2>3
    DEF PicInv, TypeOK, ActiveMatchesService, ActiveInService, NoSlaveIdle, Signal, CPUUnchanged
<1>6. CASE c = "slave"
  <2>. DEFINE activates == RaiseActivates(q, l)
              m == IF activates THEN Raised(master, Cascade) ELSE master
  <2>1. HasSlave /\ Cascade \in Lines
    BY <1>4, <1>6, RoutableToMaster, CascadeIsLine
  <2>2. slave' = p /\ master' = m
        /\ Signal(activates /\ RaiseActivates(master, Cascade))
    BY <1>6 DEF PIC_ActivateIRQ
  <2>3. m \in Chip /\ ActiveInService(m)
    BY <2>1, RaisedType, RaisedActive DEF PicInv, TypeOK, ActiveMatchesService, ActiveInService
  <2>4. Deliverable(m) # {} =>
            (activates /\ RaiseActivates(master, Cascade)) \/ Deliverable(master) # {}
    BY <2>1, RaisedDeliverable DEF PicInv, TypeOK
  <2>5. NoLostInterrupt'
    BY <1>4, <2>2, <2>4
    DEF PicInv, NoLostInterrupt, Signal, CPUUnchanged, Deliverable, Possible, Limit
  <2>. QED
    BY <1>3, <1>4, <2>1, <2>2, <2>3, <2>5
    DEF PicInv, TypeOK, ActiveMatchesService, ActiveInService, NoSlaveIdle, Signal, CPUUnchanged
<1>. QED
  BY <1>1, <1>5, <1>6 DEF Chips

LEMMA DeActivateInv ==
  ASSUME PicInv, NEW irq \in Irq16, PIC_DeActivateIRQ(irq)
  PROVE  PicInv'
<1>. DEFINE c == ChipOf(Routed(irq))
            l == LineOf(Routed(irq))
            p == Lowered(Controller(c), l)
            check == LowerChecks(Controller(c), l)
<1>1. c \in Chips /\ l \in Lines
  BY RoutedLine DEF ChipOf, Chips
<1>2. Controller(c) \in Chip /\ ActiveInService(Controller(c))
  BY <1>1, Controllers
<1>3. p \in Chip /\ ActiveInService(p)
  BY <1>1, <1>2, LoweredType, RaisedActive DEF ActiveInService
<1>4. CPUUnchanged /\ Commit(c, p, check)
  BY DEF PIC_DeActivateIRQ
<1>5. c = "master" /\ Deliverable(p) # {} => Deliverable(master) # {}
  BY <1>2, LoweredDeliverable DEF Controller
<1>6. c = "slave" => HasSlave
  BY RoutableToMaster DEF PIC_DeActivateIRQ
<1>7. check \in BOOLEAN
  BY DEF LowerChecks
<1>. QED
  BY <1>1, <1>3, <1>4, <1>5, <1>6, <1>7, CommitInv

\* Changes of the fields that Deliverable does not read.
LEMMA ProgrammedInv ==
  ASSUME PicInv, CPUUnchanged, NEW c \in Chips, NEW p \in Chip, Commit(c, p, FALSE),
         c = "slave" => HasSlave,
         \A f \in {"irr", "imr", "isr", "isr_ignore", "active_irq", "special"} :
             p[f] = Controller(c)[f]
  PROVE  PicInv'
<1>1. /\ p.irr = Controller(c).irr /\ p.imr = Controller(c).imr
      /\ p.isr = Controller(c).isr /\ p.isr_ignore = Controller(c).isr_ignore
      /\ p.active_irq = Controller(c).active_irq /\ p.special = Controller(c).special
  OBVIOUS
<1>2. ActiveInService(p) /\ Deliverable(p) = Deliverable(Controller(c))
  BY <1>1, Controllers DEF ActiveInService, Deliverable, Possible, Limit
<1>. QED
  BY <1>2, CommitInv DEF Controller

LEMMA EdgeInv ==
  ASSUME PicInv, NEW irq \in Irq16, NEW set \in BOOLEAN, PIC_EdgeTrigger(irq, set)
  PROVE  PicInv'
<1>. DEFINE c == ChipOf(Routed(irq))
            l == LineOf(Routed(irq))
            q == Controller(c)
            edge == IF set THEN q.edge \cup {l} ELSE q.edge \ {l}
            p == [q EXCEPT !.edge = edge]
<1>1. c \in Chips /\ l \in Lines
  BY RoutedLine DEF ChipOf, Chips
<1>2. q \in Chip
  BY <1>1, Controllers
<1>3. edge \in SUBSET Lines
  BY <1>1, <1>2 DEF Chip
<1>4. /\ p \in Chip
      /\ \A f \in {"irr", "imr", "isr", "isr_ignore", "active_irq", "special"} : p[f] = q[f]
  <2>. HIDE DEF q, edge
  <2>. QED
    BY <1>2, <1>3 DEF Chip
<1>5. CPUUnchanged /\ Commit(c, p, FALSE)
  BY DEF PIC_EdgeTrigger
<1>6. c = "slave" => HasSlave
  BY RoutableToMaster DEF PIC_EdgeTrigger
<1>. QED
  BY <1>1, <1>4, <1>5, <1>6, ProgrammedInv

LEMMA NextIcwType ==
  ASSUME NEW q \in Chip
  PROVE  NextIcw(q) \in 0 .. 3
<1>1. q.icw_index \in 0 .. 3 /\ q.icw_words \in {0, 2, 3}
  BY DEF Chip
<1>. QED
  BY <1>1 DEF NextIcw

LEMMA InstalledChip ==
  ASSUME NEW c \in Installed
  PROVE  c \in Chips /\ (c = "slave" => HasSlave)
  BY DEF Installed, Chips

LEMMA ICW23Inv ==
  ASSUME PicInv, NEW c \in Installed, WriteICW23(c)
  PROVE  PicInv'
<1>. DEFINE q == Controller(c)
            p == [q EXCEPT !.icw_index = NextIcw(q)]
<1>1. c \in Chips /\ q \in Chip /\ NextIcw(q) \in 0 .. 3
  BY InstalledChip, Controllers, NextIcwType
<1>2. /\ p \in Chip
      /\ \A f \in {"irr", "imr", "isr", "isr_ignore", "active_irq", "special"} : p[f] = q[f]
  <2>. HIDE DEF q
  <2>. QED
    BY <1>1 DEF Chip
<1>. QED
  BY <1>1, <1>2, InstalledChip, ProgrammedInv DEF WriteICW23

LEMMA ICW4Inv ==
  ASSUME PicInv, NEW c \in Installed, NEW autoEoi \in BOOLEAN, WriteICW4(c, autoEoi)
  PROVE  PicInv'
<1>. DEFINE q == Controller(c)
            r == [q EXCEPT !.auto_eoi = autoEoi]
            p == [r EXCEPT !.icw_index = NextIcw(q)]
<1>1. c \in Chips /\ q \in Chip /\ NextIcw(q) \in 0 .. 3
  BY InstalledChip, Controllers, NextIcwType
<1>2. /\ r \in Chip
      /\ \A f \in {"irr", "imr", "isr", "isr_ignore", "active_irq", "special"} : r[f] = q[f]
  <2>. HIDE DEF q
  <2>. QED
    BY <1>1 DEF Chip
<1>3. /\ p \in Chip
      /\ \A f \in {"irr", "imr", "isr", "isr_ignore", "active_irq", "special"} : p[f] = q[f]
  <2>. HIDE DEF q, r
  <2>. QED
    BY <1>1, <1>2 DEF Chip
<1>4. CPUUnchanged /\ Commit(c, p, FALSE)
  BY DEF WriteICW4
<1>. QED
  BY <1>1, <1>3, <1>4, InstalledChip, ProgrammedInv

\* A change of the mask, checked as set_imr checks it.
LEMMA MaskInv ==
  ASSUME PicInv, CPUUnchanged, NEW c \in Chips, NEW mask \in SUBSET Lines, SetImr(c, mask)
  PROVE  PicInv'
<1>. DEFINE q == Controller(c)
            p == [q EXCEPT !.imr = mask]
            check == q.irr \cap ((q.imr \ mask) \cup (mask \ q.imr))
                           \cap ((Lines \ q.isr) \cup q.isr_ignore) # {}
<1>1. q \in Chip /\ ActiveInService(q)
  BY Controllers
<1>2. /\ p \in Chip /\ ActiveInService(p)
      /\ p.irr = q.irr /\ p.auto_eoi = q.auto_eoi
  <2>. HIDE DEF q
  <2>. QED
    BY <1>1 DEF Chip, ActiveInService
<1>3. Commit(c, p, check)
  BY DEF SetImr
<1>4. c = "master" /\ Deliverable(p) # {} => check \/ Deliverable(master) # {}
  BY <1>1, MaskDeliverable DEF Controller
<1>5. c = "slave" /\ ~HasSlave => p.irr = {} /\ ~p.auto_eoi /\ ~check
  BY <1>2, Zenon DEF PicInv, NoSlaveIdle, Controller, Chips
<1>6. check \in BOOLEAN
  OBVIOUS
<1>. QED
  BY <1>2, <1>3, <1>4, <1>5, <1>6, CommitInv

LEMMA ICW1Inv ==
  ASSUME PicInv, NEW c \in Installed, NEW single \in BOOLEAN, NEW words \in {2, 3},
         WriteICW1(c, single, words)
  PROVE  PicInv'
<1>. DEFINE q == Controller(c)
            r == [q EXCEPT !.imr = {}]
            p == [r EXCEPT !.single = single, !.icw_index = 1, !.icw_words = words]
            check == (q.irr \cap q.imr) \cap ((Lines \ q.isr) \cup q.isr_ignore) # {}
<1>1. q \in Chip /\ ActiveInService(q)
  BY InstalledChip, Controllers
<1>2. r \in Chip /\ ActiveInService(r)
  <2>. HIDE DEF q
  <2>. QED
    BY <1>1 DEF Chip, ActiveInService
<1>3. /\ p \in Chip /\ ActiveInService(p)
      /\ p.irr = r.irr /\ p.imr = r.imr /\ p.isr = r.isr
      /\ p.isr_ignore = r.isr_ignore /\ p.active_irq = r.active_irq
      /\ p.special = r.special
  <2>. DEFINE r1 == [r EXCEPT !.single = single]
              r2 == [r1 EXCEPT !.icw_index = 1]
  <2>1. /\ r1 \in Chip /\ r1.irr = r.irr /\ r1.imr = r.imr /\ r1.isr = r.isr
        /\ r1.isr_ignore = r.isr_ignore /\ r1.active_irq = r.active_irq
        /\ r1.special = r.special
    <3>. HIDE DEF r
    <3>. QED
      BY <1>2 DEF Chip
  <2>2. /\ r2 \in Chip /\ r2.irr = r.irr /\ r2.imr = r.imr /\ r2.isr = r.isr
        /\ r2.isr_ignore = r.isr_ignore /\ r2.active_irq = r.active_irq
        /\ r2.special = r.special
    <3>. HIDE DEF r, r1
    <3>. QED
      BY <2>1 DEF Chip
  <2>3. p = [r2 EXCEPT !.icw_words = words]
    BY Zenon
  <2>4. /\ p \in Chip /\ p.irr = r.irr /\ p.imr = r.imr /\ p.isr = r.isr
        /\ p.isr_ignore = r.isr_ignore /\ p.active_irq = r.active_irq
        /\ p.special = r.special
    <3>. HIDE DEF r, r2, p
    <3>. QED
      BY <2>2, <2>3 DEF Chip
  <2>. HIDE DEF r, p
  <2>. QED
    BY <1>2, <2>4 DEF ActiveInService
<1>4. Deliverable(p) = Deliverable(r)
  BY <1>3 DEF Deliverable, Possible, Limit
<1>5. Deliverable(r) # {} => check \/ Deliverable(q) # {}
  <2>. HIDE DEF q
  <2>. QED
    BY <1>1, MaskDeliverable
<1>6. Commit(c, p, check) /\ CPUUnchanged
  BY DEF WriteICW1
<1>7. check \in BOOLEAN
  OBVIOUS
<1>. QED
  BY <1>3, <1>4, <1>5, <1>6, <1>7, InstalledChip, CommitInv DEF Controller

LEMMA SpecialMaskInv ==
  ASSUME PicInv, NEW c \in Installed, NEW on \in BOOLEAN, WriteSpecialMask(c, on)
  PROVE  PicInv'
<1>. DEFINE q == Controller(c)
            p == [q EXCEPT !.special = on]
<1>1. q \in Chip /\ ActiveInService(q)
  BY InstalledChip, Controllers
<1>2. p \in Chip /\ ActiveInService(p)
  <2>. HIDE DEF q
  <2>. QED
    BY <1>1 DEF Chip, ActiveInService
<1>3. Commit(c, p, TRUE) /\ CPUUnchanged
  BY DEF WriteSpecialMask
<1>. QED
  BY <1>2, <1>3, InstalledChip, CommitInv

\* After an EOI whatever is deliverable is checked.
LEMMA EOIInv ==
  ASSUME PicInv, CPUUnchanged, NEW c \in Installed, NEW l, EndOfInterrupt(c, l)
  PROVE  PicInv'
<1>. DEFINE p == Ended(Controller(c), l)
<1>1. Controller(c) \in Chip
  BY InstalledChip, Controllers
<1>2. p \in Chip /\ ActiveInService(p)
  BY <1>1, EndedType, EndedActive
<1>3. Commit(c, p, Possible(p) # {})
  BY DEF EndOfInterrupt
<1>4. Deliverable(p) # {} => Possible(p) # {}
  BY DEF Deliverable
<1>5. (Possible(p) # {}) \in BOOLEAN
  OBVIOUS
<1>. QED
  BY <1>2, <1>3, <1>4, <1>5, InstalledChip, CommitInv

LEMMA SetIRQMaskInv ==
  ASSUME PicInv, NEW irq \in Irq16, NEW masked \in BOOLEAN, PIC_SetIRQMask(irq, masked)
  PROVE  PicInv'
<1>. DEFINE c == ChipOf(irq)
            l == LineOf(irq)
            imr == Controller(c).imr
            mask == IF masked THEN imr \cup {l} ELSE imr \ {l}
<1>1. c \in Chips /\ l \in Lines
  BY RoutedLine DEF ChipOf, Chips
<1>2. imr \in SUBSET Lines
  BY <1>1, Controllers DEF Chip
<1>3. mask \in SUBSET Lines
  BY <1>1, <1>2
<1>4. SetImr(c, mask) /\ CPUUnchanged
  BY DEF PIC_SetIRQMask
<1>. QED
  BY <1>1, <1>3, <1>4, MaskInv

LEMMA DelayedInv ==
  ASSUME PicInv, PIC_IRQCheckDelayed
  PROVE  PicInv'
  BY DEF PicInv, TypeOK, ActiveMatchesService, ActiveInService, NoLostInterrupt,
         NoSlaveIdle, PIC_IRQCheckDelayed

LEMMA AcceptingInv ==
  ASSUME PicInv, NEW b \in BOOLEAN, CPUSetsAccepting(b)
  PROVE  PicInv'
  BY DEF PicInv, TypeOK, ActiveMatchesService, ActiveInService, NoLostInterrupt,
         NoSlaveIdle, CPUSetsAccepting, Deliverable, Possible, Limit

\* The master after a dispatch of one of its lines.
LEMMA MasterStartedInv ==
  ASSUME PicInv, NEW l \in Lines
  PROVE  MasterStarted(l) \in Chip /\ ActiveInService(MasterStarted(l))
<1>1. master \in Chip /\ ActiveInService(master)
  BY DEF PicInv, TypeOK, ActiveMatchesService
<1>2. LET p == [master EXCEPT !.irr = @ \ {l}] IN p \in Chip /\ ActiveInService(p)
  BY <1>1 DEF Chip, ActiveInService
<1>. QED
  BY <1>1, <1>2, StartedType, StartedActive DEF MasterStarted

LEMMA CandidatesLines ==
  ASSUME NEW p \in Chip, NEW first, NEW b
  PROVE  Candidates(p, first, b) \in SUBSET Lines
  BY DEF Candidates, Deliverable, Possible, Chip

LEMMA SlaveStartedInv ==
  ASSUME PicInv, HasSlave, NEW b \in BOOLEAN
  PROVE  SlaveStarted(b) \in Chip /\ ActiveInService(SlaveStarted(b))
<1>1. slave \in Chip /\ ActiveInService(slave)
  BY DEF PicInv, TypeOK, ActiveMatchesService
<1>2. CASE Candidates(slave, NLines, b) # {}
  <2>1. LowestLine(Candidates(slave, NLines, b)) \in Lines
    BY <1>1, <1>2, CandidatesLines, LowestLineIn
  <2>. QED
    BY <1>1, <1>2, <2>1, StartedType, StartedActive DEF SlaveStarted
<1>3. CASE Candidates(slave, NLines, b) = {}
  <2>1. Lowered(slave, Cascade) \in Chip /\ ActiveInService(Lowered(slave, Cascade))
    BY <1>1, CascadeIsLine, LoweredType, RaisedActive DEF ActiveInService
  <2>. QED
    BY <1>1, <1>3, <2>1 DEF SlaveStarted
<1>. QED
  BY <1>2, <1>3

LEMMA RunNoneInv ==
  ASSUME PicInv, NEW b \in BOOLEAN, RunNone(b)
  PROVE  PicInv'
<1>1. Hacked = {} => Deliverable(master) = {}
  BY DEF RunNone, Candidates
<1>2. AfterDispatch(master, slave, FALSE, FALSE)
  BY DEF RunNone
<1>3. /\ master \in Chip /\ ActiveInService(master)
      /\ slave \in Chip /\ ActiveInService(slave)
  BY DEF PicInv, TypeOK, ActiveMatchesService
<1>4. ~HasSlave => slave.irr = {} /\ ~slave.auto_eoi
  BY Zenon DEF PicInv, NoSlaveIdle
<1>. QED
  BY <1>1, <1>2, <1>3, <1>4, AfterDispatchInv

LEMMA RunMasterInv ==
  ASSUME PicInv, NEW b \in BOOLEAN, RunMaster(b)
  PROVE  PicInv'
<1>. DEFINE cand == Candidates(master, 0, b)
            m == MasterStarted(LowestLine(cand))
<1>1. cand # {} /\ AfterDispatch(m, slave, TRUE, TRUE)
  BY DEF RunMaster
<1>2. master \in Chip /\ slave \in Chip /\ ActiveInService(slave)
  BY DEF PicInv, TypeOK, ActiveMatchesService
<1>3. m \in Chip /\ ActiveInService(m)
  BY <1>1, <1>2, CandidatesLines, LowestLineIn, MasterStartedInv
<1>4. ~HasSlave => slave.irr = {} /\ ~slave.auto_eoi
  BY Zenon DEF PicInv, NoSlaveIdle
<1>. QED
  BY <1>1, <1>2, <1>3, <1>4, AfterDispatchInv

LEMMA RunSlaveInv ==
  ASSUME PicInv, NEW b \in BOOLEAN, RunSlave(b)
  PROVE  PicInv'
<1>. DEFINE cand == Candidates(master, 0, b)
            taken == Candidates(slave, NLines, b) # {}
            m == IF taken THEN MasterStarted(Cascade) ELSE master
<1>1. /\ cand # {} /\ LowestLine(cand) = Cascade
      /\ AfterDispatch(m, SlaveStarted(b), TRUE, taken)
  BY DEF RunSlave
<1>2. master \in Chip /\ slave \in Chip /\ ActiveInService(master)
  BY DEF PicInv, TypeOK, ActiveMatchesService
<1>3. Cascade \in Lines
  BY <1>1, <1>2, CandidatesLines, LowestLineIn
<1>4. HasSlave
  BY <1>3, PicAssumption DEF HasSlave, Cascade, Lines
<1>5. m \in Chip /\ ActiveInService(m)
  BY <1>2, <1>3, MasterStartedInv
<1>6. SlaveStarted(b) \in Chip /\ ActiveInService(SlaveStarted(b))
  BY <1>4, SlaveStartedInv
<1>7. taken \in BOOLEAN
  OBVIOUS
<1>. QED
  BY <1>1, <1>4, <1>5, <1>6, <1>7, AfterDispatchInv

LEMMA NextInv ==
  ASSUME PicInv, [Next]_vars
  PROVE  PicInv'
<1>1. CASE Device
  <2>1. ASSUME NEW irq \in Irqs, PIC_ActivateIRQ(irq) PROVE PicInv'
    BY <2>1, ActivateInv, PicAssumption
  <2>2. ASSUME NEW irq \in Irqs, PIC_DeActivateIRQ(irq) PROVE PicInv'
    BY <2>2, DeActivateInv, PicAssumption
  <2>3. ASSUME NEW irq \in EdgeIrqs, NEW set \in BOOLEAN, PIC_EdgeTrigger(irq, set)
        PROVE  PicInv'
    BY <2>3, EdgeInv, PicAssumption
  <2>. QED
    BY <1>1, <2>1, <2>2, <2>3 DEF Device
<1>2. ASSUME NEW c \in Installed,
             \/ \E icw \in Icws : WriteICW1(c, icw[1], icw[2])
             \/ \E on \in SpecialMask : WriteSpecialMask(c, on)
             \/ \E l \in Lines : SpecificEOI(c, l)
             \/ NonspecificEOI(c)
             \/ \E mask \in Masks : WriteMask(c, mask)
             \/ WriteICW23(c)
             \/ \E autoEoi \in AutoEois : WriteICW4(c, autoEoi)
      PROVE  PicInv'
  <2>1. CASE \E icw \in Icws : WriteICW1(c, icw[1], icw[2])
    <3>1. PICK icw \in Icws : WriteICW1(c, icw[1], icw[2])
      BY <2>1
    <3>2. icw[1] \in BOOLEAN /\ icw[2] \in {2, 3}
      BY PicAssumption
    <3>. QED
      BY <3>1, <3>2, ICW1Inv
  <2>2. CASE \E on \in SpecialMask : WriteSpecialMask(c, on)
    BY <2>2, SpecialMaskInv, PicAssumption
  <2>3. CASE \E l \in Lines : SpecificEOI(c, l)
    BY <2>3, EOIInv DEF SpecificEOI
  <2>4. CASE NonspecificEOI(c)
    BY <2>4, EOIInv DEF NonspecificEOI
  <2>5. CASE \E mask \in Masks : WriteMask(c, mask)
    BY <2>5, MaskInv, InstalledChip, PicAssumption DEF WriteMask
  <2>6. CASE WriteICW23(c)
    BY <2>6, ICW23Inv
  <2>7. CASE \E autoEoi \in AutoEois : WriteICW4(c, autoEoi)
    BY <2>7, ICW4Inv, PicAssumption
  <2>. QED
    BY <1>2, <2>1, <2>2, <2>3, <2>4, <2>5, <2>6, <2>7
<1>3. CASE Firmware
  BY <1>3, SetIRQMaskInv, PicAssumption DEF Firmware
<1>4. CASE PIC_IRQCheckDelayed
  BY <1>4, DelayedInv
<1>5. CASE CPU
  BY <1>5, RunNoneInv, RunMasterInv, RunSlaveInv, AcceptingInv DEF CPU, PIC_runIRQs
<1>6. CASE PIC_Reset
  BY <1>6, ResetInv
<1>7. CASE UNCHANGED vars
  BY <1>7 DEF vars, PicInv, TypeOK, ActiveMatchesService, ActiveInService,
              NoLostInterrupt, NoSlaveIdle, Deliverable, Possible, Limit
<1>. QED
  BY <1>1, <1>2, <1>3, <1>4, <1>5, <1>6, <1>7 DEF Next, Program

----------------------------------------------------------------------------
\* Every behaviour keeps the invariant.
THEOREM Invariance == Spec => []PicInv
  BY InitInv, NextInv, PTL DEF Spec

\* Every variable keeps its type.
THEOREM TypeCorrect == Spec => []TypeOK
<1>1. PicInv => TypeOK
  BY DEF PicInv
<1>. QED
  BY <1>1, Invariance, PTL

\* The cached priority of both controllers is a line in service (or none).
THEOREM PriorityCorrect == Spec => []ActiveMatchesService
<1>1. PicInv => ActiveMatchesService
  BY DEF PicInv
<1>. QED
  BY <1>1, Invariance, PTL

\* A request the master could deliver is never left without a check.
THEOREM NoInterruptIsLost == Spec => []NoLostInterrupt
<1>1. PicInv => NoLostInterrupt
  BY DEF PicInv
<1>. QED
  BY <1>1, Invariance, PTL

----------------------------------------------------------------------------
(* The slave's requests reach the master. *)

\* The cascade is no device's line: it is never filtered by an edge.
CascadeIsLevel == HasSlave => Cascade \notin master.edge

ReachInv == PicInv /\ CascadeIsLevel /\ SlaveReachesMaster

\* No IRQ is routed to the cascade.
LEMMA NotTheCascade ==
  ASSUME NEW irq \in Irq16, HasSlave, Routable(irq), ChipOf(Routed(irq)) = "master"
  PROVE  LineOf(Routed(irq)) # Cascade
<1>1. Routed(irq) \in Nat /\ Routed(irq) < NLines /\ LineOf(Routed(irq)) = Routed(irq)
  BY PicAssumption DEF Irq16, Routed, ChipOf, LineOf
<1>2. CASE Arch = "at"
  BY <1>1, <1>2, PicAssumption DEF Routed, Cascade
<1>3. CASE Arch = "pc98"
  BY <1>1, <1>3, PicAssumption DEF Routed, Cascade, Routable
<1>. QED
  BY <1>2, <1>3, PicAssumption DEF HasSlave

\* What raising and lowering the cascade does to the master.
LEMMA CascadeRaised ==
  ASSUME NEW m \in Chip, NEW l
  PROVE  /\ Raised(m, l).edge = m.edge /\ Lowered(m, l).edge = m.edge
         /\ \A k : k \in m.irr => k \in Raised(m, l).irr
         /\ \A k : k \in m.irr /\ k # l => k \in Lowered(m, l).irr
         /\ l \notin m.edge => l \in Raised(m, l).irr
  BY DEF Raised, Lowered, Filtered, Chip

LEMMA CascadedReaches ==
  ASSUME NEW m \in Chip, NEW s \in Chip, Cascade \notin m.edge
  PROVE  /\ Cascade \notin Cascaded(m, s).edge
         /\ Deliverable(s) # {} => Cascade \in Cascaded(m, s).irr
  BY CascadeRaised DEF Cascaded

\* The slave has nothing the master is not told of, or holds it back itself.
Told(m, s) == Cascade \in m.irr \/ (s.special /\ s.isr # {})

\* A commit keeps the slave's request: what it makes deliverable it checks.
LEMMA CommitReaches ==
  ASSUME ReachInv, NEW c \in Chips, NEW p \in Chip, NEW check \in BOOLEAN, Commit(c, p, check),
         c = "master" /\ HasSlave =>
             Cascade \notin p.edge /\ (Cascade \in master.irr => Cascade \in p.irr),
         c = "slave" /\ Deliverable(p) # {} =>
             check \/ (Deliverable(slave) # {} /\ p.special = slave.special /\ p.isr = slave.isr)
  PROVE  CascadeIsLevel' /\ SlaveReachesMaster'
<1>0. /\ master \in Chip /\ slave \in Chip
      /\ (HasSlave => Cascade \notin master.edge)
      /\ (HasSlave /\ Hacked = {} /\ Deliverable(slave) # {} => Told(master, slave))
  BY DEF ReachInv, PicInv, TypeOK, CascadeIsLevel, SlaveReachesMaster, Told
<1>1. SUFFICES ASSUME HasSlave
               PROVE  /\ Cascade \notin master'.edge
                      /\ Hacked = {} /\ Deliverable(slave') # {} => Told(master', slave')
  BY DEF CascadeIsLevel, SlaveReachesMaster, Told, Deliverable, Possible, Limit
<1>2. CASE c = "master"
  <2>1. master' = p /\ slave' = slave
    BY <1>2 DEF Commit
  <2>. QED
    BY <1>0, <1>1, <1>2, <2>1 DEF Told
<1>3. CASE c = "slave"
  <2>1. slave' = p /\ master' = IF check THEN Cascaded(master, p) ELSE master
    BY <1>3 DEF Commit
  <2>2. CASE check
    BY <1>0, <1>1, <2>1, <2>2, CascadedReaches DEF Told
  <2>3. CASE ~check
    BY <1>0, <1>1, <1>3, <2>1, <2>3 DEF Told
  <2>. QED
    BY <2>2, <2>3
<1>. QED
  BY <1>2, <1>3 DEF Chips

LEMMA AfterDispatchReaches ==
  ASSUME NEW m \in Chip, NEW s \in Chip, NEW found, NEW taken, AfterDispatch(m, s, found, taken),
         HasSlave => Cascade \notin m.edge,
         HasSlave /\ Hacked = {} /\ Deliverable(s) # {} => s.auto_eoi \/ Told(m, s)
  PROVE  CascadeIsLevel' /\ SlaveReachesMaster'
<1>1. master' = (IF s.auto_eoi THEN Cascaded(m, s) ELSE m) /\ slave' = s
  BY Zenon DEF AfterDispatch
<1>2. SUFFICES ASSUME HasSlave
               PROVE  /\ Cascade \notin master'.edge
                      /\ Hacked = {} /\ Deliverable(slave') # {} => Told(master', slave')
  BY DEF CascadeIsLevel, SlaveReachesMaster, Told, Deliverable, Possible, Limit
<1>3. CASE s.auto_eoi
  BY <1>1, <1>2, <1>3, CascadedReaches DEF Told
<1>4. CASE ~s.auto_eoi
  BY <1>1, <1>2, <1>4
<1>. QED
  BY <1>3, <1>4

----------------------------------------------------------------------------
(* The actions. *)

LEMMA InitReaches == Init => ReachInv
<1> SUFFICES ASSUME Init PROVE ReachInv
  OBVIOUS
<1>1. Deliverable(slave) = {} /\ master.edge = {}
  BY DEF Init, ResetMaster, ResetSlave, NewChip, Deliverable, Possible
<1>. QED
  BY <1>1, InitInv DEF ReachInv, CascadeIsLevel, SlaveReachesMaster

LEMMA ResetReaches ==
  ASSUME PIC_Reset PROVE CascadeIsLevel' /\ SlaveReachesMaster'
<1>1. slave' = ResetSlave /\ master' = ResetMaster /\ ResetMaster.edge = {} /\ ResetSlave.irr = {}
  BY DEF PIC_Reset, ResetMaster, ResetSlave, NewChip
<1>2. Deliverable(slave') = {}
  BY <1>1 DEF Deliverable, Possible
<1>. QED
  BY <1>1, <1>2 DEF CascadeIsLevel, SlaveReachesMaster, Deliverable, Possible, Limit

\* A controller that raises a line keeps its requests and its service.
LEMMA RaisedKeeps ==
  ASSUME NEW p \in Chip, NEW l
  PROVE  /\ Raised(p, l).special = p.special /\ Lowered(p, l).special = p.special
         /\ Raised(p, l).isr = p.isr /\ Lowered(p, l).isr = p.isr
  BY DEF Raised, Lowered, Chip

LEMMA ActivateReaches ==
  ASSUME ReachInv, NEW irq \in Irq16, PIC_ActivateIRQ(irq)
  PROVE  CascadeIsLevel' /\ SlaveReachesMaster'
<1> DEFINE c == ChipOf(Routed(irq))
           l == LineOf(Routed(irq))
           q == Controller(c)
           p == Raised(q, l)
<1>0. /\ master \in Chip /\ slave \in Chip
      /\ (HasSlave => Cascade \notin master.edge)
      /\ (HasSlave /\ Hacked = {} /\ Deliverable(slave) # {} => Told(master, slave))
  BY DEF ReachInv, PicInv, TypeOK, CascadeIsLevel, SlaveReachesMaster, Told
<1>1. c \in Chips /\ l \in Lines
  BY RoutedLine DEF ChipOf, Chips
<1>2. SUFFICES ASSUME HasSlave
               PROVE  /\ Cascade \notin master'.edge
                      /\ Hacked = {} /\ Deliverable(slave') # {} => Told(master', slave')
  BY DEF CascadeIsLevel, SlaveReachesMaster, Told, Deliverable, Possible, Limit
<1>3. CASE c = "master"
  <2>1. master' = Raised(master, l) /\ slave' = slave
    BY <1>3 DEF PIC_ActivateIRQ, Controller
  <2>. QED
    BY <1>0, <1>2, <2>1, CascadeRaised DEF Told
<1>4. CASE c = "slave"
  <2> DEFINE activates == RaiseActivates(slave, l)
  <2>1. /\ slave' = Raised(slave, l)
        /\ master' = IF activates THEN Raised(master, Cascade) ELSE master
    BY <1>4 DEF PIC_ActivateIRQ, Controller
  <2>2. CASE activates
    BY <1>0, <1>2, <2>1, <2>2, CascadeRaised DEF Told
  <2>3. CASE ~activates
    <3>1. Deliverable(slave') # {} => Deliverable(slave) # {}
      BY <1>0, <1>1, <2>1, <2>3, RaisedDeliverable
    <3>. QED
      BY <1>0, <1>2, <2>1, <2>3, <3>1, RaisedKeeps DEF Told
  <2>. QED
    BY <2>2, <2>3
<1>. QED
  BY <1>1, <1>3, <1>4 DEF Chips

LEMMA DeActivateReaches ==
  ASSUME ReachInv, NEW irq \in Irq16, PIC_DeActivateIRQ(irq)
  PROVE  CascadeIsLevel' /\ SlaveReachesMaster'
<1> DEFINE c == ChipOf(Routed(irq))
           l == LineOf(Routed(irq))
           q == Controller(c)
           p == Lowered(q, l)
           check == LowerChecks(q, l)
<1>1. c \in Chips /\ l \in Lines /\ Routable(irq)
  BY RoutedLine DEF ChipOf, Chips, PIC_DeActivateIRQ
<1>2. q \in Chip
  BY <1>1, Controllers DEF ReachInv
<1>3. p \in Chip /\ check \in BOOLEAN
  BY <1>1, <1>2, LoweredType DEF LowerChecks
<1>4. Commit(c, p, check)
  BY DEF PIC_DeActivateIRQ
<1>5. ASSUME c = "master", HasSlave
      PROVE  Cascade \notin p.edge /\ (Cascade \in master.irr => Cascade \in p.irr)
  <2>1. q = master /\ l # Cascade
    BY <1>1, <1>5, NotTheCascade DEF Controller
  <2>. QED
    BY <1>2, <1>5, <2>1, CascadeRaised DEF ReachInv, CascadeIsLevel
<1>6. ASSUME c = "slave", Deliverable(p) # {}
      PROVE  Deliverable(slave) # {} /\ p.special = slave.special /\ p.isr = slave.isr
  <2>1. q = slave
    BY <1>6 DEF Controller
  <2>. QED
    BY <1>2, <1>6, <2>1, LoweredDeliverable, RaisedKeeps
<1>. QED
  BY <1>1, <1>3, <1>4, <1>5, <1>6, CommitReaches

\* Edge filtering and initialisation words change nothing deliverable.
LEMMA ProgrammedReaches ==
  ASSUME ReachInv, NEW c \in Chips, NEW p \in Chip, Commit(c, p, FALSE),
         \A f \in {"irr", "imr", "isr", "isr_ignore", "active_irq", "special"} :
             p[f] = Controller(c)[f],
         c = "master" /\ HasSlave => Cascade \notin p.edge
  PROVE  CascadeIsLevel' /\ SlaveReachesMaster'
<1>1. /\ p.irr = Controller(c).irr /\ p.imr = Controller(c).imr
      /\ p.isr = Controller(c).isr /\ p.isr_ignore = Controller(c).isr_ignore
      /\ p.active_irq = Controller(c).active_irq /\ p.special = Controller(c).special
  OBVIOUS
<1>2. Deliverable(p) = Deliverable(Controller(c))
  BY <1>1 DEF Deliverable, Possible, Limit
<1>3. c = "master" => Controller(c) = master
  BY DEF Controller
<1>4. c = "slave" => Controller(c) = slave
  BY DEF Controller
<1>. QED
  BY <1>1, <1>2, <1>3, <1>4, CommitReaches

LEMMA EdgeReaches ==
  ASSUME ReachInv, NEW irq \in Irq16, NEW set \in BOOLEAN, PIC_EdgeTrigger(irq, set)
  PROVE  CascadeIsLevel' /\ SlaveReachesMaster'
<1>. DEFINE c == ChipOf(Routed(irq))
            l == LineOf(Routed(irq))
            q == Controller(c)
            edge == IF set THEN q.edge \cup {l} ELSE q.edge \ {l}
            p == [q EXCEPT !.edge = edge]
<1>1. c \in Chips /\ l \in Lines /\ Routable(irq)
  BY RoutedLine DEF ChipOf, Chips, PIC_EdgeTrigger
<1>2. q \in Chip
  BY <1>1, Controllers DEF ReachInv
<1>3. edge \in SUBSET Lines
  BY <1>1, <1>2 DEF Chip
<1>4. /\ p \in Chip /\ p.edge = edge
      /\ \A f \in {"irr", "imr", "isr", "isr_ignore", "active_irq", "special"} : p[f] = q[f]
  <2>. HIDE DEF q, edge
  <2>. QED
    BY <1>2, <1>3 DEF Chip
<1>5. Commit(c, p, FALSE)
  BY DEF PIC_EdgeTrigger
<1>6. ASSUME c = "master", HasSlave PROVE Cascade \notin edge
  <2>1. q = master /\ l # Cascade
    BY <1>1, <1>6, NotTheCascade DEF Controller
  <2>2. Cascade \notin master.edge
    BY <1>6 DEF ReachInv, CascadeIsLevel
  <2>. QED
    BY <2>1, <2>2
<1>. QED
  BY <1>1, <1>4, <1>5, <1>6, ProgrammedReaches

LEMMA ICW23Reaches ==
  ASSUME ReachInv, NEW c \in Installed, WriteICW23(c)
  PROVE  CascadeIsLevel' /\ SlaveReachesMaster'
<1>. DEFINE q == Controller(c)
            p == [q EXCEPT !.icw_index = NextIcw(q)]
<1>1. c \in Chips /\ q \in Chip /\ NextIcw(q) \in 0 .. 3
  BY InstalledChip, Controllers, NextIcwType DEF ReachInv
<1>2. /\ p \in Chip /\ p.edge = q.edge
      /\ \A f \in {"irr", "imr", "isr", "isr_ignore", "active_irq", "special"} : p[f] = q[f]
  <2>. HIDE DEF q
  <2>. QED
    BY <1>1 DEF Chip
<1>3. Commit(c, p, FALSE)
  BY DEF WriteICW23
<1>4. c = "master" /\ HasSlave => Cascade \notin p.edge
  BY <1>2 DEF ReachInv, CascadeIsLevel, Controller
<1>. QED
  BY <1>1, <1>2, <1>3, <1>4, ProgrammedReaches

LEMMA ICW4Reaches ==
  ASSUME ReachInv, NEW c \in Installed, NEW autoEoi \in BOOLEAN, WriteICW4(c, autoEoi)
  PROVE  CascadeIsLevel' /\ SlaveReachesMaster'
<1>. DEFINE q == Controller(c)
            r == [q EXCEPT !.auto_eoi = autoEoi]
            p == [r EXCEPT !.icw_index = NextIcw(q)]
<1>1. c \in Chips /\ q \in Chip /\ NextIcw(q) \in 0 .. 3
  BY InstalledChip, Controllers, NextIcwType DEF ReachInv
<1>2. /\ r \in Chip /\ r.edge = q.edge
      /\ \A f \in {"irr", "imr", "isr", "isr_ignore", "active_irq", "special"} : r[f] = q[f]
  <2>. HIDE DEF q
  <2>. QED
    BY <1>1 DEF Chip
<1>3. /\ p \in Chip /\ p.edge = q.edge
      /\ \A f \in {"irr", "imr", "isr", "isr_ignore", "active_irq", "special"} : p[f] = q[f]
  <2>. HIDE DEF q, r
  <2>. QED
    BY <1>1, <1>2 DEF Chip
<1>4. Commit(c, p, FALSE)
  BY DEF WriteICW4
<1>5. c = "master" /\ HasSlave => Cascade \notin p.edge
  BY <1>3 DEF ReachInv, CascadeIsLevel, Controller
<1>. QED
  BY <1>1, <1>3, <1>4, <1>5, ProgrammedReaches

LEMMA MaskReaches ==
  ASSUME ReachInv, NEW c \in Chips, NEW mask \in SUBSET Lines, SetImr(c, mask)
  PROVE  CascadeIsLevel' /\ SlaveReachesMaster'
<1>. DEFINE q == Controller(c)
            p == [q EXCEPT !.imr = mask]
            check == q.irr \cap ((q.imr \ mask) \cup (mask \ q.imr))
                           \cap ((Lines \ q.isr) \cup q.isr_ignore) # {}
<1>1. q \in Chip
  BY Controllers DEF ReachInv
<1>2. /\ p \in Chip
      /\ p.irr = q.irr /\ p.edge = q.edge /\ p.isr = q.isr /\ p.special = q.special
  <2>. HIDE DEF q
  <2>. QED
    BY <1>1 DEF Chip
<1>3. Commit(c, p, check) /\ check \in BOOLEAN
  BY DEF SetImr
<1>4. c = "master" /\ HasSlave => Cascade \notin p.edge /\ (Cascade \in master.irr => Cascade \in p.irr)
  <2>. HIDE DEF p
  <2>. QED
    BY <1>2 DEF ReachInv, CascadeIsLevel, Controller
<1>5. Deliverable(p) # {} => check \/ Deliverable(q) # {}
  <2>. HIDE DEF q
  <2>. QED
    BY <1>1, MaskDeliverable
<1>6. c = "slave" => q = slave
  BY DEF Controller
<1>. HIDE DEF p, check, q
<1>. QED
  BY <1>2, <1>3, <1>4, <1>5, <1>6, CommitReaches

LEMMA ICW1Reaches ==
  ASSUME ReachInv, NEW c \in Installed, NEW single \in BOOLEAN, NEW words \in {2, 3},
         WriteICW1(c, single, words)
  PROVE  CascadeIsLevel' /\ SlaveReachesMaster'
<1>. DEFINE q == Controller(c)
            r == [q EXCEPT !.imr = {}]
            r1 == [r EXCEPT !.single = single]
            r2 == [r1 EXCEPT !.icw_index = 1]
            p == [r EXCEPT !.single = single, !.icw_index = 1, !.icw_words = words]
            check == (q.irr \cap q.imr) \cap ((Lines \ q.isr) \cup q.isr_ignore) # {}
<1>1. q \in Chip /\ c \in Chips
  BY InstalledChip, Controllers DEF ReachInv
<1>2. r \in Chip /\ r.irr = q.irr /\ r.edge = q.edge /\ r.isr = q.isr /\ r.special = q.special
  <2>. HIDE DEF q
  <2>. QED
    BY <1>1 DEF Chip
<1>3. /\ r1 \in Chip
      /\ \A f \in {"irr", "imr", "isr", "isr_ignore", "active_irq", "special", "edge"} : r1[f] = r[f]
  <2>. HIDE DEF r
  <2>. QED
    BY <1>2 DEF Chip
<1>4. /\ r2 \in Chip
      /\ \A f \in {"irr", "imr", "isr", "isr_ignore", "active_irq", "special", "edge"} : r2[f] = r[f]
  <2>. HIDE DEF r, r1
  <2>. QED
    BY <1>3 DEF Chip
<1>5. /\ p \in Chip
      /\ \A f \in {"irr", "imr", "isr", "isr_ignore", "active_irq", "special", "edge"} : p[f] = r[f]
  <2>1. p = [r2 EXCEPT !.icw_words = words]
    BY Zenon
  <2>. HIDE DEF r, r2, p
  <2>. QED
    BY <1>4, <2>1 DEF Chip
<1>6. Deliverable(p) # {} => check \/ Deliverable(q) # {}
  <2>1. Deliverable(r) # {} => check \/ Deliverable(q) # {}
    <3>. HIDE DEF q
    <3>. QED
      BY <1>1, MaskDeliverable
  <2>. HIDE DEF p, r
  <2>2. Deliverable(p) = Deliverable(r)
    BY <1>5 DEF Deliverable, Possible, Limit
  <2>. QED
    BY <2>1, <2>2
<1>7. Commit(c, p, check) /\ check \in BOOLEAN
  BY DEF WriteICW1
<1>8. c = "slave" => q = slave
  BY DEF Controller
<1>9. c = "master" => q = master
  BY DEF Controller
<1>10. p.irr = q.irr /\ p.edge = q.edge /\ p.isr = q.isr /\ p.special = q.special
  <2>. HIDE DEF p, r
  <2>. QED
    BY <1>2, <1>5
<1>11. HasSlave => Cascade \notin master.edge
  BY DEF ReachInv, CascadeIsLevel
<1>. HIDE DEF p, check, q
<1>. QED
  BY <1>1, <1>5, <1>6, <1>7, <1>8, <1>9, <1>10, <1>11, CommitReaches

LEMMA SpecialMaskReaches ==
  ASSUME ReachInv, NEW c \in Installed, NEW on \in BOOLEAN, WriteSpecialMask(c, on)
  PROVE  CascadeIsLevel' /\ SlaveReachesMaster'
<1>. DEFINE q == Controller(c)
            p == [q EXCEPT !.special = on]
<1>1. q \in Chip /\ c \in Chips
  BY InstalledChip, Controllers DEF ReachInv
<1>2. p \in Chip /\ p.irr = q.irr /\ p.edge = q.edge
  <2>. HIDE DEF q
  <2>. QED
    BY <1>1 DEF Chip
<1>3. Commit(c, p, TRUE)
  BY DEF WriteSpecialMask
<1>4. c = "master" => q = master
  BY DEF Controller
<1>5. HasSlave => Cascade \notin master.edge
  BY DEF ReachInv, CascadeIsLevel
<1>. HIDE DEF p, q
<1>. QED
  BY <1>1, <1>2, <1>3, <1>4, <1>5, CommitReaches

LEMMA EOIReaches ==
  ASSUME ReachInv, NEW c \in Installed, NEW l, EndOfInterrupt(c, l)
  PROVE  CascadeIsLevel' /\ SlaveReachesMaster'
<1>. DEFINE q == Controller(c)
            p == Ended(q, l)
<1>1. q \in Chip /\ c \in Chips
  BY InstalledChip, Controllers DEF ReachInv
<1>2. p \in Chip /\ p.irr = q.irr /\ p.edge = q.edge
  <2>1. p \in Chip
    BY <1>1, EndedType
  <2>. HIDE DEF q
  <2>. QED
    BY <1>1, <2>1 DEF Ended, Chip
<1>3. Commit(c, p, Possible(p) # {}) /\ (Possible(p) # {}) \in BOOLEAN
  BY DEF EndOfInterrupt
<1>4. c = "master" => q = master
  BY DEF Controller
<1>5. HasSlave => Cascade \notin master.edge
  BY DEF ReachInv, CascadeIsLevel
<1>6. Deliverable(p) # {} => Possible(p) # {}
  BY DEF Deliverable
<1>. HIDE DEF p, q
<1>. QED
  BY <1>1, <1>2, <1>3, <1>4, <1>5, <1>6, CommitReaches

LEMMA SetIRQMaskReaches ==
  ASSUME ReachInv, NEW irq \in Irq16, NEW masked \in BOOLEAN, PIC_SetIRQMask(irq, masked)
  PROVE  CascadeIsLevel' /\ SlaveReachesMaster'
<1>. DEFINE c == ChipOf(irq)
            l == LineOf(irq)
            imr == Controller(c).imr
            mask == IF masked THEN imr \cup {l} ELSE imr \ {l}
<1>1. c \in Chips /\ l \in Lines
  BY RoutedLine DEF ChipOf, Chips
<1>2. imr \in SUBSET Lines
  BY <1>1, Controllers DEF Chip, ReachInv
<1>3. mask \in SUBSET Lines
  BY <1>1, <1>2
<1>4. SetImr(c, mask)
  BY DEF PIC_SetIRQMask
<1>. QED
  BY <1>1, <1>3, <1>4, MaskReaches

\* A dispatch: the slave's line in service keeps back those below it; a line
\* above it would have been dispatched first.
LEMMA SlaveStartedReaches ==
  ASSUME ReachInv, HasSlave, Hacked = {}, NEW b \in BOOLEAN,
         Deliverable(SlaveStarted(b)) # {}
  PROVE  LET s == SlaveStarted(b) IN s.auto_eoi \/ (s.special /\ s.isr # {})
<1> DEFINE cand == Candidates(slave, NLines, b)
           l == LowestLine(cand)
           s == Started(slave, l)
<1>0. slave \in Chip
  BY DEF ReachInv, PicInv, TypeOK
<1>1. cand = Deliverable(slave)
  BY DEF Candidates
<1>2. CASE cand = {}
  <2>1. SlaveStarted(b) = Lowered(slave, Cascade)
    BY <1>1, <1>2 DEF SlaveStarted
  <2>2. Deliverable(SlaveStarted(b)) \subseteq Deliverable(slave)
    BY <1>0, <2>1, LoweredDeliverable
  <2>3. FALSE
    BY <1>1, <1>2, <2>2
  <2>. QED
    BY <2>3
<1>3. CASE cand # {}
  <2>1. l \in Deliverable(slave) /\ \A k \in Deliverable(slave) : l <= k
    <3>1. cand \in SUBSET Lines
      BY <1>0, CandidatesLines
    <3>. QED
      BY <1>1, <1>3, <3>1, LowestLineIn
  <2>2. SlaveStarted(b) = s
    BY <1>3 DEF SlaveStarted
  <2>3. CASE slave.auto_eoi
    <3>1. s.auto_eoi = TRUE
      <4> HIDE DEF l
      <4>. QED
        BY <1>0, <2>3 DEF Started, Chip
    <3>. QED
      BY <2>2, <3>1
  <2>4. CASE ~slave.auto_eoi
    <3>1. /\ s.irr = slave.irr \ {l} /\ s.imr = slave.imr /\ s.isr = slave.isr \cup {l}
          /\ s.isr_ignore = slave.isr_ignore /\ s.active_irq = l /\ s.special = slave.special
      <4> HIDE DEF l
      <4>. QED
        BY <1>0, <2>4 DEF Started, Chip
    <3>2. CASE slave.special
      BY <2>2, <3>1, <3>2
    <3>3. CASE ~slave.special
      <4> HIDE DEF l, s
      <4>0. Limit(s) \in {l, l + 1}
        BY <3>1, <3>3 DEF Limit
      <4>1. PICK k \in Possible(s) : k < l
        <5>1. PICK k \in Possible(s) : k < Limit(s)
          BY <2>2 DEF Deliverable
        <5>2. k \in Int /\ l \in Int /\ k # l
          BY <1>0, <2>1, <3>1, <5>1 DEF Possible, Deliverable, Chip, Lines
        <5>. QED
          BY <4>0, <5>1, <5>2
      <4>2. k \in Possible(slave) /\ k \in Lines /\ l \in Lines
        BY <1>0, <2>1, <3>1, <4>1 DEF Possible, Deliverable, Chip
      <4>3. k < Limit(slave)
        <5>1. l < Limit(slave)
          BY <2>1 DEF Deliverable
        <5>2. Limit(slave) \in Int /\ k \in Int /\ l \in Int
          BY <1>0, <4>2, PicAssumption DEF Limit, Chip, Lines
        <5>. QED
          BY <4>1, <5>1, <5>2
      <4>4. l <= k
        BY <2>1, <4>2, <4>3 DEF Deliverable
      <4>5. k \in Int /\ l \in Int
        BY <4>2 DEF Lines
      <4>. QED
        BY <4>1, <4>4, <4>5
    <3>. QED
      BY <3>2, <3>3
  <2>. QED
    BY <2>3, <2>4
<1>. QED
  BY <1>2, <1>3

\* The master's requests but the one dispatched stay.
LEMMA MasterStartedKeeps ==
  ASSUME master \in Chip, NEW l
  PROVE  /\ MasterStarted(l).edge = master.edge
         /\ \A k \in master.irr : k # l => k \in MasterStarted(l).irr
<1>1. LET p == [master EXCEPT !.irr = @ \ {l}]
      IN  p.edge = master.edge /\ p.irr = master.irr \ {l}
  BY DEF Chip
<1>2. Started(master, l).edge = master.edge /\ Started(master, l).irr = master.irr \ {l}
  BY DEF Started, Chip
<1>. QED
  BY <1>1, <1>2 DEF MasterStarted

LEMMA DispatchReaches ==
  ASSUME ReachInv, NEW b \in BOOLEAN, RunNone(b) \/ RunMaster(b) \/ RunSlave(b)
  PROVE  CascadeIsLevel' /\ SlaveReachesMaster'
<1> DEFINE cand == Candidates(master, 0, b)
           taken == Candidates(slave, NLines, b) # {}
<1>0. /\ master \in Chip /\ slave \in Chip
      /\ (HasSlave => Cascade \notin master.edge)
      /\ (HasSlave /\ Hacked = {} /\ Deliverable(slave) # {} => Told(master, slave))
  BY DEF ReachInv, PicInv, TypeOK, CascadeIsLevel, SlaveReachesMaster, Told
<1>1. CASE RunNone(b)
  <2>1. AfterDispatch(master, slave, FALSE, FALSE)
    BY <1>1 DEF RunNone
  <2>. QED
    BY <1>0, <2>1, AfterDispatchReaches
<1>2. CASE RunMaster(b)
  <2> DEFINE m == MasterStarted(LowestLine(cand))
  <2>1. /\ cand # {} /\ AfterDispatch(m, slave, TRUE, TRUE) /\ LowestLine(cand) # Cascade
        /\ LowestLine(cand) \in Lines
    BY <1>0, <1>2, CandidatesLines, LowestLineIn DEF RunMaster
  <2>2. m \in Chip
    BY <2>1, MasterStartedInv DEF ReachInv
  <2>3. m.edge = master.edge /\ (Cascade \in master.irr => Cascade \in m.irr)
    BY <1>0, <2>1, MasterStartedKeeps
  <2> HIDE DEF m
  <2>. QED
    BY <1>0, <2>1, <2>2, <2>3, AfterDispatchReaches DEF Told
<1>3. CASE RunSlave(b)
  <2> DEFINE m == IF taken THEN MasterStarted(Cascade) ELSE master
             s == SlaveStarted(b)
  <2>1. /\ cand # {} /\ LowestLine(cand) = Cascade /\ AfterDispatch(m, s, TRUE, taken)
    BY <1>3 DEF RunSlave
  <2>2. Cascade \in Lines
    BY <1>0, <2>1, CandidatesLines, LowestLineIn
  <2>3. HasSlave
    BY <2>2, PicAssumption DEF HasSlave, Cascade, Lines
  <2>4. m \in Chip /\ s \in Chip
    BY <1>0, <2>2, <2>3, MasterStartedInv, SlaveStartedInv DEF ReachInv
  <2>5. m.edge = master.edge
    BY <1>0, MasterStartedKeeps
  <2>6. Hacked = {} /\ Deliverable(s) # {} => s.auto_eoi \/ (s.special /\ s.isr # {})
    BY <2>3, SlaveStartedReaches
  <2> HIDE DEF m, s, taken
  <2>. QED
    BY <1>0, <2>1, <2>4, <2>5, <2>6, AfterDispatchReaches DEF Told
<1>. QED
  BY <1>1, <1>2, <1>3

LEMMA NextReaches ==
  ASSUME ReachInv, [Next]_vars
  PROVE  ReachInv'
<1> SUFFICES CascadeIsLevel' /\ SlaveReachesMaster'
  BY NextInv DEF ReachInv
<1>1. CASE Device
  <2>1. ASSUME NEW irq \in Irqs, PIC_ActivateIRQ(irq) PROVE CascadeIsLevel' /\ SlaveReachesMaster'
    BY <2>1, ActivateReaches, PicAssumption
  <2>2. ASSUME NEW irq \in Irqs, PIC_DeActivateIRQ(irq) PROVE CascadeIsLevel' /\ SlaveReachesMaster'
    BY <2>2, DeActivateReaches, PicAssumption
  <2>3. ASSUME NEW irq \in EdgeIrqs, NEW set \in BOOLEAN, PIC_EdgeTrigger(irq, set)
        PROVE  CascadeIsLevel' /\ SlaveReachesMaster'
    BY <2>3, EdgeReaches, PicAssumption
  <2>. QED
    BY <1>1, <2>1, <2>2, <2>3 DEF Device
<1>2. ASSUME NEW c \in Installed,
             \/ \E icw \in Icws : WriteICW1(c, icw[1], icw[2])
             \/ \E on \in SpecialMask : WriteSpecialMask(c, on)
             \/ \E l \in Lines : SpecificEOI(c, l)
             \/ NonspecificEOI(c)
             \/ \E mask \in Masks : WriteMask(c, mask)
             \/ WriteICW23(c)
             \/ \E autoEoi \in AutoEois : WriteICW4(c, autoEoi)
      PROVE  CascadeIsLevel' /\ SlaveReachesMaster'
  <2>1. CASE \E icw \in Icws : WriteICW1(c, icw[1], icw[2])
    <3>1. PICK icw \in Icws : WriteICW1(c, icw[1], icw[2])
      BY <2>1
    <3>2. icw[1] \in BOOLEAN /\ icw[2] \in {2, 3}
      BY PicAssumption
    <3>. QED
      BY <3>1, <3>2, ICW1Reaches
  <2>2. CASE \E on \in SpecialMask : WriteSpecialMask(c, on)
    BY <2>2, SpecialMaskReaches, PicAssumption
  <2>3. CASE \E l \in Lines : SpecificEOI(c, l)
    BY <2>3, EOIReaches DEF SpecificEOI
  <2>4. CASE NonspecificEOI(c)
    BY <2>4, EOIReaches DEF NonspecificEOI
  <2>5. CASE \E mask \in Masks : WriteMask(c, mask)
    BY <2>5, MaskReaches, InstalledChip, PicAssumption DEF WriteMask
  <2>6. CASE WriteICW23(c)
    BY <2>6, ICW23Reaches
  <2>7. CASE \E autoEoi \in AutoEois : WriteICW4(c, autoEoi)
    BY <2>7, ICW4Reaches, PicAssumption
  <2>. QED
    BY <1>2, <2>1, <2>2, <2>3, <2>4, <2>5, <2>6, <2>7
<1>3. CASE Firmware
  BY <1>3, SetIRQMaskReaches, PicAssumption DEF Firmware
<1>4. CASE UNCHANGED <<master, slave>>
  BY <1>4 DEF ReachInv, CascadeIsLevel, SlaveReachesMaster, Deliverable, Possible, Limit
<1>5. CASE PIC_runIRQs
  BY <1>5, DispatchReaches DEF PIC_runIRQs
<1>6. CASE PIC_Reset
  BY <1>6, ResetReaches
<1>7. CASE PIC_IRQCheckDelayed \/ (\E b \in BOOLEAN : CPUSetsAccepting(b)) \/ UNCHANGED vars
  BY <1>4, <1>7 DEF PIC_IRQCheckDelayed, CPUSetsAccepting, vars
<1>. QED
  BY <1>1, <1>2, <1>3, <1>5, <1>6, <1>7 DEF Next, Program, CPU

\* With any wiring, modes and initialisations, what the slave could deliver is
\* requested of the master, or the slave's own special mask mode holds it back.
THEOREM SlaveIsHeard == Spec => []SlaveReachesMaster
<1>1. ReachInv => SlaveReachesMaster
  BY DEF ReachInv
<1>2. ReachInv /\ [Next]_vars => ReachInv'
  BY NextReaches
<1>. QED
  BY <1>1, <1>2, InitReaches, PTL DEF Spec

----------------------------------------------------------------------------
(* Fully nested mode: without the special mask mode the line in service with *)
(* the cached priority is the lowest, and only a line above it is started.    *)

NestedOrder(p) == ~p.special /\ \A k \in p.isr : p.active_irq <= k

NestedInv ==
    PicInv /\ (SpecialMask \subseteq {FALSE} => NestedOrder(master) /\ NestedOrder(slave))

\* How the service of a controller goes on: lines end, or one is started.
Served(p, q) ==
    /\ ~q.special
    /\ \/ q.isr \subseteq p.isr /\ \A k \in q.isr : q.active_irq <= k
       \/ \E l \in Deliverable(p) : q.isr = p.isr \cup {l} /\ q.active_irq = l

\* The controllers' services go on.
BothServed == Served(master, master') /\ Served(slave, slave')

SameService(p, q) == q.isr = p.isr /\ q.active_irq = p.active_irq /\ q.special = p.special

LEMMA SameServed ==
  ASSUME NEW p, NEW q, NestedOrder(p), SameService(p, q) PROVE Served(p, q)
  BY DEF NestedOrder, SameService, Served

LEMMA SameAfterServed ==
  ASSUME NEW p, NEW q, NEW r, Served(p, q), SameService(q, r) PROVE Served(p, r)
  BY DEF SameService, Served

\* What starts is above all that is in service.
LEMMA ServedNests ==
  ASSUME NEW p \in Chip, NEW q \in Chip, ActiveInService(p), NestedOrder(p), Served(p, q)
  PROVE  /\ NestedOrder(q)
         /\ \A l \in q.isr \ p.isr, k \in p.isr \cap q.isr : l < k
<1>0. p.isr \subseteq Lines /\ p.active_irq \in 0 .. NLines /\ q.isr \subseteq Lines
  BY DEF Chip
<1>1. CASE q.isr \subseteq p.isr /\ \A k \in q.isr : q.active_irq <= k
  BY <1>1 DEF NestedOrder, Served
<1>2. ASSUME NEW l \in Deliverable(p), q.isr = p.isr \cup {l}, q.active_irq = l
      PROVE  /\ NestedOrder(q)
             /\ \A j \in q.isr \ p.isr, k \in p.isr \cap q.isr : j < k
  <2>1. l \in Int /\ p.active_irq \in Int /\ p.isr \subseteq Int
    BY <1>0, <1>2 DEF Lines
  <2>2. ASSUME NEW k \in p.isr PROVE l <= k /\ (l \notin p.isr => l < k)
    <3>1. p.active_irq \in p.isr /\ p.active_irq <= k /\ k \in Int
      BY <2>1, <2>2 DEF ActiveInService, NestedOrder
    <3>2. l < p.active_irq + 1
      <4>1. l < Limit(p)
        BY DEF Deliverable
      <4>2. Limit(p) = p.active_irq \/ Limit(p) = p.active_irq + 1
        BY DEF Limit, NestedOrder
      <4>. QED
        BY <2>1, <4>1, <4>2
    <3>3. l \notin p.isr => l # p.active_irq
      BY <3>1
    <3>. QED
      BY <2>1, <3>1, <3>2, <3>3
  <2>3. ~q.special
    BY DEF Served
  <2>. QED
    BY <1>2, <2>1, <2>2, <2>3 DEF NestedOrder
<1>. QED
  BY <1>1, <1>2 DEF Served

LEMMA RaisedSame ==
  ASSUME NEW p \in Chip, NEW l
  PROVE  SameService(p, Raised(p, l)) /\ SameService(p, Lowered(p, l))
  BY RaisedActive, RaisedKeeps DEF SameService

LEMMA CascadedSame ==
  ASSUME NEW m \in Chip, NEW s PROVE SameService(m, Cascaded(m, s))
<1>1. SameService(m, m)
  BY DEF SameService
<1>. QED
  BY <1>1, RaisedSame DEF Cascaded

LEMMA CommitServes ==
  ASSUME NestedInv, SpecialMask \subseteq {FALSE}, NEW c \in Chips, NEW p \in Chip, NEW check,
         Commit(c, p, check), Served(Controller(c), p)
  PROVE  BothServed
<1>0. /\ master \in Chip /\ slave \in Chip /\ NestedOrder(master) /\ NestedOrder(slave)
      /\ SameService(master, master) /\ SameService(slave, slave)
  BY DEF NestedInv, PicInv, TypeOK, SameService
<1>1. CASE c = "master"
  BY <1>0, <1>1, SameServed DEF Commit, Controller, BothServed
<1>2. CASE c = "slave"
  <2>1. slave' = p /\ master' = (IF check THEN Cascaded(master, p) ELSE master) /\ Controller(c) = slave
    BY <1>2 DEF Commit, Controller
  <2>2. SameService(master, master')
    BY <1>0, <2>1, CascadedSame
  <2>. QED
    BY <1>0, <2>1, <2>2, SameServed DEF BothServed
<1>. QED
  BY <1>1, <1>2 DEF Chips

LEMMA CommitSame ==
  ASSUME NestedInv, SpecialMask \subseteq {FALSE}, NEW c \in Chips, NEW p \in Chip, NEW check,
         Commit(c, p, check), SameService(Controller(c), p)
  PROVE  BothServed
<1>1. NestedOrder(Controller(c))
  BY DEF NestedInv, Controller
<1>. QED
  BY <1>1, SameServed, CommitServes

LEMMA AfterDispatchServes ==
  ASSUME NEW m \in Chip, NEW s \in Chip, NEW found, NEW taken, AfterDispatch(m, s, found, taken),
         Served(master, m), Served(slave, s)
  PROVE  BothServed
<1>1. master' = (IF s.auto_eoi THEN Cascaded(m, s) ELSE m) /\ slave' = s
  BY Zenon DEF AfterDispatch
<1>2. SameService(m, master')
  BY <1>1, CascadedSame DEF SameService
<1>. QED
  BY <1>1, <1>2, SameAfterServed DEF BothServed

----------------------------------------------------------------------------
(* The actions. *)

LEMMA DeviceServes ==
  ASSUME NestedInv, SpecialMask \subseteq {FALSE}, NEW irq \in Irq16,
         \/ PIC_ActivateIRQ(irq) \/ PIC_DeActivateIRQ(irq)
         \/ \E set \in BOOLEAN : PIC_EdgeTrigger(irq, set)
  PROVE  BothServed
<1> DEFINE c == ChipOf(Routed(irq))
           l == LineOf(Routed(irq))
           q == Controller(c)
<1>0. /\ master \in Chip /\ slave \in Chip /\ NestedOrder(master) /\ NestedOrder(slave)
      /\ SameService(master, master) /\ SameService(slave, slave)
  BY DEF NestedInv, PicInv, TypeOK, SameService
<1>1. c \in Chips /\ l \in Lines
  BY RoutedLine DEF ChipOf, Chips
<1>2. q \in Chip
  BY <1>1, Controllers DEF NestedInv
<1>3. CASE PIC_ActivateIRQ(irq)
  <2>1. SameService(master, master') /\ SameService(slave, slave')
    <3>1. CASE c = "master"
      BY <1>0, <1>3, <3>1, RaisedSame DEF PIC_ActivateIRQ, Controller
    <3>2. CASE c = "slave"
      <4>1. /\ slave' = Raised(slave, l)
            /\ master' = IF RaiseActivates(slave, l) THEN Raised(master, Cascade) ELSE master
        BY <1>3, <3>2 DEF PIC_ActivateIRQ, Controller
      <4>. QED
        BY <1>0, <4>1, RaisedSame
    <3>. QED
      BY <1>1, <3>1, <3>2 DEF Chips
  <2>. QED
    BY <1>0, <2>1, SameServed DEF BothServed
<1>4. CASE PIC_DeActivateIRQ(irq)
  <2>1. Commit(c, Lowered(q, l), LowerChecks(q, l))
    BY <1>4 DEF PIC_DeActivateIRQ
  <2>. QED
    BY <1>1, <1>2, <2>1, LoweredType, RaisedSame, CommitSame
<1>5. ASSUME NEW set \in BOOLEAN, PIC_EdgeTrigger(irq, set) PROVE BothServed
  <2> DEFINE edge == IF set THEN q.edge \cup {l} ELSE q.edge \ {l}
             p == [q EXCEPT !.edge = edge]
  <2>1. edge \in SUBSET Lines
    BY <1>1, <1>2 DEF Chip
  <2>2. p \in Chip /\ SameService(q, p)
    <3>. HIDE DEF q, edge
    <3>. QED
      BY <1>2, <2>1 DEF Chip, SameService
  <2>3. Commit(c, p, FALSE)
    BY <1>5 DEF PIC_EdgeTrigger
  <2>. QED
    BY <1>1, <2>2, <2>3, CommitSame
<1>. QED
  BY <1>3, <1>4, <1>5

LEMMA ImrServes ==
  ASSUME NestedInv, SpecialMask \subseteq {FALSE}, NEW c \in Chips, NEW mask \in SUBSET Lines, SetImr(c, mask)
  PROVE  BothServed
<1>. DEFINE q == Controller(c)
            p == [q EXCEPT !.imr = mask]
            check == q.irr \cap ((q.imr \ mask) \cup (mask \ q.imr))
                           \cap ((Lines \ q.isr) \cup q.isr_ignore) # {}
<1>1. q \in Chip
  BY Controllers DEF NestedInv
<1>2. p \in Chip /\ SameService(q, p)
  <2>. HIDE DEF q
  <2>. QED
    BY <1>1 DEF Chip, SameService
<1>3. Commit(c, p, check)
  BY DEF SetImr
<1>. HIDE DEF check, p
<1>. QED
  BY <1>2, <1>3, CommitSame

LEMMA ICW1Serves ==
  ASSUME NestedInv, SpecialMask \subseteq {FALSE}, NEW c \in Chips, NEW single \in BOOLEAN,
         NEW words \in {2, 3}, WriteICW1(c, single, words)
  PROVE  BothServed
<1>. DEFINE q == Controller(c)
            r == [q EXCEPT !.imr = {}]
            r1 == [r EXCEPT !.single = single]
            r2 == [r1 EXCEPT !.icw_index = 1]
            p == [r EXCEPT !.single = single, !.icw_index = 1, !.icw_words = words]
            check == (q.irr \cap q.imr) \cap ((Lines \ q.isr) \cup q.isr_ignore) # {}
<1>1. q \in Chip
  BY Controllers DEF NestedInv
<1>2. r \in Chip /\ SameService(q, r)
  <2>. HIDE DEF q
  <2>. QED
    BY <1>1 DEF Chip, SameService
<1>3. r1 \in Chip /\ SameService(q, r1)
  <2>. HIDE DEF r, q
  <2>. QED
    BY <1>2 DEF Chip, SameService
<1>4. r2 \in Chip /\ SameService(q, r2)
  <2>. HIDE DEF r, r1, q
  <2>. QED
    BY <1>3 DEF Chip, SameService
<1>5. p \in Chip /\ SameService(q, p)
  <2>1. p = [r2 EXCEPT !.icw_words = words]
    BY Zenon
  <2>. HIDE DEF r, r2, p, q
  <2>. QED
    BY <1>4, <2>1 DEF Chip, SameService
<1>6. Commit(c, p, check)
  BY DEF WriteICW1
<1>. HIDE DEF p, check
<1>. QED
  BY <1>5, <1>6, CommitSame

\* Words of the initialisation, and the special mask mode left off.
LEMMA ProgramServes ==
  ASSUME NestedInv, SpecialMask \subseteq {FALSE}, NEW c \in Chips,
         \/ \E on \in SpecialMask : WriteSpecialMask(c, on)
         \/ WriteICW23(c)
         \/ \E autoEoi \in AutoEois : WriteICW4(c, autoEoi)
  PROVE  BothServed
<1>. DEFINE q == Controller(c)
<1>1. q \in Chip /\ NestedOrder(q) /\ NextIcw(q) \in 0 .. 3 /\ AutoEois \subseteq BOOLEAN
  BY Controllers, NextIcwType, PicAssumption DEF NestedInv, Controller
<1>2. ASSUME NEW on \in SpecialMask, WriteSpecialMask(c, on) PROVE BothServed
  <2> DEFINE p == [q EXCEPT !.special = FALSE]
  <2>1. p \in Chip /\ SameService(q, p)
    <3>1. q.special = FALSE
      BY <1>1 DEF NestedOrder, Chip
    <3>. HIDE DEF q
    <3>. QED
      BY <1>1, <3>1 DEF Chip, SameService
  <2>2. on = FALSE
    BY <1>2
  <2>3. Commit(c, p, TRUE)
    BY <1>2, <2>2 DEF WriteSpecialMask
  <2>. QED
    BY <2>1, <2>3, CommitSame
<1>3. CASE WriteICW23(c)
  <2> DEFINE p == [q EXCEPT !.icw_index = NextIcw(q)]
  <2>1. p \in Chip /\ SameService(q, p)
    <3>. HIDE DEF q
    <3>. QED
      BY <1>1 DEF Chip, SameService
  <2>2. Commit(c, p, FALSE)
    BY <1>3 DEF WriteICW23
  <2>. QED
    BY <2>1, <2>2, CommitSame
<1>4. ASSUME NEW autoEoi \in AutoEois, WriteICW4(c, autoEoi) PROVE BothServed
  <2> DEFINE r == [q EXCEPT !.auto_eoi = autoEoi]
             p == [r EXCEPT !.icw_index = NextIcw(q)]
  <2>1. r \in Chip /\ SameService(q, r)
    <3>. HIDE DEF q
    <3>. QED
      BY <1>1 DEF Chip, SameService
  <2>2. p \in Chip /\ SameService(q, p)
    <3>. HIDE DEF q, r
    <3>. QED
      BY <1>1, <2>1 DEF Chip, SameService
  <2>3. Commit(c, p, FALSE)
    BY <1>4 DEF WriteICW4
  <2>. QED
    BY <2>2, <2>3, CommitSame
<1>. QED
  BY <1>2, <1>3, <1>4

\* The end of an interrupt takes a line out and looks for the lowest left.
LEMMA EOIServes ==
  ASSUME NestedInv, SpecialMask \subseteq {FALSE}, NEW c \in Chips, NEW l, EndOfInterrupt(c, l)
  PROVE  BothServed
<1>. DEFINE q == Controller(c)
            p == Ended(q, l)
            left == q.isr \ {l}
<1>1. q \in Chip /\ ~q.special
  BY Controllers DEF NestedInv, NestedOrder, Controller
<1>2. p \in Chip
  BY <1>1, EndedType
<1>3. /\ p.isr = left /\ p.special = q.special
      /\ p.active_irq = IF left = {} THEN NLines ELSE LowestLine(left)
  <2>. HIDE DEF q
  <2>. QED
    BY <1>1 DEF Ended, Chip
<1>4. left \in SUBSET Lines /\ (left # {} => \A k \in left : LowestLine(left) <= k)
  BY <1>1, LowestLineIn DEF Chip
<1>5. Commit(c, p, Possible(p) # {})
  BY DEF EndOfInterrupt
<1>6. Served(q, p)
  <2>1. left \subseteq q.isr
    OBVIOUS
  <2>. HIDE DEF q, p, left
  <2>. QED
    BY <1>1, <1>3, <1>4, <2>1 DEF Served
<1>. QED
  BY <1>2, <1>5, <1>6, CommitServes

\* What a dispatch starts was deliverable.
LEMMA StartedServes ==
  ASSUME NEW p \in Chip, NestedOrder(p), NEW l \in Deliverable(p)
  PROVE  Served(p, Started(p, l))
<1>1. CASE p.auto_eoi
  <2>1. SameService(p, Started(p, l))
    BY <1>1 DEF Started, SameService, Chip
  <2>. QED
    BY <2>1, SameServed
<1>2. CASE ~p.auto_eoi
  <2>1. /\ Started(p, l).isr = p.isr \cup {l} /\ Started(p, l).active_irq = l
        /\ Started(p, l).special = p.special
    BY <1>2 DEF Started, Chip
  <2>. QED
    BY <2>1 DEF Served, NestedOrder
<1>. QED
  BY <1>1, <1>2

LEMMA MasterStartedServes ==
  ASSUME NestedInv, NestedOrder(master), NEW l \in Deliverable(master)
  PROVE  Served(master, MasterStarted(l))
<1>1. master \in Chip
  BY DEF NestedInv, PicInv, TypeOK
<1>2. SameService(master, [master EXCEPT !.irr = @ \ {l}])
  BY <1>1 DEF SameService, Chip
<1>. QED
  BY <1>1, <1>2, SameServed, StartedServes DEF MasterStarted

LEMMA SlaveStartedServes ==
  ASSUME NestedInv, NestedOrder(slave), NEW b
  PROVE  Served(slave, SlaveStarted(b))
<1> DEFINE cand == Candidates(slave, NLines, b)
<1>1. slave \in Chip /\ SameService(slave, slave)
  BY DEF NestedInv, PicInv, TypeOK, SameService
<1>2. CASE cand # {}
  <2>1. LowestLine(cand) \in Deliverable(slave)
    <3>1. cand \in SUBSET Lines /\ cand \subseteq Deliverable(slave)
      BY <1>1, CandidatesLines DEF Candidates
    <3>. QED
      BY <1>2, <3>1, LowestLineIn
  <2>2. SlaveStarted(b) = Started(slave, LowestLine(cand))
    BY <1>2 DEF SlaveStarted
  <2>. QED
    BY <1>1, <2>1, <2>2, StartedServes
<1>3. CASE cand = {}
  BY <1>1, <1>3, SameServed, RaisedSame DEF SlaveStarted
<1>. QED
  BY <1>2, <1>3

LEMMA DispatchServes ==
  ASSUME NestedInv, SpecialMask \subseteq {FALSE}, NEW b \in BOOLEAN, RunNone(b) \/ RunMaster(b) \/ RunSlave(b)
  PROVE  BothServed
<1> DEFINE cand == Candidates(master, 0, b)
           taken == Candidates(slave, NLines, b) # {}
<1>0. /\ master \in Chip /\ slave \in Chip /\ NestedOrder(master) /\ NestedOrder(slave)
      /\ Served(master, master) /\ Served(slave, slave)
  BY SameServed DEF NestedInv, PicInv, TypeOK, SameService
<1>1. CASE RunNone(b)
  BY <1>0, <1>1, AfterDispatchServes DEF RunNone
<1>2. cand # {} => LowestLine(cand) \in Deliverable(master) /\ LowestLine(cand) \in Lines
  <2>1. cand \in SUBSET Lines /\ cand \subseteq Deliverable(master)
    BY <1>0, CandidatesLines DEF Candidates
  <2>. QED
    BY <2>1, LowestLineIn
<1>3. CASE RunMaster(b)
  <2> DEFINE m == MasterStarted(LowestLine(cand))
  <2>1. cand # {} /\ AfterDispatch(m, slave, TRUE, TRUE)
    BY <1>3 DEF RunMaster
  <2>2. m \in Chip /\ Served(master, m)
    BY <1>0, <1>2, <2>1, MasterStartedInv, MasterStartedServes DEF NestedInv
  <2> HIDE DEF m
  <2>. QED
    BY <1>0, <2>1, <2>2, AfterDispatchServes
<1>4. CASE RunSlave(b)
  <2> DEFINE m == IF taken THEN MasterStarted(Cascade) ELSE master
             s == SlaveStarted(b)
  <2>1. /\ cand # {} /\ LowestLine(cand) = Cascade /\ AfterDispatch(m, s, TRUE, taken)
    BY <1>4 DEF RunSlave
  <2>2. Cascade \in Lines /\ Cascade \in Deliverable(master)
    BY <1>2, <2>1
  <2>3. HasSlave
    BY <2>2, PicAssumption DEF HasSlave, Cascade, Lines
  <2>4. m \in Chip /\ s \in Chip
    BY <1>0, <2>2, <2>3, MasterStartedInv, SlaveStartedInv DEF NestedInv
  <2>5. Served(master, m) /\ Served(slave, s)
    BY <1>0, <2>2, MasterStartedServes, SlaveStartedServes
  <2> HIDE DEF m, s, taken
  <2>. QED
    BY <2>1, <2>4, <2>5, AfterDispatchServes
<1>. QED
  BY <1>1, <1>3, <1>4

LEMMA ResetServes ==
  ASSUME PIC_Reset PROVE BothServed
<1>1. \A p \in {ResetMaster, ResetSlave} : p.isr = {} /\ ~p.special
  BY DEF ResetMaster, ResetSlave, NewChip
<1>. QED
  BY <1>1 DEF PIC_Reset, BothServed, Served

LEMMA NextServes ==
  ASSUME NestedInv, SpecialMask \subseteq {FALSE}, [Next]_vars
  PROVE  BothServed
<1>0. NestedOrder(master) /\ NestedOrder(slave)
  BY DEF NestedInv
<1>1. CASE Device
  <2>1. Irqs \subseteq Irq16 /\ EdgeIrqs \subseteq Irq16
    BY PicAssumption
  <2>. QED
    BY <1>1, <2>1, DeviceServes DEF Device
<1>2. ASSUME NEW c \in Installed,
             \/ \E icw \in Icws : WriteICW1(c, icw[1], icw[2])
             \/ \E on \in SpecialMask : WriteSpecialMask(c, on)
             \/ \E l \in Lines : SpecificEOI(c, l)
             \/ NonspecificEOI(c)
             \/ \E mask \in Masks : WriteMask(c, mask)
             \/ WriteICW23(c)
             \/ \E autoEoi \in AutoEois : WriteICW4(c, autoEoi)
      PROVE  BothServed
  <2>0. c \in Chips
    BY InstalledChip
  <2>1. CASE \E icw \in Icws : WriteICW1(c, icw[1], icw[2])
    <3>1. PICK icw \in Icws : WriteICW1(c, icw[1], icw[2])
      BY <2>1
    <3>2. icw[1] \in BOOLEAN /\ icw[2] \in {2, 3}
      BY PicAssumption
    <3>. QED
      BY <2>0, <3>1, <3>2, ICW1Serves
  <2>2. CASE (\E l \in Lines : SpecificEOI(c, l)) \/ NonspecificEOI(c)
    BY <2>0, <2>2, EOIServes DEF SpecificEOI, NonspecificEOI
  <2>3. CASE \E mask \in Masks : WriteMask(c, mask)
    BY <2>0, <2>3, ImrServes, PicAssumption DEF WriteMask
  <2>. QED
    BY <1>2, <2>0, <2>1, <2>2, <2>3, ProgramServes
<1>3. CASE Firmware
  <2>1. PICK irq \in MaskIrqs, masked \in BOOLEAN : PIC_SetIRQMask(irq, masked)
    BY <1>3 DEF Firmware
  <2> DEFINE imr == Controller(ChipOf(irq)).imr
             mask == IF masked THEN imr \cup {LineOf(irq)} ELSE imr \ {LineOf(irq)}
  <2>2. ChipOf(irq) \in Chips /\ LineOf(irq) \in Lines
    BY RoutedLine, PicAssumption DEF ChipOf, Chips
  <2>3. mask \in SUBSET Lines
    BY <2>2, Controllers DEF Chip, NestedInv
  <2>4. SetImr(ChipOf(irq), mask)
    BY <2>1 DEF PIC_SetIRQMask
  <2>. QED
    BY <2>2, <2>3, <2>4, ImrServes
<1>4. CASE UNCHANGED <<master, slave>>
  BY <1>0, <1>4, SameServed DEF BothServed, SameService
<1>5. CASE PIC_runIRQs
  BY <1>5, DispatchServes DEF PIC_runIRQs
<1>6. CASE PIC_Reset
  BY <1>6, ResetServes
<1>7. CASE PIC_IRQCheckDelayed \/ (\E b \in BOOLEAN : CPUSetsAccepting(b)) \/ UNCHANGED vars
  BY <1>4, <1>7 DEF PIC_IRQCheckDelayed, CPUSetsAccepting, vars
<1>. QED
  BY <1>1, <1>2, <1>3, <1>5, <1>6, <1>7 DEF Next, Program, CPU

LEMMA NextNests ==
  ASSUME NestedInv, [Next]_vars
  PROVE  /\ NestedInv'
         /\ \A p \in {<<master, master'>>, <<slave, slave'>>} :
              SpecialMask \subseteq {FALSE} =>
                  \A l \in p[2].isr \ p[1].isr, k \in p[1].isr \cap p[2].isr : l < k
<1>1. PicInv'
  BY NextInv DEF NestedInv
<1>2. /\ master \in Chip /\ slave \in Chip /\ master' \in Chip /\ slave' \in Chip
      /\ ActiveInService(master) /\ ActiveInService(slave)
  BY <1>1 DEF NestedInv, PicInv, TypeOK, ActiveMatchesService
<1>3. ASSUME SpecialMask \subseteq {FALSE}
      PROVE  /\ NestedOrder(master') /\ NestedOrder(slave')
             /\ \A l \in master'.isr \ master.isr, k \in master.isr \cap master'.isr : l < k
             /\ \A l \in slave'.isr \ slave.isr, k \in slave.isr \cap slave'.isr : l < k
  <2>1. Served(master, master') /\ Served(slave, slave')
    BY <1>3, NextServes DEF BothServed
  <2>2. NestedOrder(master) /\ NestedOrder(slave)
    BY <1>3 DEF NestedInv
  <2>. QED
    BY <1>2, <2>1, <2>2, ServedNests
<1>4. NestedInv'
  BY <1>1, <1>3 DEF NestedInv, NestedOrder
<1>5. ASSUME SpecialMask \subseteq {FALSE}, NEW p \in {<<master, master'>>, <<slave, slave'>>}
      PROVE  \A l \in p[2].isr \ p[1].isr, k \in p[1].isr \cap p[2].isr : l < k
  <2>1. CASE p = <<master, master'>>
    <3>1. p[1] = master /\ p[2] = master'
      BY <2>1
    <3>. QED
      BY <1>3, <1>5, <3>1, Zenon
  <2>2. CASE p = <<slave, slave'>>
    <3>1. p[1] = slave /\ p[2] = slave'
      BY <2>2
    <3>. QED
      BY <1>3, <1>5, <3>1, Zenon
  <2>. QED
    BY <1>5, <2>1, <2>2
<1>. QED
  BY <1>4, <1>5, Zenon

LEMMA InitNests == Init => NestedInv
<1> SUFFICES ASSUME Init PROVE NestedInv
  OBVIOUS
<1>1. \A p \in {master, slave} : p.isr = {} /\ ~p.special
  BY DEF Init, ResetMaster, ResetSlave, NewChip
<1>. QED
  BY <1>1, InitInv DEF NestedInv, NestedOrder

\* In fully nested mode an interrupt is only interrupted by one above it, for any
\* lines and wiring: on both controllers, through raises, EOIs and masks.
THEOREM ServiceNests == Spec => FullyNested
<1>1. NestedInv /\ [Next]_vars => NestedInv'
  BY NextNests
<1>2. NestedInv /\ [Next]_vars =>
        [\A p \in {<<master, master'>>, <<slave, slave'>>} :
            SpecialMask \subseteq {FALSE} =>
                \A l \in p[2].isr \ p[1].isr, k \in p[1].isr \cap p[2].isr : l < k]_vars
  BY NextNests
<1>. QED
  BY <1>1, <1>2, InitNests, PTL DEF Spec, FullyNested

----------------------------------------------------------------------------
(* No request is forgotten. *)

\* Requests stay, but for the slave's on the master.
Keeps(p, q) == p.irr \subseteq q.irr \cup {Cascade}
BothKeep == Keeps(master, master') /\ Keeps(slave, slave')

LEMMA CascadedKeeps ==
  ASSUME NEW m \in Chip, NEW s PROVE Keeps(m, Cascaded(m, s))
<1>1. /\ m.irr \subseteq Raised(m, Cascade).irr
      /\ m.irr \subseteq Lowered(m, Cascade).irr \cup {Cascade}
  BY CascadeRaised
<1>. QED
  BY <1>1 DEF Cascaded, Keeps

LEMMA CommitKeeps ==
  ASSUME PicInv, NEW c \in Chips, NEW p, NEW check, Commit(c, p, check),
         p.irr = Controller(c).irr
  PROVE  BothKeep
<1>1. master \in Chip /\ slave \in Chip
  BY DEF PicInv, TypeOK
<1>2. CASE c = "master"
  BY <1>2 DEF Commit, Controller, BothKeep, Keeps
<1>3. CASE c = "slave"
  BY <1>1, <1>3, CascadedKeeps DEF Commit, Controller, BothKeep, Keeps
<1>. QED
  BY <1>2, <1>3 DEF Chips

LEMMA BothKeepForgetsNone == BothKeep => Forgotten = {}
BY DEF BothKeep, Keeps, Forgotten

LEMMA DeviceKeeps ==
  ASSUME PicInv, NEW irq \in Irq16,
         PIC_ActivateIRQ(irq) \/ \E set \in BOOLEAN : PIC_EdgeTrigger(irq, set)
  PROVE  BothKeep
<1> DEFINE c == ChipOf(Routed(irq))
           l == LineOf(Routed(irq))
           q == Controller(c)
<1>0. master \in Chip /\ slave \in Chip
  BY DEF PicInv, TypeOK
<1>1. c \in Chips /\ l \in Lines
  BY RoutedLine DEF ChipOf, Chips
<1>2. q \in Chip
  BY <1>1, Controllers
<1>3. CASE PIC_ActivateIRQ(irq)
  <2>1. CASE c = "master"
    <3>1. master' = Raised(master, l) /\ slave' = slave
      BY <1>3, <2>1 DEF PIC_ActivateIRQ, Controller
    <3>. QED
      BY <1>0, <3>1, CascadeRaised DEF BothKeep, Keeps
  <2>2. CASE c = "slave"
    <3>1. /\ slave' = Raised(slave, l)
          /\ master' = IF RaiseActivates(slave, l) THEN Raised(master, Cascade) ELSE master
      BY <1>3, <2>2 DEF PIC_ActivateIRQ, Controller
    <3>. QED
      BY <1>0, <3>1, CascadeRaised DEF BothKeep, Keeps
  <2>. QED
    BY <1>1, <2>1, <2>2 DEF Chips
<1>4. ASSUME NEW set \in BOOLEAN, PIC_EdgeTrigger(irq, set) PROVE BothKeep
  <2> DEFINE edge == IF set THEN q.edge \cup {l} ELSE q.edge \ {l}
             p == [q EXCEPT !.edge = edge]
  <2>1. p.irr = q.irr
    <3>. HIDE DEF q, edge
    <3>. QED
      BY <1>2 DEF Chip
  <2>2. Commit(c, p, FALSE)
    BY <1>4 DEF PIC_EdgeTrigger
  <2>. HIDE DEF p
  <2>. QED
    BY <1>1, <2>1, <2>2, CommitKeeps
<1>. QED
  BY <1>3, <1>4

LEMMA ImrKeeps ==
  ASSUME PicInv, NEW c \in Chips, NEW mask, SetImr(c, mask)
  PROVE  BothKeep
<1>. DEFINE q == Controller(c)
            p == [q EXCEPT !.imr = mask]
            check == q.irr \cap ((q.imr \ mask) \cup (mask \ q.imr))
                           \cap ((Lines \ q.isr) \cup q.isr_ignore) # {}
<1>1. p.irr = q.irr
  <2>1. q \in Chip
    BY Controllers
  <2>. HIDE DEF q
  <2>. QED
    BY <2>1 DEF Chip
<1>2. Commit(c, p, check)
  BY DEF SetImr
<1>. HIDE DEF check, p
<1>. QED
  BY <1>1, <1>2, CommitKeeps

\* The words of the initialisation and the modes.
LEMMA ProgramKeeps ==
  ASSUME PicInv, NEW c \in Chips,
         \/ \E icw \in Icws : WriteICW1(c, icw[1], icw[2])
         \/ \E on \in SpecialMask : WriteSpecialMask(c, on)
         \/ \E l \in Lines : EndOfInterrupt(c, l)
         \/ NonspecificEOI(c)
         \/ WriteICW23(c)
         \/ \E autoEoi \in AutoEois : WriteICW4(c, autoEoi)
  PROVE  BothKeep
<1>. DEFINE q == Controller(c)
<1>1. q \in Chip
  BY Controllers
<1>2. ASSUME NEW icw \in Icws, WriteICW1(c, icw[1], icw[2]) PROVE BothKeep
  <2> DEFINE r == [q EXCEPT !.imr = {}]
             r1 == [r EXCEPT !.single = icw[1]]
             r2 == [r1 EXCEPT !.icw_index = 1]
             p == [r EXCEPT !.single = icw[1], !.icw_index = 1, !.icw_words = icw[2]]
             check == (q.irr \cap q.imr) \cap ((Lines \ q.isr) \cup q.isr_ignore) # {}
  <2>0. icw[1] \in BOOLEAN /\ icw[2] \in {2, 3}
    BY PicAssumption
  <2>1. r \in Chip /\ r.irr = q.irr
    <3>. HIDE DEF q
    <3>. QED
      BY <1>1 DEF Chip
  <2>2. r1 \in Chip /\ r1.irr = q.irr
    <3>. HIDE DEF q, r
    <3>. QED
      BY <2>0, <2>1 DEF Chip
  <2>3. r2 \in Chip /\ r2.irr = q.irr
    <3>. HIDE DEF q, r, r1
    <3>. QED
      BY <2>2 DEF Chip
  <2>4. p.irr = q.irr
    <3>1. p = [r2 EXCEPT !.icw_words = icw[2]]
      BY Zenon
    <3>. HIDE DEF p, q, r, r2
    <3>. QED
      BY <2>3, <3>1 DEF Chip
  <2>5. Commit(c, p, check)
    BY <1>2 DEF WriteICW1
  <2>. HIDE DEF p, check
  <2>. QED
    BY <2>4, <2>5, CommitKeeps
<1>3. ASSUME NEW on \in SpecialMask, WriteSpecialMask(c, on) PROVE BothKeep
  <2> DEFINE p == [q EXCEPT !.special = on]
  <2>1. p.irr = q.irr
    <3>. HIDE DEF q
    <3>. QED
      BY <1>1 DEF Chip
  <2>2. Commit(c, p, TRUE)
    BY <1>3 DEF WriteSpecialMask
  <2>. HIDE DEF p
  <2>. QED
    BY <2>1, <2>2, CommitKeeps
<1>4. ASSUME NEW l, EndOfInterrupt(c, l) PROVE BothKeep
  <2> DEFINE p == Ended(q, l)
  <2>1. p.irr = q.irr
    <3>. HIDE DEF q
    <3>. QED
      BY <1>1 DEF Ended, Chip
  <2>2. Commit(c, p, Possible(p) # {})
    BY <1>4 DEF EndOfInterrupt
  <2>. HIDE DEF p
  <2>. QED
    BY <2>1, <2>2, CommitKeeps
<1>5. CASE WriteICW23(c)
  <2> DEFINE p == [q EXCEPT !.icw_index = NextIcw(q)]
  <2>1. p.irr = q.irr
    <3>. HIDE DEF q
    <3>. QED
      BY <1>1 DEF Chip
  <2>2. Commit(c, p, FALSE)
    BY <1>5 DEF WriteICW23
  <2>. HIDE DEF p
  <2>. QED
    BY <2>1, <2>2, CommitKeeps
<1>6. ASSUME NEW autoEoi \in AutoEois, WriteICW4(c, autoEoi) PROVE BothKeep
  <2> DEFINE r == [q EXCEPT !.auto_eoi = autoEoi]
             p == [r EXCEPT !.icw_index = NextIcw(q)]
  <2>0. autoEoi \in BOOLEAN
    BY PicAssumption
  <2>1. r \in Chip /\ r.irr = q.irr
    <3>. HIDE DEF q
    <3>. QED
      BY <1>1, <2>0 DEF Chip
  <2>2. p.irr = q.irr
    <3>. HIDE DEF q, r
    <3>. QED
      BY <2>1 DEF Chip
  <2>3. Commit(c, p, FALSE)
    BY <1>6 DEF WriteICW4
  <2>. HIDE DEF p
  <2>. QED
    BY <2>2, <2>3, CommitKeeps
<1>. QED
  BY <1>2, <1>3, <1>4, <1>5, <1>6 DEF NonspecificEOI

\* A dispatch forgets at most what it starts, and starts at most one.
LEMMA DispatchForgets ==
  ASSUME PicInv, NEW b \in BOOLEAN, RunNone(b) \/ RunMaster(b) \/ RunSlave(b)
  PROVE  Forgotten = {} \/ (~accepting' /\ Cardinality(Forgotten) = 1)
<1> DEFINE cand == Candidates(master, 0, b)
           taken == Candidates(slave, NLines, b) # {}
<1>0. master \in Chip /\ slave \in Chip
  BY DEF PicInv, TypeOK
<1>1. CASE RunNone(b)
  <2>1. slave' = slave /\ master' = IF slave.auto_eoi THEN Cascaded(master, slave) ELSE master
    BY <1>1, Zenon DEF RunNone, AfterDispatch
  <2>2. BothKeep
    BY <1>0, <2>1, CascadedKeeps DEF BothKeep, Keeps
  <2>. QED
    BY <2>2, BothKeepForgetsNone
<1>2. CASE RunMaster(b)
  <2> DEFINE l == LowestLine(cand)
             m == MasterStarted(l)
  <2>1. cand # {} /\ l # Cascade /\ AfterDispatch(m, slave, TRUE, TRUE)
    BY <1>2 DEF RunMaster
  <2>2. l \in master.irr /\ l \in Lines
    <3>1. cand \in SUBSET Lines /\ cand \subseteq master.irr
      BY <1>0, CandidatesLines DEF Candidates, Deliverable, Possible
    <3>. QED
      BY <2>1, <3>1, LowestLineIn
  <2>3. m \in Chip /\ m.irr = master.irr \ {l}
    <3>1. [master EXCEPT !.irr = @ \ {l}].irr = master.irr \ {l}
      BY <1>0 DEF Chip
    <3>2. Started(master, l).irr = master.irr \ {l}
      BY <1>0 DEF Started, Chip
    <3>. QED
      BY <2>2, <3>1, <3>2, MasterStartedInv DEF MasterStarted
  <2> HIDE DEF m, l
  <2>4. /\ slave' = slave /\ master' = (IF slave.auto_eoi THEN Cascaded(m, slave) ELSE m)
        /\ accepting' = (accepting /\ ~TRUE)
    BY <2>1, Zenon DEF AfterDispatch
  <2>5. accepting' = FALSE
    BY <2>4
  <2>6. l \notin Cascaded(m, slave).irr /\ Keeps(m, Cascaded(m, slave))
    <3>1. Raised(m, Cascade).irr \subseteq m.irr \cup {Cascade} /\ Lowered(m, Cascade).irr \subseteq m.irr
      BY <2>3 DEF Raised, Lowered, Chip
    <3>. QED
      BY <2>1, <2>3, <3>1, CascadedKeeps DEF Cascaded
  <2>7. Forgotten = {<<"master", l>>}
    BY <2>1, <2>2, <2>3, <2>4, <2>6 DEF Forgotten, Keeps
  <2>. QED
    BY <2>5, <2>7, FS_Singleton
<1>3. CASE RunSlave(b)
  <2> DEFINE m == IF taken THEN MasterStarted(Cascade) ELSE master
             s == SlaveStarted(b)
  <2>1. cand # {} /\ LowestLine(cand) = Cascade /\ AfterDispatch(m, s, TRUE, taken)
    BY <1>3 DEF RunSlave
  <2>2. Cascade \in Lines
    BY <1>0, <2>1, CandidatesLines, LowestLineIn
  <2>3. m \in Chip /\ Keeps(master, m)
    <3>1. m \in Chip
      BY <1>0, <2>2, MasterStartedInv
    <3>2. Keeps(master, MasterStarted(Cascade)) /\ Keeps(master, master)
      BY <1>0, MasterStartedKeeps DEF Keeps
    <3>. QED
      BY <3>1, <3>2
  <2> HIDE DEF m
  <2>4. /\ slave' = s /\ master' = (IF s.auto_eoi THEN Cascaded(m, s) ELSE m)
        /\ accepting' = (accepting /\ ~taken)
    BY <2>1, Zenon DEF AfterDispatch
  <2>5. Keeps(master, master')
    BY <2>3, <2>4, CascadedKeeps DEF Keeps
  <2>6. CASE taken
    <3> DEFINE l == LowestLine(Candidates(slave, NLines, b))
    <3>1. s = Started(slave, l)
      BY <2>6 DEF SlaveStarted
    <3>2. l \in slave.irr
      <4>1. Candidates(slave, NLines, b) \in SUBSET Lines /\ Candidates(slave, NLines, b) \subseteq slave.irr
        BY <1>0, CandidatesLines DEF Candidates, Deliverable, Possible
      <4>. QED
        BY <2>6, <4>1, LowestLineIn
    <3> HIDE DEF l, s
    <3>3. s.irr = slave.irr \ {l}
      BY <1>0, <3>1 DEF Started, Chip
    <3>4. Forgotten = {} \/ Forgotten = {<<"slave", l>>}
      BY <2>4, <2>5, <3>2, <3>3 DEF Forgotten, Keeps
    <3>5. ~accepting'
      BY <2>4, <2>6
    <3>. QED
      BY <3>4, <3>5, FS_Singleton
  <2>7. CASE ~taken
    <3>1. s = Lowered(slave, Cascade) \/ s = slave
      BY <2>7 DEF SlaveStarted
    <3>2. Keeps(slave, s)
      BY <1>0, <3>1, CascadeRaised DEF Keeps
    <3>. QED
      BY <2>4, <2>5, <3>2, BothKeepForgetsNone DEF BothKeep
  <2>. QED
    BY <2>6, <2>7
<1>. QED
  BY <1>1, <1>2, <1>3

LEMMA NextForgets ==
  ASSUME PicInv, [Next]_vars
  PROVE  \/ PIC_Reset
         \/ \E irq \in Irqs : PIC_DeActivateIRQ(irq)
         \/ Forgotten = {}
         \/ PIC_runIRQs /\ ~accepting' /\ Cardinality(Forgotten) = 1
<1>0. Irqs \subseteq Irq16 /\ EdgeIrqs \subseteq Irq16 /\ MaskIrqs \subseteq Irq16
  BY PicAssumption
<1>1. CASE Device
  BY <1>0, <1>1, DeviceKeeps, BothKeepForgetsNone DEF Device
<1>2. CASE Program
  <2>1. PICK c \in Installed :
             \/ \E icw \in Icws : WriteICW1(c, icw[1], icw[2])
             \/ \E on \in SpecialMask : WriteSpecialMask(c, on)
             \/ \E l \in Lines : SpecificEOI(c, l)
             \/ NonspecificEOI(c)
             \/ \E mask \in Masks : WriteMask(c, mask)
             \/ WriteICW23(c)
             \/ \E autoEoi \in AutoEois : WriteICW4(c, autoEoi)
    BY <1>2 DEF Program
  <2>2. c \in Chips
    BY InstalledChip
  <2>3. CASE \E mask \in Masks : WriteMask(c, mask)
    BY <2>2, <2>3, ImrKeeps, BothKeepForgetsNone DEF WriteMask
  <2>4. CASE \/ \E icw \in Icws : WriteICW1(c, icw[1], icw[2])
             \/ \E on \in SpecialMask : WriteSpecialMask(c, on)
             \/ \E l \in Lines : SpecificEOI(c, l)
             \/ NonspecificEOI(c)
             \/ WriteICW23(c)
             \/ \E autoEoi \in AutoEois : WriteICW4(c, autoEoi)
    BY <2>2, <2>4, ProgramKeeps, BothKeepForgetsNone DEF SpecificEOI
  <2>. QED
    BY <2>1, <2>3, <2>4
<1>3. CASE Firmware
  <2>1. PICK irq \in MaskIrqs, masked \in BOOLEAN : PIC_SetIRQMask(irq, masked)
    BY <1>3 DEF Firmware
  <2>2. ChipOf(irq) \in Chips
    BY DEF ChipOf, Chips
  <2>. QED
    BY <2>1, <2>2, ImrKeeps, BothKeepForgetsNone DEF PIC_SetIRQMask
<1>4. CASE UNCHANGED <<master, slave>>
  BY <1>4 DEF Forgotten
<1>5. CASE PIC_runIRQs
  BY <1>5, DispatchForgets DEF PIC_runIRQs
<1>7. CASE PIC_IRQCheckDelayed \/ (\E b \in BOOLEAN : CPUSetsAccepting(b)) \/ UNCHANGED vars
  BY <1>4, <1>7 DEF PIC_IRQCheckDelayed, CPUSetsAccepting, vars
<1>. QED
  BY <1>1, <1>2, <1>3, <1>5, <1>7 DEF Next, CPU

\* A request is forgotten only by its device, by a reset, or by the dispatch that
\* interrupts the CPU for it, and that one only.
THEOREM EachRequestOnce == Spec => OneRequestPerInterrupt
<1>1. PicInv /\ [Next]_vars =>
        [\/ PIC_Reset
         \/ \E irq \in Irqs : PIC_DeActivateIRQ(irq)
         \/ Forgotten = {}
         \/ PIC_runIRQs /\ ~accepting' /\ Cardinality(Forgotten) = 1]_vars
  BY NextForgets
<1>. QED
  BY <1>1, Invariance, PTL DEF Spec, OneRequestPerInterrupt

----------------------------------------------------------------------------
(* The highest first. *)

\* Without the hack the dispatch loop skips nothing.
LEMMA CandidatesAreAll ==
  ASSUME Hacked = {}, NEW p, NEW first, NEW b
  PROVE  Candidates(p, first, b) = Deliverable(p)
BY DEF Candidates

LEMMA DeliverableLines ==
  ASSUME NEW p \in Chip
  PROVE  Deliverable(p) \in SUBSET Lines /\ Deliverable(p) \subseteq p.irr
BY DEF Deliverable, Possible, Chip

\* The cascade among the lines, and a line's number.
LEMMA LinesAreNat ==
  /\ Lines \subseteq Nat /\ NLines \in Nat /\ Cascade \in Int
  /\ \A l \in Lines : l < NLines
BY PicAssumption DEF Lines, Cascade

\* What the slave could deliver holds back the lines below the cascade.
LEMMA SlaveBeforeTheRest ==
  ASSUME ReachInv, Hacked = {}, ~(slave.special /\ slave.isr # {}),
         CascadeOpen, Deliverable(slave) # {}
  PROVE  Cascade \in Deliverable(master)
<1>1. slave \in Chip /\ master \in Chip
  BY DEF ReachInv, PicInv, TypeOK
<1>2. HasSlave
  BY <1>1, DeliverableLines DEF ReachInv, PicInv, NoSlaveIdle
<1>3. Cascade \in master.irr
  BY <1>2 DEF ReachInv, SlaveReachesMaster
<1>. QED
  BY <1>3 DEF CascadeOpen, Deliverable, Possible

LEMMA MasterIsHighest ==
  ASSUME ReachInv, Hacked = {}, NEW b \in BOOLEAN, RunMaster(b)
  PROVE  /\ Consumed # {} /\ Consumed \subseteq Waiting
         /\ \/ slave.special /\ slave.isr # {}
            \/ \A t \in Consumed, w \in Waiting : Rank(t) <= Rank(w)
<1> DEFINE l == LowestLine(Deliverable(master))
           m == MasterStarted(l)
<1>0. master \in Chip /\ slave \in Chip
  BY DEF ReachInv, PicInv, TypeOK
<1>1. Deliverable(master) # {} /\ l # Cascade /\ AfterDispatch(m, slave, TRUE, TRUE)
  BY CandidatesAreAll, Zenon DEF RunMaster
<1>2. /\ l \in Deliverable(master) /\ l \in master.irr /\ l \in Lines
      /\ \A k \in Deliverable(master) : l <= k
  BY <1>0, <1>1, DeliverableLines, LowestLineIn
<1>3. m \in Chip /\ m.irr = master.irr \ {l}
  <2>1. [master EXCEPT !.irr = @ \ {l}].irr = master.irr \ {l}
    BY <1>0 DEF Chip
  <2>2. Started(master, l).irr = master.irr \ {l}
    BY <1>0 DEF Started, Chip
  <2>. QED
    BY <1>0, <1>2, <2>1, <2>2, MasterStartedInv DEF MasterStarted, ReachInv
<1> HIDE DEF m, l
<1>4. slave' = slave /\ master' = (IF slave.auto_eoi THEN Cascaded(m, slave) ELSE m)
  BY <1>1, Zenon DEF AfterDispatch
<1>5. l \notin Cascaded(m, slave).irr /\ Keeps(m, Cascaded(m, slave))
  <2>1. Raised(m, Cascade).irr \subseteq m.irr \cup {Cascade} /\ Lowered(m, Cascade).irr \subseteq m.irr
    BY <1>3 DEF Raised, Lowered, Chip
  <2>. QED
    BY <1>1, <1>3, <2>1, CascadedKeeps DEF Cascaded
<1>6. Consumed = {<<"master", l>>}
  BY <1>1, <1>2, <1>3, <1>4, <1>5 DEF Consumed, Keeps
<1>7. <<"master", l>> \in Waiting
  BY <1>1, <1>2 DEF Waiting
<1>8. ASSUME NEW w \in Waiting, ~(slave.special /\ slave.isr # {})
      PROVE  Rank(<<"master", l>>) <= Rank(w)
  <2>1. CASE \E k \in Deliverable(master) \ {Cascade} : w = <<"master", k>>
    <3>1. PICK k \in Deliverable(master) \ {Cascade} : w = <<"master", k>>
      BY <2>1
    <3>2. k \in Nat /\ l \in Nat /\ l <= k
      BY <1>0, <1>2, DeliverableLines, LinesAreNat
    <3>3. /\ Rank(w) = IF k < Cascade THEN k ELSE k + NLines
          /\ Rank(<<"master", l>>) = IF l < Cascade THEN l ELSE l + NLines
      BY <3>1 DEF Rank
    <3>. QED
      BY <3>2, <3>3, LinesAreNat
  <2>2. CASE \E k \in {j \in Deliverable(slave) : CascadeOpen} : w = <<"slave", k>>
    <3>1. PICK k \in Deliverable(slave) : w = <<"slave", k>> /\ CascadeOpen
      BY <2>2
    <3>2. Cascade \in Deliverable(master)
      BY <1>8, <3>1, SlaveBeforeTheRest
    <3>3. k \in Nat /\ l \in Nat /\ l < Cascade
      <4>1. k \in Lines
        BY <1>0, <3>1, DeliverableLines
      <4>2. l <= Cascade /\ l # Cascade
        BY <1>1, <1>2, <3>2
      <4>. QED
        BY <1>2, <4>1, <4>2, LinesAreNat
    <3>4. Rank(w) = Cascade + k /\ Rank(<<"master", l>>) = l
      BY <3>1, <3>3 DEF Rank
    <3>. QED
      BY <3>3, <3>4, LinesAreNat
  <2>. QED
    BY <2>1, <2>2 DEF Waiting
<1>. QED
  BY <1>6, <1>7, <1>8

LEMMA SlaveIsHighest ==
  ASSUME ReachInv, Hacked = {}, NEW b \in BOOLEAN, RunSlave(b), accepting, ~accepting'
  PROVE  /\ Consumed # {} /\ Consumed \subseteq Waiting
         /\ \A t \in Consumed, w \in Waiting : Rank(t) <= Rank(w)
<1> DEFINE l == LowestLine(Deliverable(slave))
           m == MasterStarted(Cascade)
           s == SlaveStarted(b)
<1>0. master \in Chip /\ slave \in Chip
  BY DEF ReachInv, PicInv, TypeOK
<1>1. Deliverable(master) # {} /\ LowestLine(Deliverable(master)) = Cascade
  BY CandidatesAreAll, Zenon DEF RunSlave
<1>2. Deliverable(slave) # {} /\ AfterDispatch(m, s, TRUE, TRUE)
  <2> DEFINE taken == Deliverable(slave) # {}
             n == IF taken THEN m ELSE master
  <2>1. AfterDispatch(n, s, TRUE, taken)
    BY CandidatesAreAll, Zenon DEF RunSlave
  <2>2. accepting' = (accepting /\ ~taken)
    BY <2>1, Zenon DEF AfterDispatch
  <2>3. taken
    BY <2>2
  <2>4. n = m /\ taken = TRUE
    BY <2>3
  <2>5. AfterDispatch(m, s, TRUE, TRUE)
    BY <2>1, <2>4, Zenon
  <2>. QED
    BY <2>3, <2>5
<1>3. /\ Cascade \in Deliverable(master) /\ Cascade \in Lines
      /\ \A k \in Deliverable(master) : Cascade <= k
  BY <1>0, <1>1, DeliverableLines, LowestLineIn
<1>4. l \in Deliverable(slave) /\ l \in slave.irr /\ l \in Lines
      /\ \A k \in Deliverable(slave) : l <= k
  BY <1>0, <1>2, DeliverableLines, LowestLineIn
<1>5. s = Started(slave, l)
  BY <1>2, CandidatesAreAll, Zenon DEF SlaveStarted
<1>6. s.irr = slave.irr \ {l}
  <2> HIDE DEF s, l
  <2>. QED
    BY <1>0, <1>5 DEF Started, Chip
<1>7. m \in Chip /\ Keeps(master, m)
  BY <1>0, <1>3, MasterStartedInv, MasterStartedKeeps DEF Keeps, ReachInv
<1> HIDE DEF m, s, l
<1>8. slave' = s /\ master' = (IF s.auto_eoi THEN Cascaded(m, s) ELSE m)
  BY <1>2, Zenon DEF AfterDispatch
<1>9. Keeps(master, master')
  BY <1>7, <1>8, CascadedKeeps DEF Keeps
<1>10. Consumed = {<<"slave", l>>}
  BY <1>4, <1>6, <1>8, <1>9 DEF Consumed, Keeps
<1>11. CascadeOpen
  BY <1>3 DEF CascadeOpen, Deliverable, Possible
<1>12. <<"slave", l>> \in Waiting
  BY <1>4, <1>11 DEF Waiting
<1>13. ASSUME NEW w \in Waiting PROVE Rank(<<"slave", l>>) <= Rank(w)
  <2>0. l \in Nat /\ l < NLines /\ Rank(<<"slave", l>>) = Cascade + l
    BY <1>4, LinesAreNat DEF Rank
  <2>1. CASE \E k \in Deliverable(master) \ {Cascade} : w = <<"master", k>>
    <3>1. PICK k \in Deliverable(master) \ {Cascade} : w = <<"master", k>>
      BY <2>1
    <3>2. k \in Nat /\ Cascade < k
      <4>1. k \in Lines
        BY <1>0, DeliverableLines
      <4>2. Cascade <= k /\ Cascade # k
        BY <1>3
      <4>. QED
        BY <4>1, <4>2, LinesAreNat
    <3>3. Rank(w) = k + NLines
      BY <3>1, <3>2, LinesAreNat DEF Rank
    <3>. QED
      BY <2>0, <3>2, <3>3, LinesAreNat
  <2>2. CASE \E k \in {j \in Deliverable(slave) : CascadeOpen} : w = <<"slave", k>>
    <3>1. PICK k \in Deliverable(slave) : w = <<"slave", k>>
      BY <2>2
    <3>2. k \in Nat /\ l <= k /\ Rank(w) = Cascade + k
      BY <1>0, <1>4, <3>1, DeliverableLines, LinesAreNat DEF Rank
    <3>. QED
      BY <2>0, <3>2, LinesAreNat
  <2>. QED
    BY <2>1, <2>2 DEF Waiting
<1>. QED
  BY <1>10, <1>12, <1>13

\* The CPU is interrupted for a request that waits, and for the highest of both
\* controllers.
THEOREM HighestIsFirst == Spec => HighestFirst
<1> DEFINE Taken ==
             Hacked = {} /\ PIC_runIRQs /\ accepting /\ ~accepting' =>
               /\ Consumed # {} /\ Consumed \subseteq Waiting
               /\ \/ slave.special /\ slave.isr # {}
                  \/ \A t \in Consumed, w \in Waiting : Rank(t) <= Rank(w)
<1>1. ASSUME ReachInv, [Next]_vars PROVE Taken
  <2> SUFFICES ASSUME Hacked = {}, PIC_runIRQs, accepting, ~accepting'
               PROVE  /\ Consumed # {} /\ Consumed \subseteq Waiting
                      /\ \/ slave.special /\ slave.isr # {}
                         \/ \A t \in Consumed, w \in Waiting : Rank(t) <= Rank(w)
    OBVIOUS
  <2>1. PICK b \in BOOLEAN : RunNone(b) \/ RunMaster(b) \/ RunSlave(b)
    BY DEF PIC_runIRQs
  <2>2. ~RunNone(b)
    BY Zenon DEF RunNone, AfterDispatch
  <2>. QED
    BY <1>1, <2>1, <2>2, MasterIsHighest, SlaveIsHighest
<1>2. ReachInv /\ [Next]_vars => ReachInv'
  BY NextReaches
<1>3. ReachInv /\ [Next]_vars => [Taken]_vars
  BY <1>1
<1>4. HighestFirst <=> [][Taken]_vars
  BY DEF HighestFirst
<1> HIDE DEF Taken
<1>. QED
  BY <1>2, <1>3, <1>4, InitReaches, PTL DEF Spec
=============================================================================
