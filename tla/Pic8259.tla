------------------------------ MODULE Pic8259 ------------------------------
(***************************************************************************)
(* The pair of 8259 interrupt controllers, as isr.c drives them: irq_remap  *)
(* puts both in edge-triggered, cascaded mode with normal (not automatic)   *)
(* end of interrupt, maps line i to vector 32 + i and leaves every line     *)
(* unmasked.  The chip itself is hardware, not code of the repository; the  *)
(* operators below are its documented behaviour in that mode.               *)
(***************************************************************************)
EXTENDS Integers

Master  == 0 .. 7
Slave   == 8 .. 15
Cascade == 2            \* the master input the slave is wired to

(* The vector irq_remap and irq_install give to line i. *)
IntNo(i) == 32 + i

(* The master input on which a request of line i arrives. *)
Level(i) == IF i \in Slave THEN Cascade ELSE i

(* Fully nested mode: a request passes only if nothing of the same or of a  *)
(* higher priority is still in service.                                     *)
Unblocked(isr, i) ==
  /\ \A j \in isr \cap Master : Level(i) < j
  /\ i \in Slave => \A j \in isr \cap Slave : i < j

Outranks(i, k) == Level(i) < Level(k) \/ (Level(i) = Level(k) /\ i < k)

(* The request the controller hands to the CPU: the unblocked one of the    *)
(* highest priority (a set of at most one line).                            *)
Granted(irr, isr) ==
  LET open == {i \in irr : Unblocked(isr, i)}
  IN  {i \in open : \A k \in open \ {i} : Outranks(i, k)}

(* The in-service register once line i is acknowledged. *)
InService(isr, i) == isr \cup {i, Level(i)}

(* Non-specific EOI: clears the highest-priority bit in service of one chip. *)
Eoi(isr, chip) ==
  isr \ {i \in isr \cap chip : \A j \in isr \cap chip : i <= j}
=============================================================================
