----------------------------- MODULE RoundRobin -----------------------------
(***************************************************************************)
(* What the scheduler of task.c promises: the tasks are numbered in the     *)
(* order of their creation, the CPU goes round them in that order, and a    *)
(* new task joins at the end of the round.  How the CPU changes hands       *)
(* (interrupts, saved registers, the linked list) is left to Tasking.       *)
(***************************************************************************)
EXTENDS Integers

VARIABLES
  live,     \* the tasks in the round
  running   \* the task whose address space and stack the CPU is using

vars == <<live, running>>

First == 1

(* The task after t in the round. *)
Successor(t) == IF t + 1 \in live THEN t + 1 ELSE First

Init == live = {First} /\ running = First

(* The first task creates one more. *)
Spawn ==
  /\ running = First
  /\ \E p \in live : p + 1 \notin live /\ live' = live \cup {p + 1}
  /\ UNCHANGED running

Rotate ==
  /\ running' = Successor(running)
  /\ UNCHANGED live

Next == Spawn \/ Rotate

Spec == Init /\ [][Next]_vars

FairSpec == Spec /\ WF_vars(Rotate)
=============================================================================
