----------------------------- MODULE MCTasking -----------------------------
(***************************************************************************)
(* Tasking on small instances.  _kmain creates NProcs tasks, each by        *)
(* create_proc or by fork.  SafetyLines has the timer, a line without a     *)
(* handler on each chip, and line 14, whose slot page_fault occupies;       *)
(* LiveLines leaves out line 14, which halts the system.                    *)
(***************************************************************************)
EXTENDS Tasking

SafetyLines == {0, 1, 8, 14}
LiveLines   == {0, 1, 8}
=============================================================================
