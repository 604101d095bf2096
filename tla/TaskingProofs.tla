--------------------------- MODULE TaskingProofs ---------------------------
(***************************************************************************)
(* Proofs about Tasking for every number of tasks, every set of lines,      *)
(* every MaxFrames and TickModulus.                                         *)
(*                                                                         *)
(* The inductive invariant says in which states the handful of values that  *)
(* the scheduler keeps apart (cr3, current_task, the list, the saved        *)
(* contexts, the stacks, the in-service register) can be together.  The     *)
(* conjunct that carries the rest is Masked: while a created task runs or a *)
(* switch is under way, line 0 is in service.                               *)
(***************************************************************************)
EXTENDS Tasking, TLAPS, SequenceTheorems

(* How many tasks are in the ready queue: 0 before initialise_tasking, and  *)
(* one less than were made between NewTask and LinkTask.                    *)
Count == IF pc \in {"cp_link", "fk_link"} THEN next_pid - 2 ELSE next_pid - 1

Depth == Len(stack[Main])

(* Where _kmain stands, below the interrupts taken on its stack. *)
Base == IF Depth = 0 THEN pc ELSE stack[Main][Depth].at

CallFrame == [at |-> "proc", int_no |-> 0]

(* The points of _kmain that run with interrupts enabled. *)
Open == {"boot", "spawn", "user_call", "user"}
(* The points of _kmain between a cli and its sti. *)
Closed == {"it_body", "cp_new", "fk_new", "cp_link", "fk_link", "cp_ret", "fk_ret"}
Saving == {"st_next", "st_wrap", "st_run"}

(* Every task made so far has the directory of its own number. *)
Directories ==
  \A t \in Pid : page_directory[t] = IF t < next_pid THEN t ELSE 0

(* The ready queue is the list of the tasks linked, in creation order. *)
Queue ==
  /\ ready_queue = IF next_pid = 1 THEN NULL ELSE Main
  /\ \A t \in Pid : next[t] = IF t < Count THEN t + 1 ELSE NULL

(* Who runs, and which task the scheduler takes for the current one. *)
Current ==
  /\ current_directory = cr3
  /\ cr3 = Main \/ cr3 <= Count
  /\ next_pid = 1 => current_task = NULL
  /\ next_pid # 1 /\ pc \notin {"st_wrap", "st_run"} => current_task = cr3
  /\ pc = "st_wrap" => current_task = next[cr3]
  /\ pc = "st_run" => current_task = IF cr3 < Count THEN cr3 + 1 ELSE Main

(* A created task is at work or switching; _kmain is everywhere else. *)
Modes ==
  /\ cr3 # Main => pc \in {"proc", "fork_child"} \cup SwitchPC
  /\ cr3 = Main => pc \in KmainPC \cup IrqPC \cup SwitchPC \cup {"panic"}
  /\ pc \in Closed => ~iflag
  /\ pc \in {"irq_handler", "panic"} => ~iflag
  /\ cr3 = Main /\ pc \in SwitchPC => ~iflag

(* Line 0 stays in service from the interrupt that starts a switch to the   *)
(* return of the task it interrupted.                                       *)
Masked ==
  /\ cr3 # Main \/ pc \in SwitchPC => 0 \in isr
  /\ pc = "irq_eoi" /\ iflag => 0 \in isr
  /\ pc = "irq_handler" /\ stack[Main][1].int_no = IntNo(0) => 0 \in isr

(* The stack of _kmain holds interrupt frames, the outermost of which       *)
(* interrupted _kmain itself, and the others the iret of the next.          *)
MainStack ==
  /\ Depth = 0 <=> cr3 = Main /\ pc \in KmainPC
  /\ \A k \in 1 .. Depth :
        /\ stack[Main][k].int_no # 0
        /\ stack[Main][k].at \in IF k = Depth THEN Open ELSE {"irq_iret"}
  /\ cr3 # Main \/ pc \in SwitchPC => stack[Main][1].int_no = IntNo(0)

(* The stack of a created task holds the call of switch_task, if it is in   *)
(* one.                                                                     *)
TaskStacks ==
  \A t \in Pid \ {Main} :
     stack[t] = IF \/ t = cr3 /\ pc \in SwitchPC
                   \/ t # cr3 /\ eip[t] = "read_eip"
                THEN <<CallFrame>> ELSE <<>>

(* The task that create_proc or fork has linked but not yet given a context.*)
Fresh(t) == pc \in {"cp_ret", "fk_ret"} /\ t = next_pid - 1

Saved ==
  /\ eip[Main] \in {"none", "read_eip"}
  /\ \A t \in Pid : t >= next_pid => eip[t] = "none"
  /\ \A t \in Pid :
        /\ t <= Count /\ ~Fresh(t)
        /\ t # cr3 \/ pc \in Saving
        => Resumable(t)
  /\ pc \in {"cp_link", "fk_link", "cp_ret", "fk_ret"} =>
        eip[next_pid - 1] \in {"none", "proc"}
  /\ pc \in Saving => eip[cr3] = "read_eip"

(* How far _kmain has come. *)
Progress ==
  /\ Base \in {"boot", "it_body"} <=> next_pid = 1
  /\ pc \in {"cp_new", "fk_new"} => next_pid <= NProcs + 1
  /\ pc \in {"cp_link", "fk_link", "cp_ret", "fk_ret"} => next_pid >= 3
  /\ kernel_stack[Main] = next_pid - 1
  /\ Base \in {"user_call", "user"} =>
        /\ next_pid = NProcs + 2
        /\ cr3 = Main => tss_esp0 = kernel_stack[Main]

IInv ==
  /\ TypeOK
  /\ Directories /\ Queue /\ Current /\ Modes /\ Masked
  /\ MainStack /\ TaskStacks /\ Saved /\ Progress
-----------------------------------------------------------------------------
USE NProcsAssumption, LinesAssumption, MaxFramesAssumption, TickModulusAssumption
USE DEF vars, cpu, pic, task, sched, NULL, Main, Pid,
        PC, KmainPC, SwitchPC, IrqPC, Open, Closed, Saving


(* Between a cli and its sti the CPU is in _kmain, on an empty stack.       *)
LEMMA ClosedPoint ==
  ASSUME IInv, pc \in Closed
  PROVE  /\ cr3 = Main /\ stack[Main] = <<>> /\ current_directory = Main /\ next_pid \in Nat
         /\ pc = "it_body" => next_pid = 1 /\ current_task = NULL
         /\ pc # "it_body" => next_pid \in 2 .. NProcs + 2 /\ current_task = Main
         /\ pc \in {"cp_new", "fk_new"} => next_pid \in Pid
         /\ pc \in {"cp_link", "fk_link", "cp_ret", "fk_ret"} =>
              next_pid >= 3 /\ next_pid - 1 \in Pid \ {Main}
<1>1. cr3 = Main
  BY DEF IInv, Modes
<1>2. stack[Main] = <<>>
  BY <1>1 DEF IInv, TypeOK, MainStack, Depth
<1>3. pc = "it_body" <=> next_pid = 1
  BY <1>2 DEF IInv, Progress, Base, Depth
<1>4. next_pid \in 1 .. NProcs + 2
  BY DEF IInv, TypeOK
<1>5. current_task = IF next_pid = 1 THEN NULL ELSE Main
  BY <1>1 DEF IInv, Current
<1>6. pc \in {"cp_link", "fk_link", "cp_ret", "fk_ret"} => next_pid >= 3
  BY DEF IInv, Progress
<1>7. pc \in {"cp_new", "fk_new"} => next_pid <= NProcs + 1
  BY DEF IInv, Progress
<1>8. current_directory = cr3
  BY DEF IInv, Current
<1> QED
  BY <1>1, <1>2, <1>3, <1>4, <1>5, <1>6, <1>7, <1>8

(* An interrupt handler runs on the stack of _kmain, above its own frame.   *)
LEMMA HandlerPoint ==
  ASSUME IInv, pc \in IrqPC
  PROVE  /\ cr3 = Main /\ stack[Main] \in Seq(Frame) /\ Depth > 0
         /\ Head(stack[Main]) = stack[Main][1]
         /\ \E i \in Lines : stack[Main][1].int_no = IntNo(i)
<1>1. cr3 = Main
  BY DEF IInv, Modes
<1>2. stack[Main] \in Seq(Frame) /\ Depth > 0
  <2>1. stack[Main] \in Seq(Frame)
    BY DEF IInv, TypeOK
  <2>2. Depth # 0
    BY DEF IInv, MainStack
  <2> QED
    BY <2>1, <2>2 DEF Depth
<1>3. Head(stack[Main]) = stack[Main][1] /\ stack[Main][1] \in Frame
  BY <1>2 DEF Depth
<1>4. stack[Main][1].int_no # 0
  BY <1>2 DEF IInv, MainStack, Depth
<1> QED
  BY <1>1, <1>2, <1>3, <1>4 DEF Frame

(* What the ready queue leads to is the first Count tasks.                  *)
LEMMA LinkedIsCount ==
  ASSUME IInv
  PROVE  Linked = 1 .. Count
<1>1. next_pid \in 1 .. NProcs + 2 /\ next \in [Pid -> {NULL} \cup Pid]
  BY DEF IInv, TypeOK
<1>2. Count \in 0 .. NProcs + 1 /\ (Count = 0 => next_pid = 1) /\ (next_pid = 1 => Count = 0)
  BY <1>1 DEF IInv, Count, Progress
<1>3. /\ ready_queue = IF Count = 0 THEN NULL ELSE Main
      /\ \A t \in Pid : next[t] = IF t < Count THEN t + 1 ELSE NULL
  BY <1>2 DEF IInv, Queue
<1>4. ASSUME NEW u \in 1 .. Count PROVE u \in Linked
  <2>1. CASE u = 1
    BY <1>2, <1>3, <2>1 DEF Linked
  <2>2. CASE u # 1
    <3>1. u - 1 \in Pid /\ next[u - 1] = u
      BY <1>2, <1>3, <2>2
    <3> QED
      BY <1>2, <3>1 DEF Linked
  <2> QED
    BY <2>1, <2>2
<1>5. ASSUME NEW u \in Linked PROVE u \in 1 .. Count
  BY <1>2, <1>3, <1>5 DEF Linked
<1> QED
  BY <1>4, <1>5

(* In switch_task a current task exists exactly if tasking is up.           *)
LEMMA SwitchPoint ==
  ASSUME IInv, pc \in SwitchPC
  PROVE  /\ Depth > 0 /\ stack[Main] # <<>> /\ stack[Main][1].int_no = IntNo(0)
         /\ cr3 # Main => stack[cr3] = <<CallFrame>>
         /\ pc = "switch_task" => (current_task = IF next_pid = 1 THEN NULL ELSE cr3)
         /\ pc \in Saving => next_pid # 1
         /\ Count = next_pid - 1
         /\ next_pid = 1 => cr3 = Main
<1>1. Depth > 0 /\ stack[Main] # <<>>
  <2>1. Depth # 0
    BY DEF IInv, MainStack
  <2>2. stack[Main] \in Seq(Frame)
    BY DEF IInv, TypeOK
  <2> QED
    BY <2>1, <2>2 DEF Depth
<1>2. next_pid = 1 => cr3 = Main
  BY DEF IInv, Current, Count, TypeOK
<1>3. cr3 # Main => stack[cr3] = <<CallFrame>>
  BY DEF IInv, TaskStacks, TypeOK
<1>4. pc \in Saving => next_pid # 1
  BY <1>2 DEF IInv, Saved, Count, TypeOK
<1>5. Count = next_pid - 1
  BY DEF Count
<1> QED
  BY <1>1, <1>2, <1>3, <1>4, <1>5 DEF IInv, MainStack, Current

(* A cli moves _kmain from an open point to a closed one.                   *)
LEMMA CliStep ==
  ASSUME IInv, NEW from, NEW to, Cli(from, to),
         \/ from = "boot" /\ to = "it_body"
         \/ from = "spawn" /\ to \in {"cp_new", "fk_new"} /\ next_pid <= NProcs + 1
  PROVE  IInv'
<1>1. TypeOK'
  BY DEF IInv, TypeOK, Cli
<1>2. Directories'
  BY DEF IInv, Directories, Cli
<1>3. Queue'
  BY DEF IInv, Queue, Cli, Count
<1>4. Current'
  BY DEF IInv, Current, Cli, Count
<1>5. Modes'
  BY DEF IInv, Modes, Cli
<1>6. Masked'
  BY DEF IInv, Masked, Cli, Modes
<1>7. MainStack'
  BY DEF IInv, MainStack, Cli, Modes, Depth
<1>8. TaskStacks'
  BY DEF IInv, TaskStacks, Cli
<1>9. Saved'
  BY DEF IInv, Saved, Cli, Count, Fresh, Resumable
<1>10. Progress'
  BY DEF IInv, Progress, Cli, MainStack, Modes, Base, Depth
<1> QED
  BY <1>1, <1>2, <1>3, <1>4, <1>5, <1>6, <1>7, <1>8, <1>9, <1>10 DEF IInv

(* initialise_tasking makes _kmain the first task.                          *)
LEMMA InitialiseTaskingStep ==
  ASSUME IInv, InitialiseTasking
  PROVE  IInv'
<1>a. cr3 = Main /\ stack[Main] = <<>> /\ current_directory = Main /\ next_pid = 1
  BY ClosedPoint DEF InitialiseTasking
<1>1. TypeOK'
  <2>1. /\ page_directory' = [page_directory EXCEPT ![Main] = Main]
        /\ kernel_stack' = [kernel_stack EXCEPT ![Main] = 1]
        /\ next_pid' = 2 /\ Main \in Pid
    BY <1>a DEF InitialiseTasking
  <2>2. page_directory' \in [Pid -> {0} \cup Pid] /\ kernel_stack' \in [Pid -> 0 .. NProcs + 1]
    BY <2>1 DEF IInv, TypeOK
  <2> QED
    BY <2>1, <2>2, SMTT(30) DEF IInv, TypeOK, InitialiseTasking
<1>2. Directories'
  <2>1. page_directory' = [page_directory EXCEPT ![Main] = Main] /\ next_pid' = 2
    BY <1>a DEF InitialiseTasking
  <2>2. page_directory \in [Pid -> {0} \cup Pid]
    BY DEF IInv, TypeOK
  <2>3. \A t \in Pid : page_directory[t] = 0
    BY <1>a DEF IInv, Directories
  <2>4. ASSUME NEW t \in Pid PROVE page_directory'[t] = IF t < 2 THEN t ELSE 0
    BY <2>1, <2>2, <2>3
  <2> QED
    BY <2>1, <2>4 DEF Directories
<1>3. Queue'
  BY <1>a DEF IInv, Queue, InitialiseTasking, TypeOK, Count
<1>4. Current'
  BY <1>a DEF IInv, Current, InitialiseTasking, TypeOK, Count
<1>5. Modes'
  BY <1>a DEF IInv, Modes, InitialiseTasking
<1>6. Masked'
  BY <1>a DEF IInv, Masked, InitialiseTasking, Modes
<1>7. MainStack'
  BY <1>a DEF IInv, MainStack, InitialiseTasking, TypeOK, Modes, Depth
<1>8. TaskStacks'
  BY <1>a DEF IInv, TaskStacks, InitialiseTasking, TypeOK
<1>9. Saved'
  <2>1. eip' = eip /\ next_pid' = 2 /\ pc' = "spawn" /\ cr3' = Main
    BY <1>a DEF InitialiseTasking
  <2>2. \A t \in Pid : eip[t] = "none"
    BY <1>a DEF IInv, Saved
  <2> QED
    BY <2>1, <2>2 DEF Saved, Count
<1>10. Progress'
  BY <1>a DEF IInv, Progress, InitialiseTasking, TypeOK, MainStack, Modes, Base, Depth
<1> QED
  BY <1>1, <1>2, <1>3, <1>4, <1>5, <1>6, <1>7, <1>8, <1>9, <1>10 DEF IInv

(* clone_directory copies an empty stack.                                   *)
LEMMA NewTaskStep ==
  ASSUME IInv, NEW from, NEW to, NEW routine, NewTask(from, to, routine),
         from \in {"cp_new", "fk_new"}, to \in {"cp_link", "fk_link"},
         routine \in {"none", "proc"}
  PROVE  IInv'
<1>a. /\ cr3 = Main /\ stack[Main] = <<>> /\ current_directory = Main
      /\ current_task = Main /\ next_pid \in Pid /\ next_pid >= 2 /\ Count = next_pid - 1
  BY ClosedPoint DEF NewTask, Count
<1>1. TypeOK'
  <2>1. stack' \in [Pid -> Seq(Frame)]
    BY <1>a DEF NewTask, IInv, TypeOK
  <2>2. eip' \in [Pid -> Eip] /\ esp' \in [Pid -> [stack : {0} \cup Pid, depth : Nat]]
    BY <1>a DEF NewTask, IInv, TypeOK, Eip, NoEsp
  <2>3. page_directory' \in [Pid -> {0} \cup Pid] /\ next' \in [Pid -> {NULL} \cup Pid]
    BY <1>a DEF NewTask, IInv, TypeOK
  <2>4. kernel_stack' = [kernel_stack EXCEPT ![Main] = next_pid] /\ next_pid' = next_pid + 1
    BY <1>a DEF NewTask
  <2>5. next_pid' \in 1 .. NProcs + 2
    BY <1>a, <2>4
  <2>6. kernel_stack \in [Pid -> 0 .. NProcs + 1]
    BY DEF IInv, TypeOK
  <2>7. kernel_stack' \in [Pid -> 0 .. NProcs + 1]
    <3>1. next_pid \in 0 .. NProcs + 1
      BY <1>a
    <3> QED
      BY <2>4, <2>6, <3>1
  <2> QED
    BY <2>1, <2>2, <2>3, <2>5, <2>7 DEF NewTask, IInv, TypeOK
<1>2. Directories'
  <2>1. page_directory' = [page_directory EXCEPT ![next_pid] = next_pid]
        /\ next_pid' = next_pid + 1
    BY DEF NewTask
  <2>2. page_directory \in [Pid -> {0} \cup Pid]
    BY DEF IInv, TypeOK
  <2>3. ASSUME NEW t \in Pid
        PROVE  page_directory'[t] = IF t < next_pid + 1 THEN t ELSE 0
    BY <1>a, <2>1, <2>2 DEF IInv, Directories
  <2> QED
    BY <2>1, <2>3 DEF Directories
<1>3. Queue'
  <2>1. next' = [next EXCEPT ![next_pid] = NULL] /\ Count' = Count /\ ready_queue' = ready_queue
        /\ next_pid' # 1
    BY <1>a DEF NewTask, Count
  <2>2. next \in [Pid -> {NULL} \cup Pid]
    BY DEF IInv, TypeOK
  <2>3. ASSUME NEW t \in Pid
        PROVE  next'[t] = IF t < Count THEN t + 1 ELSE NULL
    BY <1>a, <2>1, <2>2 DEF IInv, Queue
  <2> QED
    BY <1>a, <2>1, <2>3 DEF Queue, IInv
<1>4. Current'
  <2>1. /\ Count' = Count /\ next_pid' # 1 /\ pc' \notin {"st_wrap", "st_run"}
        /\ UNCHANGED <<current_directory, cr3, current_task>>
    BY <1>a DEF NewTask, Count
  <2> QED
    BY <1>a, <2>1 DEF Current
<1>5. Modes'
  BY <1>a DEF IInv, Modes, NewTask
<1>6. Masked'
  BY <1>a DEF IInv, Masked, NewTask, Modes
<1>7. MainStack'
  BY <1>a DEF IInv, MainStack, NewTask, TypeOK, Modes, Depth
<1>8. TaskStacks'
  BY <1>a DEF IInv, TaskStacks, NewTask, TypeOK
<1>9. Saved'
  <2>1. /\ eip' = [eip EXCEPT ![next_pid] = routine]
        /\ esp' = [esp EXCEPT ![next_pid] = NoEsp]
        /\ page_directory' = [page_directory EXCEPT ![next_pid] = next_pid]
        /\ stack' = [stack EXCEPT ![next_pid] = <<>>]
        /\ next_pid' = next_pid + 1 /\ cr3' = cr3 /\ pc' = to
    BY <1>a DEF NewTask
  <2>2. /\ eip \in [Pid -> Eip] /\ DOMAIN esp = Pid
        /\ page_directory \in [Pid -> {0} \cup Pid] /\ DOMAIN stack = Pid
    BY DEF IInv, TypeOK
  <2>6. Count' = Count
    BY <1>a, <2>1 DEF Count
  <2>3. ASSUME NEW t \in Pid, t <= Count, t # cr3
        PROVE  Resumable(t)'
    <3>1. Resumable(t) /\ t # next_pid /\ page_directory[t] = t
      BY <1>a, <2>3 DEF IInv, Saved, Fresh, NewTask, Directories
    <3> QED
      BY <1>a, <2>1, <2>2, <3>1 DEF Resumable
  <2>4. ASSUME NEW t \in Pid, t >= next_pid + 1 PROVE eip'[t] = "none"
    BY <1>a, <2>1, <2>2, <2>4 DEF IInv, Saved
  <2>5. eip'[Main] \in {"none", "read_eip"} /\ eip'[next_pid] \in {"none", "proc"}
    BY <1>a, <2>1, <2>2 DEF IInv, Saved
  <2> QED
    BY <1>a, <2>1, <2>3, <2>4, <2>5, <2>6 DEF Saved
<1>10. Progress'
  <2>1. stack'[Main] = <<>> /\ next_pid' = next_pid + 1 /\ pc' = to
    BY <1>a DEF NewTask, IInv, TypeOK
  <2>2. kernel_stack'[Main] = next_pid
    BY <1>a DEF NewTask, IInv, TypeOK
  <2> QED
    BY <1>a, <2>1, <2>2 DEF Progress, Base, Depth
<1> QED
  BY <1>1, <1>2, <1>3, <1>4, <1>5, <1>6, <1>7, <1>8, <1>9, <1>10 DEF IInv

(* The new task goes to the end of the list: the walk of create_proc and    *)
(* fork ends at the task linked last.                                       *)
LEMMA LinkTaskStep ==
  ASSUME IInv, NEW from, NEW to, LinkTask(from, to),
         from \in {"cp_link", "fk_link"}, to \in {"cp_ret", "fk_ret"}
  PROVE  IInv'
<1>a. /\ cr3 = Main /\ next_pid \in Nat /\ next_pid >= 3 /\ next_pid - 1 \in Pid \ {Main}
      /\ Count = next_pid - 2 /\ Count' = next_pid - 1 /\ next_pid' = next_pid
  BY ClosedPoint DEF LinkTask, Count
<1>b. next' = [next EXCEPT ![Count] = Count + 1]
  <2>1. PICK tail \in Linked : next[tail] = NULL /\ next' = [next EXCEPT ![tail] = next_pid - 1]
    BY DEF LinkTask
  <2>2. tail \in 1 .. Count
    BY <1>a, LinkedIsCount
  <2>3. tail = Count
    BY <1>a, <2>1, <2>2 DEF IInv, Queue, TypeOK
  <2> QED
    BY <1>a, <2>1, <2>3
<1>1. TypeOK'
  <2>1. next' \in [Pid -> {NULL} \cup Pid]
    BY <1>a, <1>b DEF IInv, TypeOK
  <2> QED
    BY <2>1 DEF LinkTask, IInv, TypeOK
<1>2. Directories'
  BY <1>a DEF IInv, Directories, LinkTask, TypeOK
<1>3. Queue'
  <2>1. next \in [Pid -> {NULL} \cup Pid] /\ ready_queue' = ready_queue
    BY DEF IInv, TypeOK, LinkTask
  <2>2. ASSUME NEW t \in Pid
        PROVE  next'[t] = IF t < Count' THEN t + 1 ELSE NULL
    BY <1>a, <1>b, <2>1 DEF IInv, Queue
  <2> QED
    BY <1>a, <2>1, <2>2 DEF IInv, Queue
<1>4. Current'
  BY <1>a DEF IInv, Current, LinkTask, TypeOK, Count
<1>5. Modes'
  BY <1>a DEF IInv, Modes, LinkTask
<1>6. Masked'
  BY <1>a DEF IInv, Masked, LinkTask, Modes
<1>7. MainStack'
  BY <1>a DEF IInv, MainStack, LinkTask, TypeOK, Modes, Depth
<1>8. TaskStacks'
  BY <1>a DEF IInv, TaskStacks, LinkTask, TypeOK
<1>9. Saved'
  <2>1. /\ UNCHANGED <<eip, esp, page_directory, stack, cr3>>
        /\ pc \in {"cp_link", "fk_link"} /\ pc' \in {"cp_ret", "fk_ret"}
    BY DEF LinkTask
  <2>2. \A t \in Pid : t <= Count /\ t # cr3 => Resumable(t)
    BY <2>1 DEF IInv, Saved, Fresh
  <2>3. \A t \in Pid : Resumable(t)' <=> Resumable(t)
    BY <2>1 DEF Resumable
  <2>4. \A t \in Pid : t <= Count' /\ ~Fresh(t)' => t <= Count
    BY <1>a, <2>1 DEF Fresh
  <2>5. eip[next_pid - 1] \in {"none", "proc"}
    BY <2>1 DEF IInv, Saved
  <2>6. eip[Main] \in {"none", "read_eip"} /\ \A t \in Pid : t >= next_pid => eip[t] = "none"
    BY DEF IInv, Saved
  <2> QED
    BY <1>a, <2>1, <2>2, <2>3, <2>4, <2>5, <2>6 DEF Saved
<1>10. Progress'
  BY <1>a DEF IInv, Progress, LinkTask, TypeOK, MainStack, Modes, Base, Depth
<1> QED
  BY <1>1, <1>2, <1>3, <1>4, <1>5, <1>6, <1>7, <1>8, <1>9, <1>10 DEF IInv

(* The new task gets its context, which is the empty copy of the stack of   *)
(* _kmain, and its parent goes on with interrupts enabled.                  *)
LEMMA LeaveSpawnStep ==
  ASSUME IInv, NEW from, NEW entry, LeaveSpawn(from, entry),
         from \in {"cp_ret", "fk_ret"}, entry \in {"proc", "fork"}
  PROVE  IInv'
<1>a. /\ cr3 = Main /\ stack[Main] = <<>> /\ next_pid \in Nat /\ next_pid >= 3
      /\ next_pid - 1 \in Pid \ {Main} /\ Count = next_pid - 1 /\ Count' = next_pid - 1
  BY ClosedPoint DEF LeaveSpawn, Count
<1>b. /\ page_directory[next_pid - 1] = next_pid - 1
      /\ esp' = [esp EXCEPT ![next_pid - 1] = [stack |-> next_pid - 1, depth |-> 0]]
      /\ eip' = [eip EXCEPT ![next_pid - 1] = entry]
      /\ eip[next_pid - 1] \in {"none", "proc"} /\ stack[next_pid - 1] = <<>>
  <2>1. page_directory[next_pid - 1] = next_pid - 1
    BY <1>a DEF IInv, Directories
  <2>2. eip[next_pid - 1] \in {"none", "proc"}
    BY <1>a DEF IInv, Saved, LeaveSpawn
  <2>3. stack[next_pid - 1] = <<>>
    BY <1>a, <2>2 DEF IInv, TaskStacks
  <2> QED
    BY <1>a, <2>1, <2>2, <2>3 DEF LeaveSpawn
<1>1. TypeOK'
  <2>1. esp' \in [Pid -> [stack : {0} \cup Pid, depth : Nat]] /\ eip' \in [Pid -> Eip]
    BY <1>a, <1>b DEF IInv, TypeOK, Eip
  <2> QED
    BY <2>1 DEF LeaveSpawn, IInv, TypeOK
<1>2. Directories'
  BY <1>a DEF IInv, Directories, LeaveSpawn, TypeOK
<1>3. Queue'
  BY <1>a DEF IInv, Queue, LeaveSpawn, TypeOK, Count
<1>4. Current'
  BY <1>a DEF IInv, Current, LeaveSpawn, TypeOK, Count
<1>5. Modes'
  BY <1>a DEF IInv, Modes, LeaveSpawn
<1>6. Masked'
  BY <1>a DEF IInv, Masked, LeaveSpawn, Modes
<1>7. MainStack'
  BY <1>a DEF IInv, MainStack, LeaveSpawn, TypeOK, Modes, Depth
<1>8. TaskStacks'
  <2>1. ASSUME NEW t \in Pid \ {Main}
        PROVE  eip'[t] = "read_eip" <=> eip[t] = "read_eip"
    BY <1>a, <1>b DEF IInv, TypeOK
  <2>2. cr3' = Main /\ stack' = stack
    BY <1>a DEF LeaveSpawn
  <2> QED
    BY <1>a, <2>1, <2>2 DEF IInv, TaskStacks
<1>9. Saved'
  <2>1. /\ eip \in [Pid -> Eip] /\ DOMAIN esp = Pid
        /\ cr3' = Main /\ pc' = "spawn" /\ next_pid' = next_pid
        /\ UNCHANGED <<stack, page_directory>>
    BY <1>a DEF IInv, TypeOK, LeaveSpawn
  <2>2. ASSUME NEW t \in Pid, t <= Count, t # Main
        PROVE  Resumable(t)'
    <3>1. CASE t = next_pid - 1
      BY <1>a, <1>b, <2>1, <3>1 DEF Resumable
    <3>2. CASE t # next_pid - 1
      <4>1. Resumable(t)
        BY <1>a, <2>2, <3>2 DEF IInv, Saved, Fresh
      <4> QED
        BY <1>b, <2>1, <3>2, <4>1 DEF Resumable
    <3> QED
      BY <3>1, <3>2
  <2>3. ASSUME NEW t \in Pid, t >= next_pid PROVE eip'[t] = "none"
    BY <1>a, <1>b, <2>1, <2>3 DEF IInv, Saved
  <2>4. eip'[Main] \in {"none", "read_eip"}
    BY <1>a, <1>b, <2>1 DEF IInv, Saved
  <2> QED
    BY <1>a, <2>1, <2>2, <2>3, <2>4 DEF Saved
<1>10. Progress'
  BY <1>a DEF IInv, Progress, LeaveSpawn, TypeOK, MainStack, Modes, Base, Depth
<1> QED
  BY <1>1, <1>2, <1>3, <1>4, <1>5, <1>6, <1>7, <1>8, <1>9, <1>10 DEF IInv

(* The child of fork goes to work.                                          *)
LEMMA ForkChildStep ==
  ASSUME IInv, ForkChild
  PROVE  IInv'
<1>1. TypeOK'
  BY DEF IInv, TypeOK, ForkChild
<1>2. Directories'
  BY DEF IInv, Directories, ForkChild
<1>3. Queue'
  BY DEF IInv, Queue, ForkChild, Count
<1>4. Current'
  BY DEF IInv, Current, ForkChild, Count
<1>5. Modes'
  BY DEF IInv, Modes, ForkChild
<1>6. Masked'
  BY DEF IInv, Masked, ForkChild, Modes
<1>7. MainStack'
  BY DEF IInv, MainStack, ForkChild, Modes, Depth
<1>8. TaskStacks'
  BY DEF IInv, TaskStacks, ForkChild
<1>9. Saved'
  BY DEF IInv, Saved, ForkChild, Count, Fresh, Resumable
<1>10. Progress'
  BY DEF IInv, Progress, ForkChild, MainStack, Modes, Base, Depth
<1> QED
  BY <1>1, <1>2, <1>3, <1>4, <1>5, <1>6, <1>7, <1>8, <1>9, <1>10 DEF IInv

(* _kmain goes to user mode with the kernel stack of its own task in the    *)
(* TSS, since it is the only one that gets there.                           *)
LEMMA SwitchToUserModeStep ==
  ASSUME IInv, SwitchToUserMode
  PROVE  IInv'
<1>1. TypeOK'
  <2>1. cr3 = Main
    BY DEF IInv, Modes, SwitchToUserMode
  <2>2. next_pid # 1
    BY DEF SwitchToUserMode
  <2>3. current_task \in Pid
    BY <2>1, <2>2 DEF IInv, Current, SwitchToUserMode
  <2>4. kernel_stack[current_task] \in 0 .. NProcs + 1
    BY <2>3 DEF IInv, TypeOK
  <2> QED
    BY <2>4 DEF IInv, TypeOK, SwitchToUserMode
<1>2. Directories'
  BY DEF IInv, Directories, SwitchToUserMode, TypeOK
<1>3. Queue'
  BY DEF IInv, Queue, SwitchToUserMode, TypeOK, Count
<1>4. Current'
  BY DEF IInv, Current, SwitchToUserMode, TypeOK, Count
<1>5. Modes'
  BY DEF IInv, Modes, SwitchToUserMode
<1>6. Masked'
  BY DEF IInv, Masked, SwitchToUserMode, Modes
<1>7. MainStack'
  BY DEF IInv, MainStack, SwitchToUserMode, TypeOK, Modes, Depth
<1>8. TaskStacks'
  BY DEF IInv, TaskStacks, SwitchToUserMode, TypeOK
<1>9. Saved'
  BY DEF IInv, Saved, SwitchToUserMode, TypeOK, Count, Fresh, Resumable
<1>10. Progress'
  BY DEF IInv, Progress, SwitchToUserMode, TypeOK, MainStack, Modes, Base, Depth, Current
<1> QED
  BY <1>1, <1>2, <1>3, <1>4, <1>5, <1>6, <1>7, <1>8, <1>9, <1>10 DEF IInv

(* The system call of _kmain changes nothing that the scheduler uses.       *)
LEMMA SyscallStep ==
  ASSUME IInv, Syscall
  PROVE  IInv'
<1>1. TypeOK'
  BY DEF IInv, TypeOK, Syscall
<1>2. Directories'
  BY DEF IInv, Directories, Syscall
<1>3. Queue'
  BY DEF IInv, Queue, Syscall, Count
<1>4. Current'
  BY DEF IInv, Current, Syscall, Count
<1>5. Modes'
  BY DEF IInv, Modes, Syscall
<1>6. Masked'
  BY DEF IInv, Masked, Syscall, Modes
<1>7. MainStack'
  BY DEF IInv, MainStack, Syscall, Modes, Depth
<1>8. TaskStacks'
  BY DEF IInv, TaskStacks, Syscall
<1>9. Saved'
  BY DEF IInv, Saved, Syscall, Count, Fresh, Resumable
<1>10. Progress'
  BY DEF IInv, Progress, Syscall, MainStack, Modes, Base, Depth
<1> QED
  BY <1>1, <1>2, <1>3, <1>4, <1>5, <1>6, <1>7, <1>8, <1>9, <1>10 DEF IInv

(* Before initialise_tasking, switch_task returns into the timer handler.   *)
LEMMA SwitchTaskIdleStep ==
  ASSUME IInv, SwitchTaskIdle
  PROVE  IInv'
<1>a. next_pid = 1 /\ cr3 = Main /\ pc = "switch_task"
  <2>1. pc = "switch_task" /\ current_task = NULL
    BY DEF SwitchTaskIdle
  <2>2. cr3 # NULL
    BY DEF IInv, TypeOK
  <2> QED
    BY <2>1, <2>2, SwitchPoint
<1>b. /\ cr3 = Main /\ next_pid = 1 /\ pc' = "irq_eoi" /\ stack' = stack /\ Depth > 0
      /\ 0 \in isr /\ ~iflag
  <2>1. stack[Main] \in Seq(Frame) /\ Depth > 0 /\ stack[Main][1].int_no = IntNo(0)
    BY <1>a, SwitchPoint DEF IInv, TypeOK
  <2>2. Head(stack[Main]).int_no # 0
    BY <2>1 DEF Depth, IntNo
  <2> QED
    BY <1>a, <2>1, <2>2 DEF SwitchTaskIdle, ReturnFromSwitch, IInv, Masked, Modes
<1>1. TypeOK'
  BY <1>b DEF IInv, TypeOK, SwitchTaskIdle
<1>2. Directories'
  BY <1>b DEF IInv, Directories, SwitchTaskIdle, TypeOK
<1>3. Queue'
  BY <1>b DEF IInv, Queue, SwitchTaskIdle, TypeOK, Count
<1>4. Current'
  BY <1>b DEF IInv, Current, SwitchTaskIdle, TypeOK, Count
<1>5. Modes'
  BY <1>b DEF IInv, Modes, SwitchTaskIdle, Masked
<1>6. Masked'
  BY <1>b DEF IInv, Masked, SwitchTaskIdle, Modes
<1>7. MainStack'
  BY <1>b DEF IInv, MainStack, SwitchTaskIdle, TypeOK, Modes, Depth
<1>8. TaskStacks'
  BY <1>b DEF IInv, TaskStacks, SwitchTaskIdle, TypeOK
<1>9. Saved'
  BY <1>b DEF IInv, Saved, SwitchTaskIdle, TypeOK, Count, Fresh, Resumable
<1>10. Progress'
  BY <1>b DEF IInv, Progress, SwitchTaskIdle, TypeOK, MainStack, Modes, Base, Depth
<1> QED
  BY <1>1, <1>2, <1>3, <1>4, <1>5, <1>6, <1>7, <1>8, <1>9, <1>10 DEF IInv

(* The running task is saved, and its saved stack pointer stays that of its *)
(* stack until it runs again.                                               *)
LEMMA SwitchTaskSaveStep ==
  ASSUME IInv, SwitchTaskSave
  PROVE  IInv'
<1>a. cr3 \in Pid /\ current_task = cr3 /\ next_pid # 1 /\ page_directory[cr3] = cr3
  <2>1. pc = "switch_task" /\ next_pid # 1 /\ current_task = cr3
    BY SwitchPoint DEF SwitchTaskSave
  <2> QED
    BY <2>1 DEF IInv, TypeOK, Directories, Current, Count
<1>1. TypeOK'
  <2>1. current_task \in Pid /\ cr3 \in Pid /\ stack[cr3] \in Seq(Frame)
    BY DEF IInv, TypeOK, SwitchTaskSave
  <2>2. [stack |-> cr3, depth |-> Len(stack[cr3])] \in [stack : {0} \cup Pid, depth : Nat]
    BY <2>1
  <2>3. eip \in [Pid -> Eip] /\ esp \in [Pid -> [stack : {0} \cup Pid, depth : Nat]]
    BY DEF IInv, TypeOK
  <2>4. eip' \in [Pid -> Eip] /\ esp' \in [Pid -> [stack : {0} \cup Pid, depth : Nat]]
    BY <2>1, <2>2, <2>3 DEF SwitchTaskSave, Eip
  <2>5. pc' \in PC
    BY DEF SwitchTaskSave
  <2> QED
    BY <2>4, <2>5 DEF IInv, TypeOK, SwitchTaskSave
<1>2. Directories'
  BY <1>a DEF IInv, Directories, SwitchTaskSave, TypeOK
<1>3. Queue'
  BY <1>a DEF IInv, Queue, SwitchTaskSave, TypeOK, Count
<1>4. Current'
  BY <1>a DEF IInv, Current, SwitchTaskSave, TypeOK, Count
<1>5. Modes'
  BY <1>a DEF IInv, Modes, SwitchTaskSave
<1>6. Masked'
  BY <1>a DEF IInv, Masked, SwitchTaskSave, Modes
<1>7. MainStack'
  BY <1>a DEF IInv, MainStack, SwitchTaskSave, TypeOK, Modes, Depth
<1>8. TaskStacks'
  BY <1>a DEF IInv, TaskStacks, SwitchTaskSave, TypeOK
<1>9. Saved'
  <2>1. /\ eip' = [eip EXCEPT ![cr3] = "read_eip"]
        /\ esp' = [esp EXCEPT ![cr3] = [stack |-> cr3, depth |-> Len(stack[cr3])]]
        /\ pc = "switch_task" /\ pc' = "st_next"
        /\ UNCHANGED <<cr3, next_pid, stack, page_directory>>
    BY <1>a DEF SwitchTaskSave
  <2>2. /\ eip \in [Pid -> Eip] /\ DOMAIN esp = Pid /\ next_pid \in Nat
        /\ Count = next_pid - 1 /\ Count' = Count /\ cr3 < next_pid
    BY <1>a, <2>1 DEF IInv, TypeOK, Count, Current
  <2>3. ASSUME NEW t \in Pid, t <= Count
        PROVE  Resumable(t)'
    <3>1. CASE t = cr3
      BY <1>a, <2>1, <2>2, <3>1 DEF Resumable
    <3>2. CASE t # cr3
      <4>1. Resumable(t)
        BY <2>1, <2>3, <3>2 DEF IInv, Saved, Fresh
      <4> QED
        BY <2>1, <2>2, <3>2, <4>1 DEF Resumable
    <3> QED
      BY <3>1, <3>2
  <2>4. ASSUME NEW t \in Pid, t >= next_pid PROVE eip'[t] = "none"
    <3>1. t # cr3 /\ eip[t] = "none"
      BY <1>a, <2>2, <2>4 DEF IInv, Saved
    <3> QED
      BY <2>1, <2>2, <3>1
  <2>5. eip'[Main] \in {"none", "read_eip"} /\ eip'[cr3] = "read_eip"
    BY <1>a, <2>1, <2>2 DEF IInv, Saved
  <2> QED
    BY <2>1, <2>2, <2>3, <2>4, <2>5 DEF Saved
<1>10. Progress'
  BY <1>a DEF IInv, Progress, SwitchTaskSave, TypeOK, MainStack, Modes, Base, Depth
<1> QED
  BY <1>1, <1>2, <1>3, <1>4, <1>5, <1>6, <1>7, <1>8, <1>9, <1>10 DEF IInv

(* current_task moves on in the list, to NULL behind the last task.         *)
LEMMA SwitchTaskNextStep ==
  ASSUME IInv, SwitchTaskNext
  PROVE  IInv'
<1>a. current_task = cr3 /\ next_pid # 1 /\ next[cr3] \in {NULL} \cup Pid
  <2>1. pc = "st_next" /\ next_pid # 1
    BY SwitchPoint DEF SwitchTaskNext
  <2> QED
    BY <2>1 DEF IInv, TypeOK, Current
<1>1. TypeOK'
  BY <1>a DEF IInv, TypeOK, SwitchTaskNext
<1>2. Directories'
  BY <1>a DEF IInv, Directories, SwitchTaskNext, TypeOK
<1>3. Queue'
  BY <1>a DEF IInv, Queue, SwitchTaskNext, TypeOK, Count
<1>4. Current'
  BY <1>a DEF IInv, Current, SwitchTaskNext, TypeOK, Count
<1>5. Modes'
  BY <1>a DEF IInv, Modes, SwitchTaskNext
<1>6. Masked'
  BY <1>a DEF IInv, Masked, SwitchTaskNext, Modes
<1>7. MainStack'
  BY <1>a DEF IInv, MainStack, SwitchTaskNext, TypeOK, Modes, Depth
<1>8. TaskStacks'
  BY <1>a DEF IInv, TaskStacks, SwitchTaskNext, TypeOK
<1>9. Saved'
  BY <1>a DEF IInv, Saved, SwitchTaskNext, TypeOK, Count, Fresh, Resumable
<1>10. Progress'
  BY <1>a DEF IInv, Progress, SwitchTaskNext, TypeOK, MainStack, Modes, Base, Depth
<1> QED
  BY <1>1, <1>2, <1>3, <1>4, <1>5, <1>6, <1>7, <1>8, <1>9, <1>10 DEF IInv

(* From behind the last task current_task goes to the first.                *)
LEMMA SwitchTaskWrapStep ==
  ASSUME IInv, SwitchTaskWrap
  PROVE  IInv'
<1>a. /\ current_task = next[cr3] /\ next_pid # 1
      /\ next[cr3] = IF cr3 < Count THEN cr3 + 1 ELSE NULL
  <2>1. pc = "st_wrap" /\ next_pid # 1
    BY SwitchPoint DEF SwitchTaskWrap
  <2> QED
    BY <2>1 DEF IInv, TypeOK, Current, Queue
<1>1. TypeOK'
  <2>1. current_task' \in {NULL} \cup Pid
    BY DEF SwitchTaskWrap, IInv, TypeOK
  <2> QED
    BY <2>1 DEF SwitchTaskWrap, IInv, TypeOK
<1>2. Directories'
  BY <1>a DEF IInv, Directories, SwitchTaskWrap, TypeOK, Queue
<1>3. Queue'
  BY <1>a DEF IInv, Queue, SwitchTaskWrap, TypeOK, Count
<1>4. Current'
  <2>1. /\ UNCHANGED <<cr3, current_directory, next_pid>> /\ pc' = "st_run"
        /\ pc = "st_wrap"
        /\ current_task' = IF current_task = NULL THEN ready_queue ELSE current_task
    BY DEF SwitchTaskWrap
  <2>2. Count' = Count
    BY <2>1 DEF Count
  <2>3. ready_queue = Main /\ cr3 \in Pid
    BY <1>a DEF IInv, Queue, TypeOK
  <2>4. current_task' = IF cr3 < Count THEN cr3 + 1 ELSE Main
    BY <1>a, <2>1, <2>3
  <2> QED
    BY <1>a, <2>1, <2>2, <2>4 DEF IInv, Current
<1>5. Modes'
  BY <1>a DEF IInv, Modes, SwitchTaskWrap, Queue
<1>6. Masked'
  BY <1>a DEF IInv, Masked, SwitchTaskWrap, Modes, Queue
<1>7. MainStack'
  BY <1>a DEF IInv, MainStack, SwitchTaskWrap, TypeOK, Modes, Depth, Queue
<1>8. TaskStacks'
  BY <1>a DEF IInv, TaskStacks, SwitchTaskWrap, TypeOK, Queue
<1>9. Saved'
  BY <1>a DEF IInv, Saved, SwitchTaskWrap, TypeOK, Count, Fresh, Resumable, Queue
<1>10. Progress'
  BY <1>a DEF IInv, Progress, SwitchTaskWrap, TypeOK, MainStack, Modes, Base, Depth, Queue
<1> QED
  BY <1>1, <1>2, <1>3, <1>4, <1>5, <1>6, <1>7, <1>8, <1>9, <1>10 DEF IInv

(* A request of a device disturbs nothing: the in-service register is what  *)
(* the invariant speaks of.                                                 *)
LEMMA RaiseStep ==
  ASSUME IInv, NEW i \in Lines, Raise(i)
  PROVE  IInv'
<1>1. TypeOK'
  BY DEF IInv, TypeOK, Raise
<1>2. Directories'
  BY DEF IInv, Directories, Raise
<1>3. Queue'
  BY DEF IInv, Queue, Raise, Count
<1>4. Current'
  BY DEF IInv, Current, Raise, Count
<1>5. Modes'
  BY DEF IInv, Modes, Raise
<1>6. Masked'
  BY DEF IInv, Masked, Raise, Modes
<1>7. MainStack'
  BY DEF IInv, MainStack, Raise, Modes, Depth
<1>8. TaskStacks'
  BY DEF IInv, TaskStacks, Raise
<1>9. Saved'
  BY DEF IInv, Saved, Raise, Count, Fresh, Resumable
<1>10. Progress'
  BY DEF IInv, Progress, Raise, MainStack, Modes, Base, Depth
<1> QED
  BY <1>1, <1>2, <1>3, <1>4, <1>5, <1>6, <1>7, <1>8, <1>9, <1>10 DEF IInv

(* The timer handler counts and enters switch_task with line 0 in service.  *)
LEMMA TimerHandlerStep ==
  ASSUME IInv, TimerHandler
  PROVE  IInv'
<1>a. cr3 = Main /\ Depth > 0 /\ stack[Main][1].int_no = IntNo(0)
  <2>1. pc \in IrqPC /\ irq_routines[Head(stack[cr3]).int_no - 32] = "timer_handler"
    BY DEF TimerHandler, Handling
  <2>2. PICK i \in Lines : stack[Main][1].int_no = IntNo(i)
    BY <2>1, HandlerPoint
  <2>3. Head(stack[cr3]).int_no - 32 = i /\ i \in 0 .. 15
    BY <2>1, <2>2, HandlerPoint DEF IntNo
  <2>4. i = 0
    BY <2>1, <2>3 DEF irq_routines
  <2> QED
    BY <2>1, <2>2, <2>4, HandlerPoint
<1>1. TypeOK'
  <2>1. timer_ticks' \in 0 .. TickModulus - 1
    BY DEF TimerHandler, IInv, TypeOK
  <2> QED
    BY <2>1 DEF TimerHandler, Handling, IInv, TypeOK
<1>2. Directories'
  BY <1>a DEF IInv, Directories, TimerHandler, Handling, TypeOK
<1>3. Queue'
  BY <1>a DEF IInv, Queue, TimerHandler, Handling, TypeOK, Count
<1>4. Current'
  BY <1>a DEF IInv, Current, TimerHandler, Handling, TypeOK, Count
<1>5. Modes'
  BY <1>a DEF IInv, Modes, TimerHandler, Handling
<1>6. Masked'
  BY <1>a DEF IInv, Masked, TimerHandler, Handling, Modes
<1>7. MainStack'
  BY <1>a DEF IInv, MainStack, TimerHandler, Handling, TypeOK, Modes, Depth
<1>8. TaskStacks'
  BY <1>a DEF IInv, TaskStacks, TimerHandler, Handling, TypeOK
<1>9. Saved'
  BY <1>a DEF IInv, Saved, TimerHandler, Handling, TypeOK, Count, Fresh, Resumable
<1>10. Progress'
  BY <1>a DEF IInv, Progress, TimerHandler, Handling, TypeOK, MainStack, Modes, Base, Depth
<1> QED
  BY <1>1, <1>2, <1>3, <1>4, <1>5, <1>6, <1>7, <1>8, <1>9, <1>10 DEF IInv

(* A line without a handler goes straight to its EOI.                       *)
LEMMA NoHandlerStep ==
  ASSUME IInv, NoHandler
  PROVE  IInv'
<1>1. TypeOK'
  BY DEF IInv, TypeOK, NoHandler, Handling
<1>2. Directories'
  BY DEF IInv, Directories, NoHandler, Handling
<1>3. Queue'
  BY DEF IInv, Queue, NoHandler, Handling, Count
<1>4. Current'
  BY DEF IInv, Current, NoHandler, Handling, Count
<1>5. Modes'
  BY DEF IInv, Modes, NoHandler, Handling
<1>6. Masked'
  BY DEF IInv, Masked, NoHandler, Handling, Modes
<1>7. MainStack'
  BY DEF IInv, MainStack, NoHandler, Handling, Modes, Depth
<1>8. TaskStacks'
  BY DEF IInv, TaskStacks, NoHandler, Handling
<1>9. Saved'
  BY DEF IInv, Saved, NoHandler, Handling, Count, Fresh, Resumable
<1>10. Progress'
  BY DEF IInv, Progress, NoHandler, Handling, MainStack, Modes, Base, Depth
<1> QED
  BY <1>1, <1>2, <1>3, <1>4, <1>5, <1>6, <1>7, <1>8, <1>9, <1>10 DEF IInv

(* IRQ 14 ends in the PANIC of page_fault, with interrupts off.             *)
LEMMA PageFaultHandlerStep ==
  ASSUME IInv, PageFaultHandler
  PROVE  IInv'
<1>1. TypeOK'
  BY DEF IInv, TypeOK, PageFaultHandler, Handling
<1>2. Directories'
  BY DEF IInv, Directories, PageFaultHandler, Handling
<1>3. Queue'
  BY DEF IInv, Queue, PageFaultHandler, Handling, Count
<1>4. Current'
  BY DEF IInv, Current, PageFaultHandler, Handling, Count
<1>5. Modes'
  BY DEF IInv, Modes, PageFaultHandler, Handling
<1>6. Masked'
  BY DEF IInv, Masked, PageFaultHandler, Handling, Modes
<1>7. MainStack'
  BY DEF IInv, MainStack, PageFaultHandler, Handling, Modes, Depth
<1>8. TaskStacks'
  BY DEF IInv, TaskStacks, PageFaultHandler, Handling
<1>9. Saved'
  BY DEF IInv, Saved, PageFaultHandler, Handling, Count, Fresh, Resumable
<1>10. Progress'
  BY DEF IInv, Progress, PageFaultHandler, Handling, MainStack, Modes, Base, Depth
<1> QED
  BY <1>1, <1>2, <1>3, <1>4, <1>5, <1>6, <1>7, <1>8, <1>9, <1>10 DEF IInv

(* The EOI comes when _kmain runs again, which no longer needs line 0.      *)
LEMMA IrqEoiStep ==
  ASSUME IInv, IrqEoi
  PROVE  IInv'
<1>1. TypeOK'
  BY DEF IInv, TypeOK, IrqEoi, Eoi
<1>2. Directories'
  BY DEF IInv, Directories, IrqEoi, TypeOK
<1>3. Queue'
  BY DEF IInv, Queue, IrqEoi, TypeOK, Count
<1>4. Current'
  BY DEF IInv, Current, IrqEoi, TypeOK, Count
<1>5. Modes'
  BY DEF IInv, Modes, IrqEoi
<1>6. Masked'
  BY DEF IInv, Masked, IrqEoi, Modes
<1>7. MainStack'
  BY DEF IInv, MainStack, IrqEoi, TypeOK, Modes, Depth
<1>8. TaskStacks'
  BY DEF IInv, TaskStacks, IrqEoi, TypeOK
<1>9. Saved'
  BY DEF IInv, Saved, IrqEoi, TypeOK, Count, Fresh, Resumable
<1>10. Progress'
  BY DEF IInv, Progress, IrqEoi, TypeOK, MainStack, Modes, Base, Depth
<1> QED
  BY <1>1, <1>2, <1>3, <1>4, <1>5, <1>6, <1>7, <1>8, <1>9, <1>10 DEF IInv

(* A created task calls switch_task on an empty stack.                      *)
LEMMA ProcYieldStep ==
  ASSUME IInv, ProcYield
  PROVE  IInv'
<1>a. /\ cr3 \in Pid \ {Main} /\ pc = "proc" /\ pc' = "switch_task" /\ 0 \in isr
      /\ stack' = [stack EXCEPT ![cr3] = <<CallFrame>>]
  <2>1. cr3 \in Pid \ {Main} /\ pc = "proc" /\ 0 \in isr
    BY DEF ProcYield, IInv, TypeOK, Modes, Masked
  <2>2. stack[cr3] = <<>> /\ DOMAIN stack = Pid
    BY <2>1 DEF IInv, TaskStacks, TypeOK
  <2>3. <<CallFrame>> \o stack[cr3] = <<CallFrame>>
    BY <2>2
  <2> QED
    BY <2>1, <2>2, <2>3 DEF ProcYield, Push, CallFrame
<1>b. stack'[Main] = stack[Main]
  BY <1>a DEF IInv, TypeOK
<1>1. TypeOK'
  <2>1. CallFrame \in Frame /\ <<CallFrame>> \in Seq(Frame)
    BY DEF CallFrame, Frame
  <2>2. stack' \in [Pid -> Seq(Frame)]
    BY <1>a, <2>1 DEF IInv, TypeOK
  <2> QED
    BY <2>2 DEF ProcYield, IInv, TypeOK
<1>2. Directories'
  BY DEF IInv, Directories, ProcYield
<1>3. Queue'
  BY DEF IInv, Queue, ProcYield, Count
<1>4. Current'
  BY DEF IInv, Current, ProcYield, Count
<1>5. Modes'
  BY <1>a DEF IInv, Modes, ProcYield
<1>6. Masked'
  BY <1>a, <1>b DEF IInv, Masked, ProcYield
<1>7. MainStack'
  BY <1>a, <1>b DEF IInv, MainStack, ProcYield, Depth
<1>8. TaskStacks'
  <2>1. DOMAIN stack = Pid
    BY DEF IInv, TypeOK
  <2> QED
    BY <1>a, <2>1 DEF IInv, TaskStacks, ProcYield
<1>9. Saved'
  <2>1. UNCHANGED <<eip, esp, page_directory, cr3, next_pid>> /\ DOMAIN stack = Pid
    BY DEF ProcYield, IInv, TypeOK
  <2>2. ASSUME NEW t \in Pid, t <= Count, t # cr3
        PROVE  Resumable(t)'
    <3>1. Resumable(t) /\ page_directory[t] = t
      BY <1>a, <2>2 DEF IInv, Saved, Fresh, Directories, Count, TypeOK
    <3> QED
      BY <1>a, <2>1, <2>2, <3>1 DEF Resumable
  <2>3. Count' = Count
    BY <1>a, <2>1 DEF Count
  <2> QED
    BY <1>a, <2>1, <2>2, <2>3 DEF IInv, Saved
<1>10. Progress'
  BY <1>a, <1>b DEF IInv, Progress, ProcYield, Base, Depth, MainStack
<1> QED
  BY <1>1, <1>2, <1>3, <1>4, <1>5, <1>6, <1>7, <1>8, <1>9, <1>10 DEF IInv

(* perform_task_switch finds a context that fits the stack of its task: the *)
(* return of _kmain into its interrupt handler, or of a created task from   *)
(* its call of switch_task or to the routine it was made for.               *)
LEMMA PerformTaskSwitchStep ==
  ASSUME IInv, PerformTaskSwitch
  PROVE  IInv'
<1> DEFINE t == current_task
<1>a. /\ t \in Pid /\ page_directory[t] = t /\ Resumable(t) /\ 0 \in isr
      /\ next_pid \in Nat /\ next_pid # 1 /\ Count = next_pid - 1 /\ t <= Count
      /\ t # Main => t = cr3 + 1
  <2>1. pc = "st_run" /\ next_pid # 1 /\ Count = next_pid - 1 /\ 0 \in isr
    BY SwitchPoint DEF PerformTaskSwitch, IInv, Masked
  <2>2. next_pid \in 1 .. NProcs + 2 /\ cr3 \in Pid
    BY DEF IInv, TypeOK
  <2>3. t = IF cr3 < Count THEN cr3 + 1 ELSE Main
    BY <2>1 DEF IInv, Current
  <2>4. t \in Pid /\ t <= Count /\ (t # Main => t = cr3 + 1)
    BY <2>1, <2>2, <2>3
  <2>5. page_directory[t] = t
    BY <2>1, <2>2, <2>4 DEF IInv, Directories
  <2>6. Resumable(t)
    BY <2>1, <2>4 DEF IInv, Saved, Fresh
  <2> QED
    BY <2>1, <2>2, <2>4, <2>5, <2>6
<1>b. /\ cr3' = t /\ current_directory' = t /\ tss_esp0' = kernel_stack[t] /\ JumpTo(t)
      /\ UNCHANGED <<pic, timer_ticks, current_task, ready_queue, next_pid, task>>
  BY <1>a DEF PerformTaskSwitch
<1>c. t = Main => pc' = "irq_eoi" /\ stack' = stack
  <2>1. Depth > 0 /\ stack[Main][1].int_no = IntNo(0)
    BY SwitchPoint DEF PerformTaskSwitch
  <2>4. stack[Main] \in Seq(Frame)
    BY DEF IInv, TypeOK
  <2>2. Head(stack[Main]).int_no # 0
    BY <2>1, <2>4 DEF Depth, IntNo
  <2>3. eip[Main] = "read_eip" \/ eip[Main] = "none"
    BY DEF IInv, Saved
  <2> QED
    BY <1>a, <1>b, <2>2, <2>3 DEF JumpTo, ReturnFromSwitch, Resumable
<1>d. t # Main => pc' \in {"proc", "fork_child"} /\ stack' = [stack EXCEPT ![t] = <<>>]
  <2> SUFFICES ASSUME t # Main
               PROVE  pc' \in {"proc", "fork_child"} /\ stack' = [stack EXCEPT ![t] = <<>>]
    OBVIOUS
  <2>1. /\ stack[t] = IF eip[t] = "read_eip" THEN <<CallFrame>> ELSE <<>>
        /\ stack \in [Pid -> Seq(Frame)] /\ cr3 \in Pid
    BY <1>a DEF IInv, TaskStacks, TypeOK
  <2>2. CASE eip[t] = "read_eip"
    <3>1. Head(stack[t]) = CallFrame /\ Tail(stack[t]) = <<>>
      BY <2>1, <2>2
    <3>2. ReturnFromSwitch(t)
      BY <1>a, <1>b, <2>2 DEF JumpTo
    <3>3. CallFrame.int_no = 0 /\ CallFrame.at = "proc"
      BY DEF CallFrame
    <3>4. pc' = "proc" /\ stack' = [stack EXCEPT ![t] = Tail(stack[t])]
      BY <3>1, <3>2, <3>3 DEF ReturnFromSwitch
    <3> QED
      BY <3>1, <3>4
  <2>3. CASE eip[t] # "read_eip"
    <3>1. pc' \in {"proc", "fork_child"} /\ stack' = stack
      BY <1>a, <1>b, <2>3 DEF JumpTo
    <3>2. stack = [stack EXCEPT ![t] = <<>>]
      BY <2>1, <2>3
    <3> QED
      BY <3>1, <3>2
  <2> QED
    BY <2>2, <2>3
<1>e. stack'[Main] = stack[Main] /\ Depth' = Depth
  BY <1>a, <1>c, <1>d DEF IInv, TypeOK, Depth
<1>f. pc \in SwitchPC /\ Depth > 0 /\ stack[Main][1].int_no = IntNo(0)
  BY SwitchPoint DEF PerformTaskSwitch
<1> HIDE DEF t
<1>1. TypeOK'
  <2>1. stack' \in [Pid -> Seq(Frame)]
    <3>1. stack \in [Pid -> Seq(Frame)] /\ <<>> \in Seq(Frame)
      BY DEF IInv, TypeOK
    <3> QED
      BY <1>a, <1>c, <1>d, <3>1
  <2>2. tss_esp0' \in 0 .. NProcs + 1
    BY <1>a, <1>b DEF IInv, TypeOK
  <2>3. pc' \in PC /\ iflag' \in BOOLEAN
    BY <1>c, <1>d DEF PerformTaskSwitch
  <2> QED
    BY <1>a, <1>b, <2>1, <2>2, <2>3 DEF IInv, TypeOK
<1>2. Directories'
  BY <1>b DEF IInv, Directories
<1>3. Queue'
  <2>1. Count' = Count
    BY <1>a, <1>b, <1>c, <1>d DEF Count
  <2> QED
    BY <1>b, <2>1 DEF IInv, Queue
<1>4. Current'
  <2>1. Count' = Count /\ pc' \notin {"st_wrap", "st_run"}
    BY <1>a, <1>b, <1>c, <1>d DEF Count
  <2> QED
    BY <1>a, <1>b, <2>1 DEF Current, t
<1>5. Modes'
  BY <1>b, <1>c, <1>d DEF Modes
<1>6. Masked'
  BY <1>a, <1>b, <1>c, <1>d DEF Masked
<1>7. MainStack'
  <2>1. Depth = 0 <=> cr3' = Main /\ pc' \in KmainPC
    BY <1>b, <1>c, <1>d, <1>f
  <2> QED
    BY <1>e, <1>f, <2>1 DEF IInv, MainStack
<1>8. TaskStacks'
  <2>1. stack \in [Pid -> Seq(Frame)] /\ eip' = eip
    BY <1>b DEF IInv, TypeOK
  <2>2. cr3 # Main => eip[cr3] = "read_eip"
    BY DEF PerformTaskSwitch, IInv, Saved
  <2>3. ASSUME NEW u \in Pid \ {Main}, u # t
        PROVE  stack'[u] = IF eip[u] = "read_eip" THEN <<CallFrame>> ELSE <<>>
    BY <1>c, <1>d, <1>f, <2>1, <2>2, <2>3 DEF IInv, TaskStacks
  <2>4. t # Main => stack'[t] = <<>>
    BY <1>a, <1>d, <2>1
  <2> QED
    BY <1>b, <1>c, <1>d, <2>1, <2>3, <2>4 DEF TaskStacks
<1>9. Saved'
  <2>1. /\ UNCHANGED <<eip, esp, page_directory, next_pid>> /\ cr3' = t
        /\ pc' \in {"irq_eoi", "proc", "fork_child"} /\ stack \in [Pid -> Seq(Frame)]
    BY <1>b, <1>c, <1>d DEF IInv, TypeOK
  <2>2. Count' = Count
    BY <1>a, <2>1 DEF Count
  <2>3. ASSUME NEW u \in Pid, u <= Count, u # t
        PROVE  Resumable(u)'
    <3>1. Resumable(u) /\ page_directory[u] = u
      BY <1>a, <2>3 DEF PerformTaskSwitch, IInv, Saved, Fresh, Directories
    <3>2. stack'[u] = stack[u]
      BY <1>a, <1>c, <1>d, <2>1, <2>3
    <3> QED
      BY <2>1, <3>1, <3>2 DEF Resumable
  <2> QED
    BY <2>1, <2>2, <2>3 DEF IInv, Saved
<1>10. Progress'
  <2>1. Base' = Base
    BY <1>e, <1>f DEF Base
  <2>2. pc' \in {"irq_eoi", "proc", "fork_child"}
    BY <1>c, <1>d
  <2> QED
    BY <1>a, <1>b, <2>1, <2>2 DEF IInv, Progress
<1> QED
  BY <1>1, <1>2, <1>3, <1>4, <1>5, <1>6, <1>7, <1>8, <1>9, <1>10 DEF IInv

(* The controller grants nothing while line 0 is in service.                *)
LEMMA TimerMasksAll ==
  ASSUME NEW i \in Lines, i \in Granted(irr, isr)
  PROVE  0 \notin isr
<1>1. Unblocked(isr, i)
  BY DEF Granted
<1>2. Level(i) \in Nat
  BY DEF Level, Cascade
<1> QED
  BY <1>1, <1>2 DEF Unblocked, Master

(* Pushing a frame on a stack shifts the others up by one.                  *)
LEMMA PushFacts ==
  ASSUME NEW s \in Seq(Frame), NEW f \in Frame
  PROVE  /\ <<f>> \o s \in Seq(Frame) /\ Len(<<f>> \o s) = Len(s) + 1
         /\ (<<f>> \o s)[1] = f
         /\ \A k \in 2 .. Len(s) + 1 : (<<f>> \o s)[k] = s[k - 1]
<1>1. <<f>> \in Seq(Frame) /\ Len(<<f>>) = 1 /\ <<f>>[1] = f
  OBVIOUS
<1> QED
  BY <1>1, ConcatProperties

(* Popping a frame shifts the others down by one.                           *)
LEMMA PopFacts ==
  ASSUME NEW s \in Seq(Frame), Len(s) > 0
  PROVE  /\ Tail(s) \in Seq(Frame) /\ Len(Tail(s)) = Len(s) - 1
         /\ Head(s) = s[1] /\ s[1] \in Frame
         /\ \A k \in 1 .. Len(s) - 1 : Tail(s)[k] = s[k + 1]
<1>1. s # <<>>
  OBVIOUS
<1> QED
  BY <1>1, HeadTailProperties

(* An interrupt is taken only in _kmain with interrupts enabled or before   *)
(* the iret of an interrupt handler.                                        *)
LEMMA InterruptStep ==
  ASSUME IInv, NEW i \in Lines, Interrupt(i)
  PROVE  IInv'
<1> DEFINE f == [at |-> pc, int_no |-> IntNo(i)]
<1> DEFINE s == stack[Main]
<1>a. cr3 = Main /\ pc \in Open \cup {"irq_iret"}
  <2>1. 0 \notin isr /\ iflag /\ pc # "wild"
    BY TimerMasksAll DEF Interrupt
  <2> QED
    BY <2>1 DEF IInv, Modes, Masked, TypeOK
<1>b. /\ stack' = [stack EXCEPT ![Main] = <<f>> \o s] /\ pc' = "irq_handler" /\ iflag' = FALSE
      /\ isr' = InService(isr, i)
      /\ UNCHANGED <<cr3, tss_esp0, timer_ticks, sched, task>>
  BY <1>a DEF Interrupt, Push
<1>c. s \in Seq(Frame) /\ stack \in [Pid -> Seq(Frame)] /\ Len(s) \in Nat
  BY DEF IInv, TypeOK
<1>d. f \in Frame /\ f.at = pc /\ f.int_no = IntNo(i) /\ f.int_no # 0
  BY <1>a DEF Frame, IntNo, Cascade
<1>e. /\ stack'[Main] \in Seq(Frame) /\ Depth = Len(s) /\ Depth' = Depth + 1
      /\ stack'[Main][1] = f /\ \A k \in 2 .. Depth + 1 : stack'[Main][k] = s[k - 1]
  <2>1. stack'[Main] = <<f>> \o s
    BY <1>b, <1>c
  <2> QED
    BY <1>c, <1>d, <2>1, PushFacts DEF Depth
<1>f. Depth = 0 <=> pc \in Open
  BY <1>a DEF IInv, MainStack
<1>g. Base' = Base
  <2>1. CASE Depth = 0
    BY <1>d, <1>e, <2>1 DEF Base
  <2>2. CASE Depth # 0
    <3>1. Base = s[Depth].at /\ Base' = stack'[Main][Depth + 1].at
      BY <1>c, <1>e, <2>2 DEF Base
    <3>2. Depth + 1 \in 2 .. Depth + 1
      BY <1>c, <1>e, <2>2
    <3>3. stack'[Main][Depth + 1] = s[(Depth + 1) - 1] /\ (Depth + 1) - 1 = Depth
      <4>1. \A k \in 2 .. Depth + 1 : stack'[Main][k] = s[k - 1]
        BY <1>e
      <4>2. Depth \in Nat
        BY <1>c, <1>e
      <4> HIDE DEF s
      <4> QED
        BY <3>2, <4>1, <4>2
    <3> QED
      BY <3>1, <3>3
  <2> QED
    BY <2>1, <2>2
<1> HIDE DEF f, s
<1>1. TypeOK'
  <2>1. stack' \in [Pid -> Seq(Frame)]
    BY <1>b, <1>c, <1>e
  <2>2. isr' \subseteq 0 .. 15
    BY <1>b DEF IInv, TypeOK, InService, Level, Slave, Cascade
  <2>3. irr' \subseteq Lines
    BY DEF Interrupt, IInv, TypeOK
  <2> QED
    BY <1>b, <2>1, <2>2, <2>3 DEF IInv, TypeOK
<1>2. Directories'
  BY <1>b DEF IInv, Directories
<1>3. Queue'
  BY <1>a, <1>b DEF IInv, Queue, Count
<1>4. Current'
  BY <1>a, <1>b DEF IInv, Current, Count
<1>5. Modes'
  BY <1>a, <1>b DEF Modes
<1>6. Masked'
  <2>1. cr3' = Main /\ pc' = "irq_handler"
    BY <1>a, <1>b
  <2>2. stack'[Main][1].int_no = IntNo(0) => 0 \in isr'
    BY <1>b, <1>d, <1>e DEF IntNo, InService, Cascade
  <2> QED
    BY <2>1, <2>2 DEF Masked
<1>7. MainStack'
  <2>1. Depth' # 0 /\ cr3' = Main /\ pc' = "irq_handler"
    BY <1>a, <1>b, <1>c, <1>e
  <2>2. ASSUME NEW k \in 1 .. Depth + 1
        PROVE  /\ stack'[Main][k].int_no # 0
               /\ stack'[Main][k].at \in IF k = Depth + 1 THEN Open ELSE {"irq_iret"}
    <3>1. CASE k = 1
      BY <1>a, <1>c, <1>d, <1>e, <1>f, <3>1, SMTT(30)
    <3>2. CASE k # 1
      <4>1. stack'[Main][k] = stack[Main][k - 1] /\ k - 1 \in 1 .. Depth
        BY <1>c, <1>e, <3>2 DEF s
      <4>2. k = Depth + 1 <=> k - 1 = Depth
        BY <1>c, <1>e
      <4> QED
        BY <4>1, <4>2 DEF IInv, MainStack
    <3> QED
      BY <3>1, <3>2
  <2> QED
    BY <1>e, <2>1, <2>2 DEF MainStack
<1>8. TaskStacks'
  BY <1>a, <1>b, <1>c DEF IInv, TaskStacks
<1>9. Saved'
  <2>1. /\ UNCHANGED <<eip, esp, page_directory, next_pid>> /\ cr3' = Main
        /\ pc' = "irq_handler" /\ next_pid \in Nat
    BY <1>a, <1>b DEF IInv, TypeOK
  <2>2. Count' = Count
    BY <1>a, <2>1 DEF Count
  <2>3. ASSUME NEW t \in Pid, t <= Count, t # Main
        PROVE  Resumable(t)'
    <3>1. Resumable(t) /\ page_directory[t] = t
      BY <1>a, <2>1, <2>3 DEF IInv, Saved, Fresh, Directories, Count
    <3>2. stack'[t] = stack[t]
      BY <1>b, <1>c, <2>3
    <3> QED
      BY <2>1, <3>1, <3>2 DEF Resumable
  <2> QED
    BY <2>1, <2>2, <2>3 DEF IInv, Saved
<1>10. Progress'
  BY <1>a, <1>b, <1>g DEF IInv, Progress
<1> QED
  BY <1>1, <1>2, <1>3, <1>4, <1>5, <1>6, <1>7, <1>8, <1>9, <1>10 DEF IInv

(* iret goes back to _kmain, or to the iret of the handler it interrupted.  *)
LEMMA IrqIretStep ==
  ASSUME IInv, IrqIret
  PROVE  IInv'
<1> DEFINE s == stack[Main]
<1>a. cr3 = Main /\ pc = "irq_iret" /\ s \in Seq(Frame) /\ Depth = Len(s) /\ Depth > 0
  BY HandlerPoint DEF IrqIret, Depth
<1>b. /\ Head(s) = s[1] /\ s[1] \in Frame /\ Tail(s) \in Seq(Frame)
      /\ Len(Tail(s)) = Depth - 1 /\ \A k \in 1 .. Depth - 1 : Tail(s)[k] = s[k + 1]
  BY <1>a, PopFacts
<1>c. /\ stack' = [stack EXCEPT ![Main] = Tail(s)] /\ pc' = s[1].at /\ iflag' = TRUE
      /\ UNCHANGED <<cr3, tss_esp0, pic, timer_ticks, sched, task>>
  BY <1>a, <1>b DEF IrqIret
<1>d. stack \in [Pid -> Seq(Frame)] /\ stack'[Main] = Tail(s) /\ Depth' = Depth - 1
  BY <1>b, <1>c DEF IInv, TypeOK, Depth
<1>e. pc' \in IF Depth = 1 THEN Open ELSE {"irq_iret"}
  <2>1. \A k \in 1 .. Depth : stack[Main][k].at \in IF k = Depth THEN Open ELSE {"irq_iret"}
    BY DEF IInv, MainStack
  <2>2. 1 \in 1 .. Depth
    BY <1>a
  <2>3. stack[Main][1].at \in IF 1 = Depth THEN Open ELSE {"irq_iret"}
    BY <2>1, <2>2
  <2>4. pc' = stack[Main][1].at
    BY <1>c
  <2> QED
    BY <2>3, <2>4
<1>f. Base' = Base
  <2>1. Base = s[Depth].at /\ Depth \in Nat
    BY <1>a DEF Base
  <2>2. CASE Depth = 1
    BY <1>c, <1>d, <2>1, <2>2 DEF Base
  <2>3. CASE Depth # 1
    <3>a. Depth - 1 \in 1 .. Depth - 1 /\ Depth' # 0
      <4>1. Depth \in Nat /\ Depth > 0 /\ Depth # 1
        BY <1>a, <2>1, <2>3
      <4>2. Depth' = Depth - 1
        BY <1>d
      <4> HIDE DEF s
      <4> QED
        BY <4>1, <4>2
    <3>b. Base' = stack'[Main][Depth'].at
      BY <3>a DEF Base
    <3>1. Base' = Tail(s)[Depth - 1].at /\ Depth - 1 \in 1 .. Depth - 1
      BY <1>d, <3>a, <3>b
    <3>2. Tail(s)[Depth - 1] = s[(Depth - 1) + 1] /\ (Depth - 1) + 1 = Depth
      BY <1>b, <2>1, <3>1
    <3> QED
      BY <2>1, <3>1, <3>2
  <2> QED
    BY <2>2, <2>3
<1> HIDE DEF s
<1>1. TypeOK'
  <2>1. stack' \in [Pid -> Seq(Frame)]
    BY <1>b, <1>c, <1>d
  <2> QED
    BY <1>c, <1>e, <2>1 DEF IInv, TypeOK
<1>2. Directories'
  BY <1>c DEF IInv, Directories
<1>3. Queue'
  BY <1>a, <1>c, <1>e DEF IInv, Queue, Count
<1>4. Current'
  BY <1>a, <1>c, <1>e DEF IInv, Current, Count
<1>5. Modes'
  BY <1>a, <1>c, <1>e DEF Modes
<1>6. Masked'
  BY <1>a, <1>c, <1>e DEF Masked
<1>7. MainStack'
  <2>1. Depth' = 0 <=> cr3' = Main /\ pc' \in KmainPC
    BY <1>a, <1>c, <1>d, <1>e
  <2>2. ASSUME NEW k \in 1 .. Depth - 1
        PROVE  /\ stack'[Main][k].int_no # 0
               /\ stack'[Main][k].at \in IF k = Depth - 1 THEN Open ELSE {"irq_iret"}
    <3>1. stack'[Main][k] = stack[Main][k + 1] /\ k + 1 \in 1 .. Depth
      BY <1>a, <1>b, <1>d DEF s
    <3>2. k = Depth - 1 <=> k + 1 = Depth
      BY <1>a
    <3> QED
      BY <3>1, <3>2 DEF IInv, MainStack
  <2> QED
    BY <1>a, <1>c, <1>d, <1>e, <2>1, <2>2 DEF MainStack
<1>8. TaskStacks'
  BY <1>a, <1>c, <1>d, <1>e DEF IInv, TaskStacks
<1>9. Saved'
  <2>1. /\ UNCHANGED <<eip, esp, page_directory, next_pid>> /\ cr3' = Main
        /\ pc' \in Open \cup {"irq_iret"} /\ next_pid \in Nat
    BY <1>a, <1>c, <1>e DEF IInv, TypeOK
  <2>2. Count' = Count
    BY <1>a, <2>1 DEF Count
  <2>3. ASSUME NEW t \in Pid, t <= Count, t # Main
        PROVE  Resumable(t)'
    <3>1. Resumable(t) /\ page_directory[t] = t
      BY <1>a, <2>1, <2>3 DEF IInv, Saved, Fresh, Directories, Count
    <3>2. stack'[t] = stack[t]
      BY <1>c, <1>d, <2>3
    <3> QED
      BY <2>1, <3>1, <3>2 DEF Resumable
  <2> QED
    BY <2>1, <2>2, <2>3 DEF IInv, Saved
<1>10. Progress'
  BY <1>a, <1>c, <1>e, <1>f DEF IInv, Progress
<1> QED
  BY <1>1, <1>2, <1>3, <1>4, <1>5, <1>6, <1>7, <1>8, <1>9, <1>10 DEF IInv

(* _kmain starts on an empty stack with no task and nothing in service.      *)
LEMMA InitInvariant == Init => IInv
<1> SUFFICES ASSUME Init PROVE IInv
  OBVIOUS
<1>1. TypeOK
  BY DEF Init, TypeOK, Eip, NoEsp
<1>2. Directories /\ Queue /\ Current
  BY DEF Init, Directories, Queue, Current, Count
<1>3. Modes /\ Masked /\ TaskStacks
  BY DEF Init, Modes, Masked, TaskStacks
<1>4. MainStack
  BY DEF Init, MainStack, Depth
<1>5. Saved
  BY DEF Init, Saved, Count
<1>6. Progress
  BY DEF Init, Progress, Base, Depth
<1> QED
  BY <1>1, <1>2, <1>3, <1>4, <1>5, <1>6 DEF IInv

(* The invariant speaks of the variables only, so it survives stuttering.   *)
LEMMA StutterStep ==
  ASSUME IInv, UNCHANGED vars
  PROVE  IInv'
<1>1. TypeOK' /\ Directories'
  BY DEF IInv, TypeOK, Directories
<1>2. Queue' /\ Current'
  BY DEF IInv, Queue, Current, Count
<1>3. Modes' /\ Masked'
  BY DEF IInv, Modes, Masked
<1>4. MainStack'
  BY DEF IInv, MainStack, Depth
<1>5. TaskStacks'
  BY DEF IInv, TaskStacks, Count, Fresh, Resumable
<1>6. Saved'
  BY DEF IInv, Saved, Count, Fresh, Resumable
<1>7. Progress'
  BY DEF IInv, Progress, Base, Depth
<1> QED
  BY <1>1, <1>2, <1>3, <1>4, <1>5, <1>6, <1>7 DEF IInv

(* Every step keeps the invariant: one case per action of Next.             *)
LEMMA NextInvariant == IInv /\ [Next]_vars => IInv'
<1> SUFFICES ASSUME IInv, [Next]_vars PROVE IInv'
  OBVIOUS
<1>1. CASE Kmain
  <2>1. CASE InitialiseTaskingCli \/ CreateProcCli \/ ForkCli
    BY <2>1, CliStep DEF InitialiseTaskingCli, CreateProcCli, ForkCli
  <2>2. CASE InitialiseTasking
    BY <2>2, InitialiseTaskingStep
  <2>3. CASE CreateProcNew \/ ForkNew
    BY <2>3, NewTaskStep DEF CreateProcNew, ForkNew
  <2>4. CASE CreateProcLink \/ ForkLink
    BY <2>4, LinkTaskStep DEF CreateProcLink, ForkLink
  <2>5. CASE CreateProcRet \/ ForkRet
    BY <2>5, LeaveSpawnStep DEF CreateProcRet, ForkRet
  <2>6. CASE SwitchToUserMode \/ Syscall
    BY <2>6, SwitchToUserModeStep, SyscallStep
  <2> QED
    BY <1>1, <2>1, <2>2, <2>3, <2>4, <2>5, <2>6 DEF Kmain
<1>2. CASE SwitchTask
  BY <1>2, SwitchTaskIdleStep, SwitchTaskSaveStep, SwitchTaskNextStep, SwitchTaskWrapStep,
     PerformTaskSwitchStep DEF SwitchTask
<1>3. CASE IrqHandler
  BY <1>3, TimerHandlerStep, NoHandlerStep, PageFaultHandlerStep, IrqEoiStep, IrqIretStep
     DEF IrqHandler
<1>4. CASE ForkChild \/ ProcYield
  BY <1>4, ForkChildStep, ProcYieldStep
<1>5. CASE \E i \in Lines : Raise(i) \/ Interrupt(i)
  BY <1>5, RaiseStep, InterruptStep
<1>6. CASE UNCHANGED vars
  BY <1>6, StutterStep
<1> QED
  BY <1>1, <1>2, <1>3, <1>4, <1>5, <1>6 DEF Next, Execute

(* The inductive invariant holds in every reachable state.                  *)
THEOREM Invariance == Spec => []IInv
  BY InitInvariant, NextInvariant, PTL DEF Spec
-----------------------------------------------------------------------------
(* Every variable keeps its type; in particular timer_ticks wraps and the   *)
(* CPU stays on the stack of a task that exists.                            *)
THEOREM TypeCorrect == Spec => []TypeOK
<1>1. IInv => TypeOK
  BY DEF IInv
<1> QED
  BY <1>1, Invariance, PTL

(* No interrupt is taken inside switch_task or a created task, although     *)
(* both run with interrupts enabled.                                        *)
THEOREM SwitchIsNotReentered == Spec => []SwitchNotReentered
<1>1. IInv => SwitchNotReentered
  <2> SUFFICES ASSUME IInv, NEW d \in Pid, NEW k \in 1 .. Len(stack[d]),
                      stack[d][k].int_no # 0
               PROVE  stack[d][k].at \notin NeverInterrupted
    BY DEF SwitchNotReentered
  <2>1. CASE d = Main
    BY <2>1 DEF IInv, MainStack, Depth, NeverInterrupted
  <2>2. CASE d # Main
    <3>1. stack[d] \in {<<>>, <<CallFrame>>}
      BY <2>2 DEF IInv, TaskStacks
    <3>2. k = 1 /\ stack[d][k] = CallFrame
      BY <3>1
    <3> QED
      BY <3>2 DEF CallFrame
  <2> QED
    BY <2>1, <2>2
<1> QED
  BY <1>1, Invariance, PTL

(* current_task and current_directory name the task that really runs.       *)
THEOREM RunningTaskIsCurrent == Spec => []RunningIsCurrent
<1>1. IInv => RunningIsCurrent
  <2> SUFFICES ASSUME IInv, current_task # NULL, pc \notin {"st_wrap", "st_run"}
               PROVE  page_directory[current_task] = cr3 /\ current_directory = cr3
    BY DEF RunningIsCurrent
  <2>1. current_task = cr3 /\ current_directory = cr3 /\ next_pid # 1
    BY DEF IInv, Current
  <2>2. cr3 \in Pid /\ next_pid \in Nat /\ cr3 < next_pid
    BY <2>1 DEF IInv, TypeOK, Current, Count
  <2> QED
    BY <2>1, <2>2 DEF IInv, Directories
<1> QED
  BY <1>1, Invariance, PTL

(* A task that may be switched to has a context its own stack can return    *)
(* from.                                                                    *)
THEOREM SavedContextIsOwn == Spec => []SavedContextOwn
<1>1. IInv => SavedContextOwn
  <2> SUFFICES ASSUME IInv, iflag \/ pc \in SwitchPC, NEW t \in Linked,
                      page_directory[t] # cr3
               PROVE  Resumable(t)
    BY DEF SavedContextOwn
  <2>1. t \in 1 .. Count
    BY LinkedIsCount
  <2>2. next_pid \in 1 .. NProcs + 2 /\ t \in Pid /\ t < next_pid
    BY <2>1 DEF IInv, TypeOK, Count
  <2>3. t # cr3
    BY <2>2 DEF IInv, Directories
  <2>4. ~Fresh(t)
    BY DEF IInv, Modes, Fresh
  <2> QED
    BY <2>1, <2>2, <2>3, <2>4 DEF IInv, Saved
<1> QED
  BY <1>1, Invariance, PTL

(* User mode runs with the TSS naming the kernel stack of the running task. *)
THEOREM UserModeHasKernelStack == Spec => []UserModeKernelStack
<1>1. IInv => UserModeKernelStack
  <2> SUFFICES ASSUME IInv, pc \in {"user_call", "user"}
               PROVE  /\ current_task # NULL
                      /\ tss_esp0 = kernel_stack[current_task] /\ tss_esp0 # 0
    BY DEF UserModeKernelStack
  <2>1. cr3 = Main /\ Base = pc
    BY DEF IInv, Modes, MainStack, Base
  <2>2. next_pid = NProcs + 2 /\ tss_esp0 = kernel_stack[Main] /\ kernel_stack[Main] = next_pid - 1
    BY <2>1 DEF IInv, Progress
  <2>3. current_task = Main
    BY <2>1, <2>2 DEF IInv, Current
  <2> QED
    BY <2>2, <2>3
<1> QED
  BY <1>1, Invariance, PTL
-----------------------------------------------------------------------------
(* The tasks in the round, as RoundRobin counts them. *)
LEMMA LiveIsCount ==
  IInv => {Main} \cup Linked = 1 .. (IF next_pid = 1 THEN 1 ELSE Count)
<1> SUFFICES ASSUME IInv PROVE {Main} \cup Linked = 1 .. (IF next_pid = 1 THEN 1 ELSE Count)
  OBVIOUS
<1>1. next_pid \in 1 .. NProcs + 2
  BY DEF IInv, TypeOK
<1>2. (next_pid = 1 => Count = 0) /\ (next_pid # 1 => Count \in Nat /\ Count >= 1)
  BY <1>1 DEF IInv, Progress, Count
<1> QED
  BY <1>2, LinkedIsCount

(* The same of the state after a step.                                      *)
LEMMA LiveIsCountNext ==
  IInv' => ({Main} \cup Linked = 1 .. (IF next_pid = 1 THEN 1 ELSE Count))'
BY LiveIsCount, PTL

(* Every step of the code is a step of the round robin or leaves it alone.  *)
LEMMA StepImplementsRoundRobin ==
  ASSUME IInv, IInv', [Next]_vars
  PROVE  [RR!Next]_<<{Main} \cup Linked, cr3>>
<1> DEFINE live == {Main} \cup Linked
<1>1. CASE PerformTaskSwitch
  <2>1. next_pid # 1 /\ Count = next_pid - 1 /\ pc = "st_run"
    BY <1>1, SwitchPoint DEF PerformTaskSwitch
  <2>2. live = 1 .. Count
    BY <2>1, LiveIsCount
  <2>3. cr3 \in Pid /\ (cr3 = Main \/ cr3 <= Count) /\ next_pid \in 1 .. NProcs + 2
    BY DEF IInv, TypeOK, Current
  <2>4. cr3' = page_directory[current_task] /\ next' = next /\ ready_queue' = ready_queue
    BY <1>1 DEF PerformTaskSwitch
  <2>5. current_task = IF cr3 < Count THEN cr3 + 1 ELSE Main
    BY <2>1 DEF IInv, Current
  <2>6. page_directory[current_task] = current_task
    BY <2>1, <2>3, <2>5 DEF IInv, Directories
  <2>7. cr3 + 1 \in live <=> cr3 < Count
    BY <2>1, <2>2, <2>3
  <2>8. cr3' = RR!Successor(cr3)
    BY <2>4, <2>5, <2>6, <2>7 DEF RR!Successor, RR!First
  <2>9. live' = live
    BY <2>4 DEF Linked
  <2> QED
    BY <2>8, <2>9 DEF RR!Next, RR!Rotate
<1>2. CASE CreateProcLink \/ ForkLink
  <2>1. /\ pc \in {"cp_link", "fk_link"} /\ pc' \in {"cp_ret", "fk_ret"}
        /\ next_pid' = next_pid /\ cr3' = cr3
    BY <1>2 DEF CreateProcLink, ForkLink, LinkTask
  <2>2. next_pid \in Nat /\ next_pid >= 3 /\ cr3 = Main
    BY <2>1, ClosedPoint
  <2>3. live = 1 .. next_pid - 2
    BY <2>1, <2>2, LiveIsCount DEF Count
  <2>4. live' = 1 .. next_pid - 1
    <3>1. live' = 1 .. (IF next_pid' = 1 THEN 1 ELSE Count')
      BY LiveIsCountNext
    <3>2. Count' = next_pid - 1
      BY <2>1 DEF Count
    <3> QED
      BY <2>1, <2>2, <3>1, <3>2
  <2>5. next_pid - 2 \in live /\ (next_pid - 2) + 1 \notin live
    BY <2>2, <2>3
  <2>6. live' = live \cup {(next_pid - 2) + 1}
    BY <2>2, <2>3, <2>4
  <2> QED
    BY <2>1, <2>2, <2>5, <2>6 DEF RR!Next, RR!Spawn, RR!First
<1>3. CASE ~PerformTaskSwitch /\ ~CreateProcLink /\ ~ForkLink
  <2>1. cr3' = cr3
    BY <1>3 DEF Next, Execute, Kmain, ForkChild, ProcYield, SwitchTask, IrqHandler,
       InitialiseTaskingCli, Cli, InitialiseTasking, CreateProcCli, CreateProcNew, NewTask,
       CreateProcRet, LeaveSpawn, ForkCli, ForkNew, ForkRet, SwitchToUserMode, Syscall,
       SwitchTaskIdle, SwitchTaskSave, SwitchTaskNext, SwitchTaskWrap, TimerHandler,
       NoHandler, PageFaultHandler, IrqEoi, IrqIret, Raise, Interrupt
  <2>2. next \in [Pid -> {NULL} \cup Pid] /\ next_pid \in Nat
    BY DEF IInv, TypeOK
  <2>3. live' = live
    <3>1. CASE InitialiseTasking
      <4>1. next_pid = 1 /\ next' = next /\ ready_queue' = Main
        BY <3>1, ClosedPoint DEF InitialiseTasking
      <4>2. ready_queue = NULL
        BY <4>1 DEF IInv, Queue
      <4> QED
        BY <4>1, <4>2 DEF Linked
    <3>2. CASE CreateProcNew \/ ForkNew
      <4>1. /\ next_pid \in Pid /\ pc \in {"cp_new", "fk_new"}
            /\ next' = [next EXCEPT ![next_pid] = NULL] /\ ready_queue' = ready_queue
        BY <3>2, ClosedPoint DEF CreateProcNew, ForkNew, NewTask
      <4>2. ~(next_pid < Count)
        BY <2>2, <4>1 DEF Count
      <4>3. next[next_pid] = NULL
        BY <4>1, <4>2 DEF IInv, Queue
      <4>4. next' = next
        BY <2>2, <4>1, <4>3
      <4> QED
        BY <4>1, <4>4 DEF Linked
    <3>3. CASE ~InitialiseTasking /\ ~CreateProcNew /\ ~ForkNew
      <4>1. next' = next /\ ready_queue' = ready_queue
        BY <1>3, <3>3 DEF Next, Execute, Kmain, ForkChild, ProcYield, SwitchTask, IrqHandler,
           InitialiseTaskingCli, Cli, CreateProcCli, CreateProcRet, LeaveSpawn, ForkCli, ForkRet,
           SwitchToUserMode, Syscall, SwitchTaskIdle, SwitchTaskSave, SwitchTaskNext,
           SwitchTaskWrap, TimerHandler, NoHandler, PageFaultHandler, IrqEoi, IrqIret, Raise,
           Interrupt
      <4> QED
        BY <4>1 DEF Linked
    <3> QED
      BY <3>1, <3>2, <3>3
  <2> QED
    BY <2>1, <2>3
<1> QED
  BY <1>1, <1>2, <1>3

(* The scheduler of task.c, driven by the timer and by proc, is a round     *)
(* robin over the tasks in the order of their creation.                     *)
THEOREM Refinement == Spec => ImplementsRoundRobin
<1>1. Init => RR!Init
  BY DEF Init, RR!Init, RR!First, Linked
<1>2. IInv /\ IInv' /\ [Next]_vars => [RR!Next]_<<{Main} \cup Linked, cr3>>
  BY StepImplementsRoundRobin
<1> QED
  BY <1>1, <1>2, Invariance, PTL DEF Spec, ImplementsRoundRobin, RR!Spec, RR!vars
=============================================================================
