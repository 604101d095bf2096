------------------------------ MODULE Tasking ------------------------------
(***************************************************************************)
(* Multitasking in NembusOS: task.c, process.asm, the timer handler and the *)
(* IRQ path of isr.c and interrupt.asm, run by kernel.c's _kmain and proc.  *)
(*                                                                         *)
(* One CPU executes one flow of control at a time.  An IRQ is taken between *)
(* any two steps while the interrupt flag is set and the 8259 grants one.   *)
(* The stack a task runs on lives at the same virtual addresses in every    *)
(* page directory, so the stack in use is the one of the directory in cr3.  *)
(*                                                                         *)
(* Abstractions: a task_t pointer is the task's pid and NULL is 0; a page   *)
(* directory is named by the pid of the task it was made for; esp and ebp   *)
(* are one pointer; a kernel stack is named by the value next_pid had when  *)
(* it was allocated; a stack is the sequence of its return points.          *)
(***************************************************************************)
EXTENDS Integers, Sequences, Pic8259

CONSTANTS
  NProcs,       \* how many tasks _kmain creates (2 in kernel.c)
  Lines,        \* the IRQ lines whose devices may raise a request
  MaxFrames,    \* bound: no IRQ is taken on a stack this deep
  TickModulus   \* the range of timer_ticks (2^32 on the machine)

ASSUME NProcsAssumption == NProcs \in Nat
ASSUME LinesAssumption == 0 \in Lines /\ Lines \subseteq (0 .. 15) \ {Cascade}
ASSUME MaxFramesAssumption == MaxFrames \in Nat
ASSUME TickModulusAssumption == TickModulus \in Nat \ {0}

NULL == 0
Main == 1                       \* the task initialise_tasking makes of _kmain
Pid  == 1 .. NProcs + 1

VARIABLES
  (* the CPU *)
  pc,                \* the step about to be executed
  iflag,             \* EFLAGS.IF
  cr3,               \* the page directory loaded, hence the stack in use
  tss_esp0,          \* tss_entry.esp0: the stack of the next ring change
  (* the interrupt controllers *)
  irr, isr,
  (* memory *)
  stack,             \* per directory, the return points, innermost first
  timer_ticks,
  current_task, ready_queue, next_pid, current_directory,
  (* the fields of task_t *)
  eip, esp, page_directory, kernel_stack, next

cpu   == <<pc, iflag, cr3, tss_esp0>>
pic   == <<irr, isr>>
task  == <<eip, esp, page_directory, kernel_stack, next>>
sched == <<current_task, ready_queue, next_pid, current_directory>>
vars  == <<cpu, pic, stack, timer_ticks, sched, task>>

(* The code of _kmain up to and in user mode, with the functions it calls.  *)
KmainPC == {"boot", "it_body", "spawn", "cp_new", "fk_new", "cp_link",
            "fk_link", "cp_ret", "fk_ret", "user_call", "user"}
(* switch_task, from its entry to the jump at the end of                    *)
(* perform_task_switch.                                                     *)
SwitchPC == {"switch_task", "st_next", "st_wrap", "st_run"}
IrqPC == {"irq_handler", "irq_eoi", "irq_iret"}
(* "proc" is a created task at work; "wild" is a CPU that has followed a    *)
(* saved context which no longer describes any stack.                       *)
PC == KmainPC \cup SwitchPC \cup IrqPC \cup {"proc", "fork_child", "panic", "wild"}

(* A return point: where to go on, and for an interrupt frame its int_no    *)
(* (0 for the frame of a plain call).                                       *)
Frame == [at : PC, int_no : {0} \cup {IntNo(i) : i \in Lines}]

(* A saved stack pointer: the stack it points into and how deep. *)
NoEsp == [stack |-> 0, depth |-> 0]
Eip == {"none", "proc", "read_eip", "fork"}

Push(frame) == stack' = [stack EXCEPT ![cr3] = <<frame>> \o @]

(* The tasks the ready queue leads to. *)
Linked == ({ready_queue} \cup {next[t] : t \in Pid}) \ {NULL}
-----------------------------------------------------------------------------
(* _kmain before initialise_tasking: interrupts on, the timer installed,    *)
(* paging on, no task yet.                                                  *)
Init ==
  /\ pc = "boot" /\ iflag = TRUE /\ cr3 = Main /\ tss_esp0 = 0
  /\ irr = {} /\ isr = {}
  /\ stack = [d \in Pid |-> <<>>]
  /\ timer_ticks = 0
  /\ current_task = NULL /\ ready_queue = NULL /\ next_pid = 1
  /\ current_directory = Main
  /\ eip = [t \in Pid |-> "none"] /\ esp = [t \in Pid |-> NoEsp]
  /\ page_directory = [t \in Pid |-> 0]
  /\ kernel_stack = [t \in Pid |-> 0]
  /\ next = [t \in Pid |-> NULL]

(* The bug of a cli left out. *)
CliForgotten(from, to) ==
  /\ pc = from /\ pc' = to
  /\ UNCHANGED <<iflag, cr3, tss_esp0, pic, stack, timer_ticks, sched, task>>

(* cli, the first statement of initialise_tasking, create_proc and fork. *)
Cli(from, to) ==
  /\ pc = from /\ pc' = to
  /\ iflag' = FALSE
  /\ UNCHANGED <<cr3, tss_esp0, pic, stack, timer_ticks, sched, task>>

InitialiseTaskingCli == Cli("boot", "it_body")

InitialiseTasking ==
  /\ pc = "it_body" /\ pc' = "spawn"
  /\ current_task' = Main /\ ready_queue' = Main
  /\ next_pid' = next_pid + 1
  /\ page_directory' = [page_directory EXCEPT ![Main] = current_directory]
  /\ kernel_stack' = [kernel_stack EXCEPT ![Main] = next_pid]
  /\ iflag' = TRUE
  /\ UNCHANGED <<cr3, tss_esp0, pic, stack, timer_ticks, current_directory, eip, esp, next>>
-----------------------------------------------------------------------------
(* The bug of a _kmain that creates one task too many. *)
CreateProcCliOneMore == next_pid <= NProcs + 2 /\ Cli("spawn", "cp_new")

(* create_proc and fork differ in where the child starts: create_proc gives *)
(* it the routine, fork the point after its own read_eip.                   *)
CreateProcCli == next_pid <= NProcs + 1 /\ Cli("spawn", "cp_new")
ForkCli       == next_pid <= NProcs + 1 /\ Cli("spawn", "fk_new")

(* clone_directory and the new task_t.  The kernel stack allocated here is  *)
(* stored in current_task; the new task's field keeps the bits kmalloc      *)
(* returned, for which 0 stands.                                            *)
NewTask(from, to, routine) ==
  /\ pc = from /\ pc' = to
  /\ stack' = [stack EXCEPT ![next_pid] = stack[current_directory]]
  /\ next_pid' = next_pid + 1
  /\ eip' = [eip EXCEPT ![next_pid] = routine]
  /\ esp' = [esp EXCEPT ![next_pid] = NoEsp]
  /\ page_directory' = [page_directory EXCEPT ![next_pid] = next_pid]
  /\ kernel_stack' = [kernel_stack EXCEPT ![current_task] = next_pid]
  /\ next' = [next EXCEPT ![next_pid] = NULL]
  /\ UNCHANGED <<iflag, cr3, tss_esp0, pic, timer_ticks, current_task, ready_queue,
                 current_directory>>

CreateProcNew == NewTask("cp_new", "cp_link", "proc")
ForkNew       == NewTask("fk_new", "fk_link", "none")

(* The bug of linking the new task behind the first one, without the walk.  *)
LinkTaskAtHead(from, to) ==
  /\ pc = from /\ pc' = to
  /\ next' = [next EXCEPT ![ready_queue] = next_pid - 1]
  /\ UNCHANGED <<iflag, cr3, tss_esp0, pic, stack, timer_ticks, sched, eip, esp,
                 page_directory, kernel_stack>>

(* The walk to the end of the ready queue and the store that links the new  *)
(* task there.                                                              *)
LinkTask(from, to) ==
  /\ pc = from /\ pc' = to
  /\ \E tail \in Linked :
        next[tail] = NULL /\ next' = [next EXCEPT ![tail] = next_pid - 1]
  /\ UNCHANGED <<iflag, cr3, tss_esp0, pic, stack, timer_ticks, sched, eip, esp,
                 page_directory, kernel_stack>>

CreateProcLink == LinkTask("cp_link", "cp_ret")
ForkLink       == LinkTask("fk_link", "fk_ret")

(* The bug of a sti left out. *)
LeaveSpawnStiForgotten(from, entry) ==
  LET new == next_pid - 1
  IN  /\ pc = from /\ pc' = "spawn"
      /\ esp' = [esp EXCEPT ![new] =
                   [stack |-> page_directory[new], depth |-> Len(stack[cr3])]]
      /\ eip' = [eip EXCEPT ![new] = entry]
      /\ UNCHANGED <<iflag, cr3, tss_esp0, pic, stack, timer_ticks, sched,
                     page_directory, kernel_stack, next>>

(* The parent's way out: the new task gets the stack pointer the parent has *)
(* now, which in the child's directory points into the copy of the stack.   *)
LeaveSpawn(from, entry) ==
  LET new == next_pid - 1
  IN  /\ pc = from /\ pc' = "spawn"
      /\ esp' = [esp EXCEPT ![new] =
                   [stack |-> page_directory[new], depth |-> Len(stack[cr3])]]
      /\ eip' = [eip EXCEPT ![new] = entry]
      /\ iflag' = TRUE
      /\ UNCHANGED <<cr3, tss_esp0, pic, stack, timer_ticks, sched, page_directory,
                     kernel_stack, next>>

CreateProcRet == LeaveSpawn("cp_ret", "proc")
ForkRet       == LeaveSpawn("fk_ret", "fork")

(* The child of fork comes out of read_eip too, finds that it is not the    *)
(* parent and returns 0; it then does the work it was made for.             *)
ForkChild ==
  /\ pc = "fork_child" /\ current_task # Main
  /\ pc' = "proc"
  /\ UNCHANGED <<iflag, cr3, tss_esp0, pic, stack, timer_ticks, sched, task>>

(* The bug of entering user mode with whatever stack the TSS names. *)
SwitchToUserModeOldStack ==
  /\ pc = "spawn" /\ next_pid > NProcs + 1
  /\ pc' = "user_call"
  /\ UNCHANGED <<iflag, cr3, tss_esp0, pic, stack, timer_ticks, sched, task>>

SwitchToUserMode ==
  /\ pc = "spawn" /\ next_pid > NProcs + 1
  /\ tss_esp0' = kernel_stack[current_task]
  /\ pc' = "user_call"
  /\ UNCHANGED <<iflag, cr3, pic, stack, timer_ticks, sched, task>>

(* int 0x80 in user mode: interrupts stay off from the gate to the iret, so *)
(* the call is one step.  After it _kmain loops for ever.                   *)
Syscall ==
  /\ pc = "user_call" /\ pc' = "user"
  /\ UNCHANGED <<iflag, cr3, tss_esp0, pic, stack, timer_ticks, sched, task>>
-----------------------------------------------------------------------------
(* The bug of a task that never yields. *)
ProcYieldNever ==
  pc = "proc" /\ UNCHANGED vars

(* proc prints its pid and calls switch_task, over and over. *)
ProcYield ==
  /\ pc = "proc" /\ pc' = "switch_task"
  /\ Push([at |-> "proc", int_no |-> 0])
  /\ UNCHANGED <<iflag, cr3, tss_esp0, pic, timer_ticks, sched, task>>

(* switch_task returns: into the interrupt handler that called it, or to    *)
(* the plain call on top of the stack.                                      *)
ReturnFromSwitch(d) ==
  LET top == Head(stack[d])
  IN  IF top.int_no # 0
      THEN pc' = "irq_eoi" /\ UNCHANGED stack
      ELSE pc' = top.at /\ stack' = [stack EXCEPT ![d] = Tail(@)]

(* Without a current task there is nothing to switch. *)
SwitchTaskIdle ==
  /\ pc = "switch_task" /\ current_task = NULL
  /\ ReturnFromSwitch(cr3)
  /\ UNCHANGED <<iflag, cr3, tss_esp0, pic, timer_ticks, sched, task>>

SwitchTaskSave ==
  /\ pc = "switch_task" /\ current_task # NULL
  /\ eip' = [eip EXCEPT ![current_task] = "read_eip"]
  /\ esp' = [esp EXCEPT ![current_task] =
               [stack |-> cr3, depth |-> Len(stack[cr3])]]
  /\ pc' = "st_next"
  /\ UNCHANGED <<iflag, cr3, tss_esp0, pic, stack, timer_ticks, sched, page_directory,
                 kernel_stack, next>>

SwitchTaskNext ==
  /\ pc = "st_next" /\ pc' = "st_wrap"
  /\ current_task' = next[current_task]
  /\ UNCHANGED <<iflag, cr3, tss_esp0, pic, stack, timer_ticks, ready_queue, next_pid,
                 current_directory, task>>

SwitchTaskWrap ==
  /\ pc = "st_wrap" /\ pc' = "st_run"
  /\ current_task' = IF current_task = NULL THEN ready_queue ELSE current_task
  /\ UNCHANGED <<iflag, cr3, tss_esp0, pic, stack, timer_ticks, ready_queue, next_pid,
                 current_directory, task>>

(* The saved context of t still describes the stack of t. *)
Resumable(t) ==
  /\ eip[t] # "none"
  /\ esp[t] = [stack |-> page_directory[t], depth |-> Len(stack[page_directory[t]])]

(* The jump to the eip of t.  A context that fits no stack takes the CPU    *)
(* anywhere.                                                                *)
JumpTo(t) ==
  IF Resumable(t)
  THEN \/ eip[t] = "read_eip" /\ ReturnFromSwitch(page_directory[t])
       \/ eip[t] = "proc" /\ pc' = "proc" /\ UNCHANGED stack
       \/ eip[t] = "fork" /\ pc' = "fork_child" /\ UNCHANGED stack
  ELSE pc' = "wild" /\ UNCHANGED stack

(* The bug of a switch that leaves current_directory as it was. *)
PerformTaskSwitchSameDirectory ==
  LET t == current_task
  IN  /\ pc = "st_run"
      /\ tss_esp0' = kernel_stack[t]
      /\ cr3' = page_directory[t]
      /\ iflag' = TRUE
      /\ JumpTo(t)
      /\ UNCHANGED <<pic, timer_ticks, sched, task>>

(* The rest of switch_task and perform_task_switch: the new task's context, *)
(* directory and kernel stack are loaded and control jumps to its eip with  *)
(* interrupts enabled.                                                      *)
PerformTaskSwitch ==
  LET t == current_task
  IN  /\ pc = "st_run"
      /\ current_directory' = page_directory[t]
      /\ tss_esp0' = kernel_stack[t]
      /\ cr3' = page_directory[t]
      /\ iflag' = TRUE
      /\ JumpTo(t)
      /\ UNCHANGED <<pic, timer_ticks, current_task, ready_queue, next_pid, task>>
-----------------------------------------------------------------------------
(* A device raises its line; a second edge before the first is taken is     *)
(* lost in the request register.                                            *)
Raise(i) ==
  /\ i \notin irr
  /\ irr' = irr \cup {i}
  /\ UNCHANGED <<cpu, isr, stack, timer_ticks, sched, task>>

(* The CPU takes an interrupt through its gate: the flags and the return    *)
(* point are pushed and IF is cleared.                                      *)
Interrupt(i) ==
  /\ iflag /\ pc # "wild"
  /\ i \in Granted(irr, isr)
  /\ Len(stack[cr3]) < MaxFrames
  /\ irr' = irr \ {i} /\ isr' = InService(isr, i)
  /\ iflag' = FALSE
  /\ Push([at |-> pc, int_no |-> IntNo(i)])
  /\ pc' = "irq_handler"
  /\ UNCHANGED <<cr3, tss_esp0, timer_ticks, sched, task>>

(* The table irq_routines as timer_install and initialise_paging left it.   *)
irq_routines ==
  [i \in 0 .. 15 |-> IF i = 0 THEN "timer_handler"
                     ELSE IF i = 14 THEN "page_fault" ELSE "none"]

Handling(routine) ==
  pc = "irq_handler" /\ irq_routines[Head(stack[cr3]).int_no - 32] = routine

(* The bug of acknowledging the timer before the switch. *)
TimerHandlerEoiFirst ==
  /\ Handling("timer_handler")
  /\ timer_ticks' = (timer_ticks + 1) % TickModulus
  /\ isr' = Eoi(isr, Master)
  /\ pc' = "switch_task"
  /\ UNCHANGED <<iflag, cr3, tss_esp0, irr, stack, sched, task>>

TimerHandler ==
  /\ Handling("timer_handler")
  /\ timer_ticks' = (timer_ticks + 1) % TickModulus
  /\ pc' = "switch_task"
  /\ UNCHANGED <<iflag, cr3, tss_esp0, pic, stack, sched, task>>

NoHandler ==
  /\ Handling("none") /\ pc' = "irq_eoi"
  /\ UNCHANGED <<iflag, cr3, tss_esp0, pic, stack, timer_ticks, sched, task>>

(* page_fault is installed in slot 14, which is also the slot of IRQ 14: it *)
(* ends in PANIC.                                                           *)
PageFaultHandler ==
  /\ Handling("page_fault") /\ pc' = "panic"
  /\ UNCHANGED <<iflag, cr3, tss_esp0, pic, stack, timer_ticks, sched, task>>

(* The bug of an off-by-one at the first line of the slave. *)
IrqEoiAboveForty ==
  LET int_no == Head(stack[cr3]).int_no
  IN  /\ pc = "irq_eoi" /\ pc' = "irq_iret"
      /\ isr' = Eoi(IF int_no > 40 THEN Eoi(isr, Slave) ELSE isr, Master)
      /\ UNCHANGED <<iflag, cr3, tss_esp0, irr, stack, timer_ticks, sched, task>>

(* The end of irq_handler: the slave is told for int_no >= 40, the master   *)
(* always.                                                                  *)
IrqEoi ==
  LET int_no == Head(stack[cr3]).int_no
  IN  /\ pc = "irq_eoi" /\ pc' = "irq_iret"
      /\ isr' = Eoi(IF int_no >= 40 THEN Eoi(isr, Slave) ELSE isr, Master)
      /\ UNCHANGED <<iflag, cr3, tss_esp0, irr, stack, timer_ticks, sched, task>>

(* iret restores the interrupted point and its flags, in which IF was set.  *)
IrqIret ==
  /\ pc = "irq_iret"
  /\ pc' = Head(stack[cr3]).at
  /\ stack' = [stack EXCEPT ![cr3] = Tail(@)]
  /\ iflag' = TRUE
  /\ UNCHANGED <<cr3, tss_esp0, pic, timer_ticks, sched, task>>
-----------------------------------------------------------------------------
Kmain ==
  \/ InitialiseTaskingCli \/ InitialiseTasking
  \/ CreateProcCli \/ CreateProcNew \/ CreateProcLink \/ CreateProcRet
  \/ ForkCli \/ ForkNew \/ ForkLink \/ ForkRet
  \/ SwitchToUserMode \/ Syscall

SwitchTask ==
  \/ SwitchTaskIdle \/ SwitchTaskSave \/ SwitchTaskNext \/ SwitchTaskWrap
  \/ PerformTaskSwitch

IrqHandler ==
  TimerHandler \/ NoHandler \/ PageFaultHandler \/ IrqEoi \/ IrqIret

(* What the CPU does next when it takes no interrupt. *)
Execute == Kmain \/ ForkChild \/ ProcYield \/ SwitchTask \/ IrqHandler

Next ==
  \/ Execute
  \/ \E i \in Lines : Raise(i) \/ Interrupt(i)

Spec == Init /\ [][Next]_vars

(* The CPU keeps executing and the timer keeps ticking.  A granted request  *)
(* is taken at an instruction boundary with IF set: the CPU meets such      *)
(* boundaries again and again, not continuously, hence strong fairness.     *)
(* Interrupts come slower than their handlers run, so that the code they    *)
(* interrupt, _kmain or the iret of an outer handler, gets on.              *)
Fairness ==
  /\ WF_vars(Execute)
  /\ WF_vars(Raise(0))
  /\ \A i \in Lines : SF_vars(Interrupt(i))
  /\ SF_vars(Kmain)
  /\ SF_vars(IrqIret)

FairSpec == Spec /\ Fairness
-----------------------------------------------------------------------------
TypeOK ==
  /\ pc \in PC /\ iflag \in BOOLEAN /\ cr3 \in Pid
  /\ tss_esp0 \in 0 .. NProcs + 1
  /\ irr \subseteq Lines /\ isr \subseteq 0 .. 15
  /\ stack \in [Pid -> Seq(Frame)]
  /\ timer_ticks \in 0 .. TickModulus - 1
  /\ current_task \in {NULL} \cup Pid /\ ready_queue \in {NULL, Main}
  /\ next_pid \in 1 .. NProcs + 2
  /\ current_directory \in Pid
  /\ eip \in [Pid -> Eip]
  /\ esp \in [Pid -> [stack : {0} \cup Pid, depth : Nat]]
  /\ page_directory \in [Pid -> {0} \cup Pid]
  /\ kernel_stack \in [Pid -> 0 .. NProcs + 1]
  /\ next \in [Pid -> {NULL} \cup Pid]

(* An IRQ never lands in switch_task or in a task that is printing: neither *)
(* has a lock, and proc calls both with interrupts enabled.  What protects  *)
(* them is the EOI that irq_handler sends only when the first task runs     *)
(* again, so the 8259 grants nothing while a created task runs.             *)
NeverInterrupted == SwitchPC \cup {"proc", "fork_child"}

SwitchNotReentered ==
  \A d \in Pid : \A k \in 1 .. Len(stack[d]) :
     stack[d][k].int_no # 0 => stack[d][k].at \notin NeverInterrupted

(* Outside the switch the scheduler's idea of who runs (current_task and    *)
(* current_directory, on which getpid and create_proc rely) is the          *)
(* hardware's, cr3.                                                         *)
RunningIsCurrent ==
  (current_task # NULL /\ pc \notin {"st_wrap", "st_run"}) =>
     page_directory[current_task] = cr3 /\ current_directory = cr3

(* Whenever a switch is under way or the timer could start one, every task  *)
(* of the ready queue that is not running has a context its own stack can   *)
(* return from: create_proc and fork link a task before they give it one,   *)
(* and switch_task reads fields that a second switch would overwrite.       *)
SavedContextOwn ==
  (iflag \/ pc \in SwitchPC) =>
     \A t \in Linked : page_directory[t] # cr3 => Resumable(t)

(* In user mode the TSS names the kernel stack of the task that runs, the   *)
(* one its next interrupt will be pushed on.                                *)
UserModeKernelStack ==
  pc \in {"user_call", "user"} =>
     current_task # NULL /\ tss_esp0 = kernel_stack[current_task] /\ tss_esp0 # 0

(* The scheduler is a round robin over the tasks in creation order.         *)
RR == INSTANCE RoundRobin WITH live <- {Main} \cup Linked, running <- cr3

ImplementsRoundRobin == RR!Spec
ImplementsFairRoundRobin == RR!FairSpec

(* Every task has a kernel stack of its own: task.h says of the field that  *)
(* it is the task's "Kernel stack location", and switch_task loads the TSS  *)
(* from it whenever the task gets the CPU.                                  *)
EveryTaskHasKernelStack ==
  iflag => \A t \in Linked : kernel_stack[t] # 0

(* Every task that has joined the ready queue runs again and again. *)
EveryTaskRuns == \A t \in Pid : t \in Linked ~> cr3 = page_directory[t]

(* Every IRQ the CPU has taken is acknowledged to both controllers.         *)
InterruptsAcknowledged ==
  \A i \in Lines \cup {Cascade} : i \in isr ~> i \notin isr
=============================================================================
