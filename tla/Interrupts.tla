------------------------------ MODULE Interrupts ------------------------------
(***************************************************************************)
(* How an exception, an interrupt or a system call gets to its handler and  *)
(* back: the descriptors of gdt.c, the gates that isr.c sets, the stubs of  *)
(* interrupt.asm that build the struct regs, fault_handler and irq_handler. *)
(* What the handlers do with tasks, and the EOI, are in Tasking.            *)
(*                                                                         *)
(* A byte has Half * Half values instead of 256, and words, limits and      *)
(* pages are cut out of bytes as they are in the hardware.                  *)
(***************************************************************************)
EXTENDS Integers, Sequences, SequencesExt

CONSTANTS
  Half,          \* values of half a byte: 16
  TssBase,       \* where tss_entry lies
  TssSize,       \* sizeof(tss_entry)
  Vectors,       \* the vectors that are used, of 0 .. 47 and 128
  SystemCalls,   \* what programs load into eax before int 0x80
  MaxDepth       \* how deep handlers nest: a bound of the model

Byte == Half * Half
Short == Byte * Byte
Word == Short * Short

(* Every stub has an address of its own in a word.                          *)
ASSUME HalfAssumption == Half \in Nat /\ Half >= 4
ASSUME NumbersAssumption == TssBase \in Nat /\ TssSize \in Nat /\ SystemCalls \subseteq Nat
ASSUME DepthAssumption == MaxDepth \in Nat
(* Programs make system calls.                                             *)
ASSUME VectorsAssumption == Vectors \subseteq 0 .. 47 \cup {128} /\ 128 \in Vectors
(* The limit that write_tss computes has room for the TSS in its 20 bits.   *)
ASSUME TssAssumption == TssBase < Word /\ (TssBase + TssSize) % (Short * Half) >= TssSize

VARIABLES
  gdt,       \* the six entries that gp names, of which gdt[3] has three
  idt,       \* the gates
  boot,      \* how far _kmain has got
  cpu,       \* the registers
  stack,     \* the kernel stack, as words
  active,    \* the handlers that run, the last one on top
  halted     \* "no", or why nothing goes on

vars == <<gdt, idt, boot, cpu, stack, active, halted>>

KernelCode == 8
KernelData == 16
UserCode == 27
UserData == 35
SyscallVector == 128
Exceptions == Vectors \cap 0 .. 31
Irqs == Vectors \cap 32 .. 47

(* Vectors for which the processor pushes an error code. *)
ErrorCodeVectors == {8, 10, 11, 12, 13, 14, 17}
-----------------------------------------------------------------------------
(* Descriptors *)

(* The bug of a limit that is not cut to its 20 bits.                       *)
GdtSetGateUncut(base, limit, access, gran) ==
  [limit_low |-> limit % Short, base_low |-> base % Short,
   base_middle |-> (base \div Short) % Byte, base_high |-> (base \div (Short * Byte)) % Byte,
   limit_high |-> limit \div Short, access |-> access, gran |-> gran]

gdt_set_gate(base, limit, access, gran) ==
  [limit_low |-> limit % Short, base_low |-> base % Short,
   base_middle |-> (base \div Short) % Byte, base_high |-> (base \div (Short * Byte)) % Byte,
   limit_high |-> (limit \div Short) % Half, access |-> access, gran |-> gran]

(* What the processor reads out of an entry; "pages" counts in 4 KB.        *)
Base(d) == d.base_low + Short * (d.base_middle + Byte * d.base_high)
Limit(d) ==
  LET limit == d.limit_low + Short * d.limit_high
  IN  IF d.gran = "pages" THEN limit * (Byte * Half) + Byte * Half - 1 ELSE limit

idt_set_gate(base, sel) ==
  [base_lo |-> base % Short, base_hi |-> (base \div Short) % Short, sel |-> sel]
Target(gate) == gate.base_lo + Short * gate.base_hi
NoGate == [base_lo |-> 0, base_hi |-> 0, sel |-> 0]

(* Where the stub of vector v lies.                                         *)
Stub(v) == Short * (v + 1) + v
-----------------------------------------------------------------------------
(* The words of struct regs, from the top of the stack on.                  *)
Fields == <<"gs", "fs", "es", "ds", "edi", "esi", "ebp", "esp", "ebx", "edx", "ecx", "eax",
            "int_no", "err_code", "eip", "cs", "eflags", "useresp", "ss">>
Segments == <<"ds", "es", "fs", "gs">>
Pusha == <<"eax", "ecx", "edx", "ebx", "esp", "ebp", "esi", "edi">>
Registers == Range(Segments) \cup Range(Pusha) \cup {"eip", "cs", "eflags", "ss"}

Position(field) == CHOOSE i \in 1 .. Len(Fields) : Fields[i] = field
Slot(field) == Len(stack) + 1 - Position(field)

(* The field of r that a handler reads.                                     *)
r(field) == stack[Slot(field)]

Values(names) == [i \in 1 .. Len(names) |-> cpu[names[i]]]
UserMode == cpu["cs"] = UserCode
Interruptible == cpu["eflags"] >= 512

(* The program in user mode: every register has a value of its own.         *)
UserProgram(eax) ==
  [g \in Registers |->
     CASE g = "cs" -> UserCode [] g \in {"ss", "ds", "es", "fs", "gs"} -> UserData
       [] g = "eip" -> 1001 [] g = "eflags" -> 514 [] g = "esp" -> 1002 [] g = "eax" -> eax
       [] OTHER -> 1010 + Position(g)]

Init ==
  /\ gdt = [i \in 0 .. 5 |-> gdt_set_gate(0, 0, "null", "bytes")]
  /\ idt = [v \in Vectors |-> NoGate]
  /\ boot = "gdt_install"
  /\ cpu \in {UserProgram(eax) : eax \in SystemCalls}
  /\ stack = <<>> /\ active = <<>> /\ halted = "no"

gdt_install ==
  /\ boot = "gdt_install" /\ boot' = "idt_install"
  /\ gdt' = [i \in 0 .. 5 |->
       CASE i = 0 -> gdt_set_gate(0, 0, "null", "bytes")
         [] i = 1 -> gdt_set_gate(0, Word - 1, "code0", "pages")
         [] i = 2 -> gdt_set_gate(0, Word - 1, "data0", "pages")
         [] i = 3 -> gdt_set_gate(0, Word - 1, "code3", "pages")
         [] i = 4 -> gdt_set_gate(0, Word - 1, "data3", "pages")
         [] i = 5 -> gdt_set_gate(TssBase, TssBase + TssSize, "tss", "bytes")]
  /\ UNCHANGED <<idt, cpu, stack, active, halted>>

idt_install ==
  /\ boot = "idt_install" /\ boot' = "isrs_install"
  /\ idt' = [v \in Vectors |-> NoGate]
  /\ UNCHANGED <<gdt, cpu, stack, active, halted>>

isrs_install ==
  /\ boot = "isrs_install" /\ boot' = "irq_install"
  /\ idt' = [v \in Vectors |-> IF v < 32 THEN idt_set_gate(Stub(v), KernelCode) ELSE idt[v]]
  /\ UNCHANGED <<gdt, cpu, stack, active, halted>>

irq_install ==
  /\ boot = "irq_install" /\ boot' = "done"
  /\ idt' = [v \in Vectors |-> IF v < 32 THEN idt[v] ELSE idt_set_gate(Stub(v), KernelCode)]
  /\ UNCHANGED <<gdt, cpu, stack, active, halted>>

(* The bug of a toggle that takes all but false for true.                   *)
ToggleShiftNonZero ==
  /\ boot = "done" /\ halted = "no"
  /\ LET is(n) == gdt[3].limit_low = n /\ gdt[3].base_low = 0
     IN  gdt' = [gdt EXCEPT ![3].limit_low = IF is(0) THEN 1 ELSE 0]
  /\ UNCHANGED <<idt, boot, cpu, stack, active, halted>>

(* input() turns Shift over, and the documented build has shift in the      *)
(* first half of the memory that gdt_install takes for entry 3; capslock in *)
(* the second half is neither false nor true for any descriptor.            *)
ToggleShift ==
  /\ boot = "done" /\ halted = "no"
  /\ LET is(n) == gdt[3].limit_low = n /\ gdt[3].base_low = 0
     IN  gdt' = IF is(0) \/ is(1) THEN [gdt EXCEPT ![3].limit_low = 1 - @] ELSE gdt
  /\ UNCHANGED <<idt, boot, cpu, stack, active, halted>>
-----------------------------------------------------------------------------
(* What the processor pushes; only from user mode it changes the stack.     *)
Interrupted == (IF UserMode THEN Values(<<"ss", "esp">>) ELSE <<>>) \o Values(<<"eflags", "cs", "eip">>)

(* The bug of stubs that push no 0.                                         *)
StubPushesVector(v) == <<v>>

(* ISR_NOERRCODE and IRQ: all stubs push a 0 for an error code.             *)
StubPushes(v) == <<0, v>>

(* Vector v with the error code of the processor, up to the call of the     *)
(* handler with the address of the frame.                                   *)
Enter(v, code) ==
  LET stub   == CHOOSE w \in Vectors : Stub(w) = Target(idt[v])
      pushed == (stack \o Interrupted) \o (IF v \in ErrorCodeVectors THEN <<code>> ELSE <<>>)
                  \o StubPushes(stub)
      esp    == Len(pushed)
      pusha  == [i \in 1 .. 8 |-> IF Pusha[i] = "esp" THEN esp ELSE cpu[Pusha[i]]]
  IN  /\ boot = "done" /\ halted = "no" /\ Len(active) < MaxDepth
      /\ stack' = pushed \o pusha \o Values(Segments)
      /\ active' = Append(active, [vector |-> v, code |-> code, cpu |-> cpu, called |-> FALSE])
      /\ cpu' = [g \in Registers |->
                   IF g \in Range(Segments) \cup {"ss"} THEN KernelData
                   ELSE IF g = "cs" THEN idt[v].sel
                   ELSE IF g = "eflags" THEN 2
                   ELSE IF g = "esp" THEN Len(stack')
                   ELSE IF g = "eip" THEN 2000 + v
                   ELSE cpu[g]]
      /\ UNCHANGED <<gdt, idt, boot, halted>>

Exception(v) == \E code \in {1, 2} : Enter(v, code)
Interrupt(v) == Interruptible /\ Enter(v, 0)
Syscall == UserMode /\ Enter(SyscallVector, 0)
-----------------------------------------------------------------------------
(* The handlers *)

Handling(vectors) ==
  /\ halted = "no" /\ active # <<>> /\ ~Last(active).called
  /\ Last(active).vector \in vectors

Handled == active' = [active EXCEPT ![Len(active)].called = TRUE]

(* irq_routines: slot 0 has the timer handler, slot 14 page_fault.          *)
TimerHandler == 0
PageFault == 14

Halt(why) == halted' = why /\ UNCHANGED <<gdt, idt, boot, cpu, stack, active>>

(* The dispatch by r->eax.  The call destroys edx, where the documented     *)
(* build keeps r, so the result gets into the frame or somewhere else.      *)
SyscallHandler ==
  /\ Handling({SyscallVector})
  /\ \E ret \in IF r("eax") >= 2 THEN {r("eax")} ELSE {r("eax"), 3000} :
       stack' = [stack EXCEPT ![Slot("eax")] = ret]
  /\ Handled
  /\ UNCHANGED <<gdt, idt, boot, cpu, halted>>

(* irq_routines has 16 slots, for exceptions too; what lies behind it is no *)
(* handler.                                                                 *)
FaultHandler ==
  /\ Handling(Exceptions)
  /\ CASE r("int_no") = TimerHandler -> Handled /\ UNCHANGED <<gdt, idt, boot, cpu, stack, halted>>
       [] r("int_no") = PageFault -> Halt("page fault")
       [] r("int_no") \in 1 .. 15 \ {PageFault} -> Halt("panic")
       [] r("int_no") >= 16 -> \E why \in {"panic", "wild jump"} : Halt(why)

IrqHandler ==
  /\ Handling(Irqs)
  /\ IF r("int_no") - 32 = PageFault THEN Halt("page fault")
     ELSE Handled /\ UNCHANGED <<gdt, idt, boot, cpu, stack, halted>>

(* The bug of add esp, 4.                                                   *)
DroppedOne == 1

(* How many words behind the frame the stubs drop.                          *)
Dropped == 2

(* The end of the stubs, and iret.                                          *)
Leave ==
  LET base == Len(stack) - 12 - Dropped          \* the words that iret finds
      user == stack[base - 1] = UserCode
      left == base - (IF user THEN 5 ELSE 3)
  IN  /\ halted = "no" /\ active # <<>> /\ Last(active).called
      /\ cpu' = [g \in Registers |->
           IF g = "eip" THEN stack[base] ELSE IF g = "cs" THEN stack[base - 1]
           ELSE IF g = "eflags" THEN stack[base - 2]
           ELSE IF g = "esp" THEN IF user THEN stack[base - 3] ELSE left
           ELSE IF g = "ss" THEN IF user THEN stack[base - 4] ELSE cpu["ss"]
           ELSE r(g)]
      /\ stack' = SubSeq(stack, 1, left)
      /\ active' = Front(active)
      /\ UNCHANGED <<gdt, idt, boot, halted>>

(* The program loads another number for its next system call.               *)
Compute ==
  /\ boot = "done" /\ UserMode /\ halted = "no"
  /\ \E eax \in SystemCalls : cpu' = [cpu EXCEPT !["eax"] = eax]
  /\ UNCHANGED <<gdt, idt, boot, stack, active, halted>>

Next ==
  \/ gdt_install \/ idt_install \/ isrs_install \/ irq_install
  \/ ToggleShift \/ Compute
  \/ \E v \in Exceptions : Exception(v)
  \/ \E v \in Irqs : Interrupt(v)
  \/ Syscall \/ SyscallHandler \/ FaultHandler \/ IrqHandler \/ Leave

Spec == Init /\ [][Next]_vars
-----------------------------------------------------------------------------
TypeOK ==
  /\ gdt \in [0 .. 5 -> [limit_low : 0 .. Short - 1, base_low : 0 .. Short - 1,
                         base_middle : 0 .. Byte - 1, base_high : 0 .. Byte - 1,
                         limit_high : 0 .. Half - 1,
                         access : {"null", "code0", "data0", "code3", "data3", "tss"},
                         gran : {"bytes", "pages"}]]
  /\ cpu \in [Registers -> Nat] /\ stack \in Seq(Nat)
  /\ Len(active) <= MaxDepth
  /\ halted \in {"no", "panic", "page fault", "wild jump"}

(* The segments that the stubs and switch_to_user_mode load cover all of    *)
(* memory in the ring they are for, and the task register finds the whole   *)
(* TSS: the fields of an entry put together give what was asked for, and no *)
(* key changes the entry that lies on the variables of the keyboard.        *)
SegmentsAreFlat ==
  boot # "gdt_install" =>
    /\ \A i \in 1 .. 4 : Base(gdt[i]) = 0 /\ Limit(gdt[i]) = Word - 1
    /\ gdt[KernelCode \div 8].access = "code0" /\ gdt[KernelData \div 8].access = "data0"
    /\ gdt[UserCode \div 8].access = "code3" /\ gdt[UserData \div 8].access = "data3"
    /\ Base(gdt[5]) = TssBase /\ Limit(gdt[5]) >= TssSize - 1

(* A handler reads the vector that came in its frame, and unless there is   *)
(* an error code, the registers of the program that was interrupted.        *)
FrameTellsTheTruth ==
  \A v \in Vectors : Handling({v}) =>
    /\ r("int_no") = v
    /\ v \notin ErrorCodeVectors =>
         LET was == Last(active).cpu
         IN  /\ \A f \in Registers \ {"esp", "ss"} : r(f) = was[f]
             /\ was["cs"] = UserCode => r("useresp") = was["esp"] /\ r("ss") = was["ss"]

(* Whoever is interrupted goes on where it was with the registers it had;   *)
(* a system call may change eax if its number is known, and nothing else.   *)
ResumesInterrupted ==
  [][Leave =>
       \A g \in Registers :
         \/ cpu'[g] = Last(active).cpu[g]
         \/ g = "eax" /\ Last(active).vector = SyscallVector /\ Last(active).cpu["eax"] < 2]_vars

(* page_fault tells from the error code in its frame whether the page is    *)
(* present, whether it was a write, and whether in user mode.               *)
PageFaultSeesErrorCode == Handling({PageFault}) => r("err_code") = Last(active).code
=============================================================================
