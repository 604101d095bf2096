-------------------------- MODULE InterruptsProofs ---------------------------
(***************************************************************************)
(* Proofs about Interrupts for any width of a byte, any set of vectors and  *)
(* any depth of nesting.                                                    *)
(***************************************************************************)
EXTENDS Interrupts, SequenceTheorems, TLAPS

(* Numbers *)

LEMMA Divided ==
  ASSUME NEW n \in Nat, NEW d \in Nat \ {0}
  PROVE  /\ n \div d \in Nat /\ n % d \in 0 .. d - 1
         /\ n = d * (n \div d) + (n % d)
<1>1. n \in Int /\ d \in Int /\ d > 0 /\ n >= 0
  OBVIOUS
<1>2. n \div d \in Int /\ n % d \in 0 .. d - 1
  BY <1>1
<1>3. n = d * (n \div d) + (n % d)
  BY <1>1, <1>2
<1>4. n \div d >= 0
  <2> SUFFICES ASSUME n \div d < 0 PROVE FALSE
    BY <1>2
  <2> DEFINE q == n \div d
  <2>1. PICK k \in Nat : q = -1 - k
    <3>1. -1 - q \in Nat /\ q = -1 - (-1 - q)
      BY <1>2
    <3> QED
      BY <3>1
  <2> HIDE DEF q
  <2>2. d * q = -d - d * k /\ d * k \in Nat
    BY <2>1
  <2> QED
    BY <2>2, <1>1, <1>2, <1>3 DEF q
<1> QED
  BY <1>2, <1>3, <1>4

LEMMA Quotient ==
  ASSUME NEW d \in Nat \ {0}, NEW q \in Nat, NEW w \in 0 .. d - 1
  PROVE  (d * q + w) % d = w /\ (d * q + w) \div d = q
<1> DEFINE n == d * q + w
<1> DEFINE p == n \div d
<1> DEFINE v == n % d
<1>1. d * q \in Nat /\ n \in Nat
  OBVIOUS
<1>2. p \in Nat /\ v \in 0 .. d - 1 /\ n = d * p + v
  BY <1>1, Divided
<1>3. d * p \in Nat /\ d * p + v = d * q + w
  BY <1>2
<1> HIDE DEF p, v, n
<1>4. ~ p < q
  <2> SUFFICES ASSUME p < q PROVE FALSE
    OBVIOUS
  <2>1. PICK k \in Nat : q = p + 1 + k
    <3>1. q - p - 1 \in Nat /\ q = p + 1 + (q - p - 1)
      BY <1>2
    <3> QED
      BY <3>1
  <2>2. d * q = d * p + d + d * k /\ d * k \in Nat
    BY <2>1, <1>2
  <2> QED
    BY <2>2, <1>2, <1>3
<1>5. ~ q < p
  <2> SUFFICES ASSUME q < p PROVE FALSE
    OBVIOUS
  <2>1. PICK k \in Nat : p = q + 1 + k
    <3>1. p - q - 1 \in Nat /\ p = q + 1 + (p - q - 1)
      BY <1>2
    <3> QED
      BY <3>1
  <2>2. d * p = d * q + d + d * k /\ d * k \in Nat /\ d * q \in Nat
    BY <2>1, <1>2
  <2> QED
    BY <2>2, <1>2, <1>3
<1>6. p = q
  BY <1>4, <1>5, <1>2
<1>7. v = w
  BY <1>6, <1>3, <1>2
<1> QED
  BY <1>6, <1>7 DEF p, v, n

(* The low digit and the next one of a number are the number cut to both.   *)
LEMMA TwoDigits ==
  ASSUME NEW n \in Nat, NEW c \in Nat \ {0}, NEW d \in Nat \ {0}
  PROVE  /\ n % (c * d) = (n % c) + c * ((n \div c) % d)
         /\ n \div (c * d) = (n \div c) \div d
<1> DEFINE q == n \div c
<1> DEFINE low == n % c
<1> DEFINE next == q % d
<1> DEFINE high == q \div d
<1>1. q \in Nat /\ low \in 0 .. c - 1 /\ n = c * q + low
  BY Divided
<1>2. next \in 0 .. d - 1 /\ high \in Nat /\ q = d * high + next
  BY <1>1, Divided
<1> HIDE DEF q, low, next, high
<1>3. c * d \in Nat \ {0}
  OBVIOUS
<1>4. c * (d * high + next) = (c * d) * high + c * next
  BY <1>2
<1>5. PICK k \in Nat : d = next + 1 + k
  <2>1. d - 1 - next \in Nat /\ d = next + 1 + (d - 1 - next)
    BY <1>2
  <2> QED
    BY <2>1
<1>6. c * d = c * next + c + c * k /\ c * k \in Nat /\ c * next \in Nat
  BY <1>5, <1>2
<1>7. c * next + low \in 0 .. c * d - 1
  BY <1>6, <1>1
<1>8. n = (c * d) * high + (c * next + low)
  BY <1>1, <1>2, <1>4, <1>6
<1>9. n % (c * d) = c * next + low /\ n \div (c * d) = high
  BY <1>3, <1>2, <1>7, <1>8, Quotient
<1> QED
  BY <1>9, <1>6, <1>1 DEF q, low, next, high

LEMMA Digit ==
  ASSUME NEW c \in Nat \ {0}, NEW d \in Nat \ {0}, NEW n \in 0 .. c * d - 1
  PROVE  n \div c \in 0 .. d - 1 /\ (n \div c) % d = n \div c
<1>1. n \div c \in Nat /\ n = c * (n \div c) + (n % c) /\ n % c \in 0 .. c - 1
  BY Divided
<1> DEFINE q == n \div c
<1> HIDE DEF q
<1>2. q < d
  <2> SUFFICES ASSUME ~ q < d PROVE FALSE
    OBVIOUS
  <2>1. PICK k \in Nat : q = d + k
    <3>1. q - d \in Nat /\ q = d + (q - d)
      BY <1>1 DEF q
    <3> QED
      BY <3>1
  <2>2. c * q = c * d + c * k /\ c * k \in Nat /\ c * d \in Nat
    BY <2>1
  <2> QED
    BY <2>2, <1>1 DEF q
<1>3. q \in 0 .. d - 1
  BY <1>1, <1>2 DEF q
<1>4. d * 0 + q = q
  BY <1>3
<1>5. q % d = q
  BY <1>3, <1>4, Quotient
<1> QED
  BY <1>3, <1>5 DEF q

LEMMA Sizes ==
  /\ Byte \in Nat /\ Byte >= 16 /\ Short \in Nat /\ Short >= 256 /\ Word \in Nat
  /\ Half \in Nat /\ Half >= 4
  /\ Short * Half \in Nat /\ Short * Byte \in Nat /\ Byte * Half \in Nat
  /\ (Short * Half) * (Byte * Half) = Word
  /\ (Short * Byte) * Byte = Word
<1>1. Half \in Nat /\ Half >= 4
  BY HalfAssumption
<1>2. Byte \in Nat /\ Byte >= 16
  <2>1. Half * Half >= 4 * Half
    BY <1>1
  <2> QED
    BY <1>1, <2>1 DEF Byte
<1>3. Short \in Nat /\ Short >= 256
  <2>1. Byte * Byte >= 16 * Byte
    BY <1>2
  <2> QED
    BY <1>2, <2>1 DEF Short
<1>4. Word \in Nat
  BY <1>3 DEF Word
<1>5. Short * Half \in Nat /\ Short * Byte \in Nat /\ Byte * Half \in Nat
  BY <1>1, <1>2, <1>3
<1>6. (Short * Half) * (Byte * Half) = Short * (Byte * (Half * Half))
  BY <1>1, <1>2, <1>3
<1>7. (Short * Byte) * Byte = Short * (Byte * Byte)
  BY <1>2, <1>3
<1> QED
  BY <1>1, <1>2, <1>3, <1>4, <1>5, <1>6, <1>7 DEF Byte, Short, Word
-----------------------------------------------------------------------------
(* Descriptors and gates *)

Cleared == [i \in 0 .. 5 |-> gdt_set_gate(0, 0, "null", "bytes")]
Installed ==
  [i \in 0 .. 5 |->
     CASE i = 0 -> gdt_set_gate(0, 0, "null", "bytes")
       [] i = 1 -> gdt_set_gate(0, Word - 1, "code0", "pages")
       [] i = 2 -> gdt_set_gate(0, Word - 1, "data0", "pages")
       [] i = 3 -> gdt_set_gate(0, Word - 1, "code3", "pages")
       [] i = 4 -> gdt_set_gate(0, Word - 1, "data3", "pages")
       [] i = 5 -> gdt_set_gate(TssBase, TssBase + TssSize, "tss", "bytes")]

(* No key changes the entries, and the gates that are set lead to the stubs.*)
TablesInv ==
  /\ boot \in {"gdt_install", "idt_install", "isrs_install", "irq_install", "done"}
  /\ gdt = IF boot = "gdt_install" THEN Cleared ELSE Installed
  /\ DOMAIN idt = Vectors
  /\ \A v \in Vectors :
       boot = "done" \/ (boot = "irq_install" /\ v < 32) =>
         idt[v] = idt_set_gate(Stub(v), KernelCode)

Descriptors ==
  [limit_low : 0 .. Short - 1, base_low : 0 .. Short - 1,
   base_middle : 0 .. Byte - 1, base_high : 0 .. Byte - 1, limit_high : 0 .. Half - 1,
   access : {"null", "code0", "data0", "code3", "data3", "tss"}, gran : {"bytes", "pages"}]

LEMMA GateType ==
  ASSUME NEW base \in Nat, NEW limit \in Nat,
         NEW access \in {"null", "code0", "data0", "code3", "data3", "tss"},
         NEW gran \in {"bytes", "pages"}
  PROVE  gdt_set_gate(base, limit, access, gran) \in Descriptors
<1>1. base % Short \in 0 .. Short - 1 /\ limit % Short \in 0 .. Short - 1
  BY Sizes, Divided
<1>2. base \div Short \in Nat /\ limit \div Short \in Nat /\ base \div (Short * Byte) \in Nat
  <2>1. Short * Byte \in Nat \ {0}
    BY Sizes
  <2> QED
    BY <2>1, Sizes, Divided
<1>3. /\ (base \div Short) % Byte \in 0 .. Byte - 1
      /\ (base \div (Short * Byte)) % Byte \in 0 .. Byte - 1
      /\ (limit \div Short) % Half \in 0 .. Half - 1
  BY <1>2, Sizes, Divided
<1> QED
  BY <1>1, <1>3 DEF gdt_set_gate, Descriptors

(* The base that comes out is the one that went in, and the limit is cut.   *)
LEMMA GateBase ==
  ASSUME NEW base \in 0 .. Word - 1, NEW limit \in Nat, NEW access, NEW gran
  PROVE  Base(gdt_set_gate(base, limit, access, gran)) = base
<1> DEFINE q == base \div Short
<1>1. Short * Byte \in Nat \ {0} /\ base \in Nat /\ Short \in Nat \ {0} /\ Byte \in Nat \ {0}
  BY Sizes
<1>2. base = Short * q + (base % Short) /\ q \in Nat
  BY <1>1, Sizes, Divided
<1>3. base \div (Short * Byte) = q \div Byte
  BY <1>1, TwoDigits
<1>4. base \div (Short * Byte) \in 0 .. Byte - 1
      /\ (base \div (Short * Byte)) % Byte = base \div (Short * Byte)
  <2>1. base \in 0 .. (Short * Byte) * Byte - 1
    BY Sizes
  <2> QED
    BY <2>1, <1>1, Digit
<1>5. q = Byte * (q \div Byte) + (q % Byte)
  BY <1>2, Sizes, Divided
<1>6. q % Byte \in 0 .. Byte - 1 /\ base % Short \in 0 .. Short - 1
  BY <1>2, <1>1, Sizes, Divided
<1>7. Base(gdt_set_gate(base, limit, access, gran))
        = (base % Short) + Short * ((q % Byte) + Byte * (q \div Byte))
  BY <1>3, <1>4 DEF Base, gdt_set_gate
<1>8. (q % Byte) + Byte * (q \div Byte) = q
  BY <1>5, <1>6, <1>2, <1>3, <1>4, Sizes
<1>9. Short * q \in Nat
  BY <1>2, Sizes
<1> QED
  BY <1>2, <1>6, <1>7, <1>8, <1>9

LEMMA GateLimit ==
  ASSUME NEW base \in Nat, NEW limit \in Nat, NEW access
  PROVE  /\ Limit(gdt_set_gate(base, limit, access, "bytes")) = limit % (Short * Half)
         /\ Limit(gdt_set_gate(base, limit, access, "pages"))
              = (limit % (Short * Half)) * (Byte * Half) + Byte * Half - 1
<1>1. limit % (Short * Half) = (limit % Short) + Short * ((limit \div Short) % Half)
  <2>1. Short \in Nat \ {0} /\ Half \in Nat \ {0}
    BY Sizes
  <2> QED
    BY <2>1, TwoDigits
<1> QED
  BY <1>1 DEF Limit, gdt_set_gate

(* 4 GB, of which the 20 bits of the limit count pages. *)
LEMMA FlatLimit ==
  ASSUME NEW access
  PROVE  Limit(gdt_set_gate(0, Word - 1, access, "pages")) = Word - 1
<1> DEFINE d == Short * Half
<1> DEFINE p == Byte * Half
<1>1. d \in Nat \ {0} /\ p \in Nat \ {0} /\ d * p = Word /\ Word - 1 \in Nat
  <2>1. Byte * Half >= 1 /\ Short * Half >= 1
    BY Sizes
  <2>2. Word >= 1
    BY Sizes DEF Word
  <2> QED
    BY <2>1, <2>2, Sizes
<1>2. Limit(gdt_set_gate(0, Word - 1, access, "pages")) = ((Word - 1) % d) * p + p - 1
  BY <1>1, GateLimit
<1> HIDE DEF d, p
<1>3. Word - 1 = d * (p - 1) + (d - 1)
  <2>1. d * (p - 1) = d * p - d
    BY <1>1
  <2> QED
    BY <2>1, <1>1
<1>4. (Word - 1) % d = d - 1
  <2>1. p - 1 \in Nat /\ d - 1 \in 0 .. d - 1
    BY <1>1
  <2>2. (d * (p - 1) + (d - 1)) % d = d - 1
    BY <2>1, <1>1, Quotient
  <2> QED
    BY <2>2, <1>3
<1>5. (d - 1) * p = d * p - p
  BY <1>1
<1> QED
  BY <1>1, <1>2, <1>4, <1>5

LEMMA InstalledIsFlat ==
  ASSUME gdt = Installed, boot # "gdt_install"
  PROVE  SegmentsAreFlat
<1>1. Word \in Nat /\ Word - 1 \in Nat /\ 0 \in 0 .. Word - 1 /\ TssBase \in 0 .. Word - 1
  <2>1. Word >= 1
    BY Sizes DEF Word
  <2> QED
    BY <2>1, Sizes, TssAssumption, NumbersAssumption
<1>2. /\ gdt[1] = gdt_set_gate(0, Word - 1, "code0", "pages")
      /\ gdt[2] = gdt_set_gate(0, Word - 1, "data0", "pages")
      /\ gdt[3] = gdt_set_gate(0, Word - 1, "code3", "pages")
      /\ gdt[4] = gdt_set_gate(0, Word - 1, "data3", "pages")
      /\ gdt[5] = gdt_set_gate(TssBase, TssBase + TssSize, "tss", "bytes")
  BY DEF Installed
<1>3. \A i \in 1 .. 4 : \E access : gdt[i] = gdt_set_gate(0, Word - 1, access, "pages")
  BY <1>2
<1>4. \A i \in 1 .. 4 : Base(gdt[i]) = 0 /\ Limit(gdt[i]) = Word - 1
  BY <1>1, <1>3, GateBase, FlatLimit
<1>5. /\ gdt[KernelCode \div 8].access = "code0" /\ gdt[KernelData \div 8].access = "data0"
      /\ gdt[UserCode \div 8].access = "code3" /\ gdt[UserData \div 8].access = "data3"
  <2>1. KernelCode \div 8 = 1 /\ KernelData \div 8 = 2 /\ UserCode \div 8 = 3 /\ UserData \div 8 = 4
    BY DEF KernelCode, KernelData, UserCode, UserData
  <2> QED
    BY <2>1, <1>2 DEF gdt_set_gate
<1>6. Base(gdt[5]) = TssBase /\ Limit(gdt[5]) >= TssSize - 1
  <2>1. TssBase + TssSize \in Nat /\ TssBase \in Nat /\ TssSize \in Nat
    BY NumbersAssumption
  <2>2. Limit(gdt[5]) = (TssBase + TssSize) % (Short * Half)
    BY <2>1, <1>2, GateLimit
  <2>3. Short * Half \in Nat \ {0}
    BY Sizes
  <2>4. (TssBase + TssSize) % (Short * Half) \in Nat
    BY <2>1, <2>3, Divided
  <2> QED
    BY <2>1, <2>2, <2>4, <1>1, <1>2, GateBase, TssAssumption
<1> QED
  BY <1>4, <1>5, <1>6 DEF SegmentsAreFlat

(* A key finds something in the entry that is neither false nor true.       *)
LEMMA EntryIsNoBoolean ==
  ASSUME gdt = Installed
  PROVE  gdt[3].limit_low # 0 /\ gdt[3].limit_low # 1
<1>1. gdt[3].limit_low = (Word - 1) % Short
  BY DEF Installed, gdt_set_gate
<1>2. Word - 1 = Short * (Short - 1) + (Short - 1)
  <2>1. Short * (Short - 1) = Short * Short - Short /\ Short * Short \in Nat
    BY Sizes
  <2> QED
    BY <2>1, Sizes DEF Word
<1>3. (Word - 1) % Short = Short - 1
  <2>1. Short \in Nat \ {0} /\ Short - 1 \in Nat /\ Short - 1 \in 0 .. Short - 1
    BY Sizes
  <2>2. (Short * (Short - 1) + (Short - 1)) % Short = Short - 1
    BY <2>1, Quotient
  <2> QED
    BY <2>2, <1>2
<1> QED
  BY <1>1, <1>3, Sizes

LEMMA StubFits ==
  ASSUME NEW v \in Vectors
  PROVE  /\ Target(idt_set_gate(Stub(v), KernelCode)) = Stub(v)
         /\ Stub(v) % Short = v
<1>1. v \in 0 .. Short - 1 /\ v + 1 \in 0 .. Short - 1 /\ v + 1 \in Nat /\ Short \in Nat \ {0}
  BY VectorsAssumption, Sizes
<1>2. Stub(v) % Short = v /\ Stub(v) \div Short = v + 1
  <2>1. (Short * (v + 1) + v) % Short = v /\ (Short * (v + 1) + v) \div Short = v + 1
    BY <1>1, Quotient
  <2> QED
    BY <2>1 DEF Stub
<1>3. (v + 1) % Short = v + 1
  <2>1. Short * 0 + (v + 1) = v + 1
    BY <1>1, Sizes
  <2> QED
    BY <2>1, <1>1, Sizes, Quotient
<1>4. Short * (v + 1) \in Nat
  BY <1>1, Sizes
<1> QED
  BY <1>1, <1>2, <1>3, <1>4 DEF Target, idt_set_gate, Stub

LEMMA StubOfGate ==
  ASSUME NEW v \in Vectors, idt[v] = idt_set_gate(Stub(v), KernelCode)
  PROVE  (CHOOSE w \in Vectors : Stub(w) = Target(idt[v])) = v
<1>1. \A w \in Vectors : Stub(w) = Target(idt[v]) <=> w = v
  BY StubFits
<1> QED
  BY <1>1
-----------------------------------------------------------------------------
(* Frames *)

General == Range(Segments) \cup (Range(Pusha) \ {"esp"})
Return == {"eip", "cs", "eflags"}

LEMMA Names ==
  /\ General = {"gs", "fs", "es", "ds", "edi", "esi", "ebp", "ebx", "edx", "ecx", "eax"}
  /\ Registers = General \cup Return \cup {"esp", "ss"}
<1>1. Range(Segments) = {"gs", "fs", "es", "ds"}
  BY DEF Segments, Range
<1>2. Range(Pusha) = {"eax", "ecx", "edx", "ebx", "esp", "ebp", "esi", "edi"}
  BY DEF Pusha, Range
<1> QED
  BY <1>1, <1>2 DEF General, Return, Registers

LEMMA Positions ==
  /\ Position("gs") = 1 /\ Position("fs") = 2 /\ Position("es") = 3
  /\ Position("ds") = 4 /\ Position("edi") = 5 /\ Position("esi") = 6
  /\ Position("ebp") = 7 /\ Position("esp") = 8 /\ Position("ebx") = 9
  /\ Position("edx") = 10 /\ Position("ecx") = 11 /\ Position("eax") = 12
  /\ Position("int_no") = 13 /\ Position("err_code") = 14 /\ Position("eip") = 15
  /\ Position("cs") = 16 /\ Position("eflags") = 17 /\ Position("useresp") = 18
  /\ Position("ss") = 19
<1>1. Len(Fields) = 19
  BY DEF Fields
<1>2. \A i \in 1 .. 19 : Fields[i] = "gs" <=> i = 1
  BY DEF Fields
<1>3. \A i \in 1 .. 19 : Fields[i] = "fs" <=> i = 2
  BY DEF Fields
<1>4. \A i \in 1 .. 19 : Fields[i] = "es" <=> i = 3
  BY DEF Fields
<1>5. \A i \in 1 .. 19 : Fields[i] = "ds" <=> i = 4
  BY DEF Fields
<1>6. \A i \in 1 .. 19 : Fields[i] = "edi" <=> i = 5
  BY DEF Fields
<1>7. \A i \in 1 .. 19 : Fields[i] = "esi" <=> i = 6
  BY DEF Fields
<1>8. \A i \in 1 .. 19 : Fields[i] = "ebp" <=> i = 7
  BY DEF Fields
<1>9. \A i \in 1 .. 19 : Fields[i] = "esp" <=> i = 8
  BY DEF Fields
<1>10. \A i \in 1 .. 19 : Fields[i] = "ebx" <=> i = 9
  BY DEF Fields
<1>11. \A i \in 1 .. 19 : Fields[i] = "edx" <=> i = 10
  BY DEF Fields
<1>12. \A i \in 1 .. 19 : Fields[i] = "ecx" <=> i = 11
  BY DEF Fields
<1>13. \A i \in 1 .. 19 : Fields[i] = "eax" <=> i = 12
  BY DEF Fields
<1>14. \A i \in 1 .. 19 : Fields[i] = "int_no" <=> i = 13
  BY DEF Fields
<1>15. \A i \in 1 .. 19 : Fields[i] = "err_code" <=> i = 14
  BY DEF Fields
<1>16. \A i \in 1 .. 19 : Fields[i] = "eip" <=> i = 15
  BY DEF Fields
<1>17. \A i \in 1 .. 19 : Fields[i] = "cs" <=> i = 16
  BY DEF Fields
<1>18. \A i \in 1 .. 19 : Fields[i] = "eflags" <=> i = 17
  BY DEF Fields
<1>19. \A i \in 1 .. 19 : Fields[i] = "useresp" <=> i = 18
  BY DEF Fields
<1>20. \A i \in 1 .. 19 : Fields[i] = "ss" <=> i = 19
  BY DEF Fields
<1> QED
  BY <1>1, <1>2, <1>3, <1>4, <1>5, <1>6, <1>7, <1>8, <1>9, <1>10, <1>11, <1>12, <1>13, <1>14, <1>15, <1>16, <1>17, <1>18, <1>19, <1>20 DEF Position

Activation ==
  [vector : Vectors, code : Nat, cpu : [Registers -> Nat], called : BOOLEAN]

FromUser(a) == a.cpu["cs"] = UserCode
ErrorWords(a) == IF a.vector \in ErrorCodeVectors THEN 1 ELSE 0

(* The words of the stack that a handler took from Bottom + 1 to Top.       *)
Bottom(a) == IF FromUser(a) THEN 0 ELSE a.cpu["esp"]
Top(a) == Bottom(a) + (IF FromUser(a) THEN 5 ELSE 3) + ErrorWords(a) + 14

(* A system call that was handled may have another result.                  *)
Changed(a) == a.called /\ a.vector = SyscallVector /\ a.cpu["eax"] < 2

(* What handler a has on the stack s.                                       *)
At(a, s, n) == s[Top(a) + 1 - n]
Frame(a, s) ==
  /\ At(a, s, Position("int_no")) = a.vector
  /\ \A f \in General \ {"eax"} : At(a, s, Position(f)) = a.cpu[f]
  /\ At(a, s, Position("eax")) = a.cpu["eax"] \/ Changed(a)
  /\ \A f \in Return : At(a, s, Position(f) + ErrorWords(a)) = a.cpu[f]
  /\ FromUser(a) => /\ At(a, s, Position("useresp") + ErrorWords(a)) = a.cpu["esp"]
                    /\ At(a, s, Position("ss") + ErrorWords(a)) = a.cpu["ss"]

TypeInv ==
  /\ cpu \in [Registers -> Nat] /\ stack \in Seq(Nat) /\ active \in Seq(Activation)
  /\ Len(active) <= MaxDepth /\ halted \in {"no", "panic", "page fault", "wild jump"}

(* The frames of the handlers lie one behind the other, the first one that  *)
(* of the program.  A handler that returns has no error code.               *)
FramesInv ==
  /\ \A k \in 1 .. Len(active) :
       /\ Frame(active[k], stack)
       /\ active[k].called => active[k].vector \notin ErrorCodeVectors
       /\ k = 1 => FromUser(active[k])
       /\ k > 1 => /\ active[k].cpu["cs"] = KernelCode /\ active[k].cpu["ss"] = KernelData
                   /\ Bottom(active[k]) = Top(active[k - 1])
  /\ \A j, k \in 1 .. Len(active) : j < k => Top(active[j]) <= Bottom(active[k])

(* The registers are those of the program, or of a handler that has its     *)
(* frame on top of the stack.                                               *)
CpuInv ==
  IF active = <<>> THEN stack = <<>> /\ cpu["cs"] = UserCode
  ELSE /\ boot = "done"
       /\ cpu["cs"] = KernelCode /\ cpu["ss"] = KernelData
       /\ cpu["esp"] = Len(stack) /\ Len(stack) = Top(active[Len(active)])

IInv == TablesInv /\ TypeInv /\ FramesInv /\ CpuInv

LEMMA Extent ==
  ASSUME NEW a \in Activation
  PROVE  /\ Bottom(a) \in Nat /\ Top(a) \in Nat /\ ErrorWords(a) \in {0, 1}
         /\ Top(a) = Bottom(a) + (IF FromUser(a) THEN 19 ELSE 17) + ErrorWords(a)
<1>1. a.cpu["esp"] \in Nat
  BY Names DEF Activation
<1> QED
  BY <1>1 DEF Bottom, Top, ErrorWords

(* A frame is what it was as long as its words are.                         *)
LEMMA FrameKept ==
  ASSUME NEW a \in Activation, NEW s, NEW t, Frame(a, s),
         \A i \in Bottom(a) + 1 .. Top(a) : t[i] = s[i]
  PROVE  Frame(a, t)
<1>1. \A n \in 1 .. 17 + ErrorWords(a) : At(a, t, n) = At(a, s, n)
  <2> TAKE n \in 1 .. 17 + ErrorWords(a)
  <2>1. Top(a) + 1 - n \in Bottom(a) + 1 .. Top(a)
    BY Extent
  <2> QED
    BY <2>1 DEF At
<1>2. FromUser(a) => \A n \in 18 .. 19 + ErrorWords(a) : At(a, t, n) = At(a, s, n)
  <2> SUFFICES ASSUME FromUser(a), NEW n \in 18 .. 19 + ErrorWords(a)
               PROVE  At(a, t, n) = At(a, s, n)
    OBVIOUS
  <2>1. Top(a) + 1 - n \in Bottom(a) + 1 .. Top(a)
    BY Extent
  <2> QED
    BY <2>1 DEF At
<1>3. \A f \in General \cup {"int_no"} : Position(f) \in 1 .. 13
  BY Names, Positions
<1>4. \A f \in Return : Position(f) \in 15 .. 17
  BY Positions DEF Return
<1>5. ErrorWords(a) \in {0, 1}
  BY Extent
<1>6. \A f \in General \cup {"int_no"} : At(a, t, Position(f)) = At(a, s, Position(f))
  BY <1>1, <1>3, <1>5
<1>7. \A f \in Return :
        At(a, t, Position(f) + ErrorWords(a)) = At(a, s, Position(f) + ErrorWords(a))
  <2> TAKE f \in Return
  <2>1. Position(f) + ErrorWords(a) \in 1 .. 17 + ErrorWords(a)
    BY <1>4, <1>5
  <2> QED
    BY <2>1, <1>1
<1>8. FromUser(a) =>
        /\ At(a, t, Position("useresp") + ErrorWords(a)) = At(a, s, Position("useresp") + ErrorWords(a))
        /\ At(a, t, Position("ss") + ErrorWords(a)) = At(a, s, Position("ss") + ErrorWords(a))
  <2>1. /\ Position("useresp") + ErrorWords(a) \in 18 .. 19 + ErrorWords(a)
        /\ Position("ss") + ErrorWords(a) \in 18 .. 19 + ErrorWords(a)
    BY Positions, <1>5
  <2> QED
    BY <2>1, <1>2
<1>9. "eax" \in General
  BY Names
<1> QED
  BY <1>6, <1>7, <1>8, <1>9 DEF Frame

(* The words w were pushed on the stack s.                                  *)
Pushed(s, w, t) ==
  /\ t \in Seq(Nat) /\ Len(t) = Len(s) + Len(w) /\ Len(s) \in Nat /\ Len(w) \in Nat
  /\ \A i \in 1 .. Len(s) : t[i] = s[i]
  /\ \A i \in 1 .. Len(w) : t[Len(s) + i] = w[i]

LEMMA Concatenated ==
  ASSUME NEW s \in Seq(Nat), NEW w \in Seq(Nat)
  PROVE  Pushed(s, w, s \o w)
BY DEF Pushed

LEMMA FivePushed ==
  ASSUME NEW s, NEW w, NEW t, Pushed(s, w, t), Len(s) = 2, Len(w) = 3
  PROVE  /\ t \in Seq(Nat) /\ Len(t) = 5
         /\ t[1] = s[1] /\ t[2] = s[2] /\ t[3] = w[1] /\ t[4] = w[2] /\ t[5] = w[3]
<1>1. t[2 + 1] = w[1] /\ t[2 + 2] = w[2] /\ t[2 + 3] = w[3]
  BY DEF Pushed
<1> QED
  BY <1>1 DEF Pushed

LEMMA ValuesFacts ==
  ASSUME cpu \in [Registers -> Nat]
  PROVE  /\ Values(Segments) \in Seq(Nat) /\ Len(Values(Segments)) = 4
         /\ Values(Segments)[1] = cpu["ds"] /\ Values(Segments)[2] = cpu["es"]
         /\ Values(Segments)[3] = cpu["fs"] /\ Values(Segments)[4] = cpu["gs"]
         /\ Interrupted \in Seq(Nat) /\ Len(Interrupted) = IF UserMode THEN 5 ELSE 3
         /\ Interrupted[Len(Interrupted)] = cpu["eip"]
         /\ Interrupted[Len(Interrupted) - 1] = cpu["cs"]
         /\ Interrupted[Len(Interrupted) - 2] = cpu["eflags"]
         /\ UserMode => Interrupted[1] = cpu["ss"] /\ Interrupted[2] = cpu["esp"]
<1>1. \A g \in Registers : cpu[g] \in Nat
  OBVIOUS
<1>2. {"ds", "es", "fs", "gs", "ss", "esp", "eflags", "cs", "eip"} \subseteq Registers
  BY Names DEF Return
<1>3. /\ Values(Segments) \in Seq(Nat) /\ Len(Values(Segments)) = 4
      /\ Values(Segments)[1] = cpu["ds"] /\ Values(Segments)[2] = cpu["es"]
      /\ Values(Segments)[3] = cpu["fs"] /\ Values(Segments)[4] = cpu["gs"]
  BY <1>1, <1>2 DEF Values, Segments
<1> DEFINE user == Values(<<"ss", "esp">>)
           kernel == Values(<<"eflags", "cs", "eip">>)
<1>4. user \in Seq(Nat) /\ Len(user) = 2 /\ user[1] = cpu["ss"] /\ user[2] = cpu["esp"]
  BY <1>1, <1>2 DEF Values
<1>5. /\ kernel \in Seq(Nat) /\ Len(kernel) = 3
      /\ kernel[1] = cpu["eflags"] /\ kernel[2] = cpu["cs"] /\ kernel[3] = cpu["eip"]
  BY <1>1, <1>2 DEF Values
<1>6. Interrupted = (IF UserMode THEN user ELSE <<>>) \o kernel
  BY DEF Interrupted
<1> HIDE DEF user, kernel
<1>7. CASE UserMode
  <2>1. Pushed(user, kernel, Interrupted)
    <3>1. Interrupted = user \o kernel
      BY <1>6, <1>7
    <3>2. Pushed(user, kernel, user \o kernel)
      BY <1>4, <1>5, Concatenated
    <3> QED
      BY <3>1, <3>2, Zenon
  <2>2. /\ Interrupted \in Seq(Nat) /\ Len(Interrupted) = 5
        /\ Interrupted[1] = user[1] /\ Interrupted[2] = user[2]
        /\ Interrupted[3] = kernel[1] /\ Interrupted[4] = kernel[2] /\ Interrupted[5] = kernel[3]
    <3>1. Len(user) = 2 /\ Len(kernel) = 3
      BY <1>4, <1>5
    <3> QED
      BY <2>1, <3>1, FivePushed
  <2> QED
    BY <2>2, <1>3, <1>4, <1>5, <1>7
<1>8. CASE ~UserMode
  <2>1. Interrupted = kernel
    BY <1>5, <1>6, <1>8
  <2> QED
    BY <2>1, <1>3, <1>5, <1>8
<1> QED
  BY <1>7, <1>8

Entered(v, code) == [vector |-> v, code |-> code, cpu |-> cpu, called |-> FALSE]

(* The words from the error code of the processor on.                       *)
ErrorCode(v, code) == IF v \in ErrorCodeVectors THEN <<code>> ELSE <<>>
Pusha8(esp) == [i \in 1 .. 8 |-> IF Pusha[i] = "esp" THEN esp ELSE cpu[Pusha[i]]]
StubWords(s, v) == ((s \o <<0, v>>) \o Pusha8(Len(s \o <<0, v>>))) \o Values(Segments)

LEMMA EnterWords ==
  ASSUME IInv, NEW v \in Vectors, NEW code \in Nat, Enter(v, code)
  PROVE  /\ stack' = StubWords((stack \o Interrupted) \o ErrorCode(v, code), v)
         /\ active' = Append(active, Entered(v, code))
         /\ Len(active) < MaxDepth /\ boot = "done" /\ UNCHANGED <<gdt, idt, boot, halted>>
         /\ Len(stack') \in Nat => cpu' \in [Registers -> Nat]
         /\ cpu'["cs"] = KernelCode /\ cpu'["ss"] = KernelData
         /\ cpu'["esp"] = Len(stack')
<1> DEFINE stub == CHOOSE w \in Vectors : Stub(w) = Target(idt[v])
           s == (stack \o Interrupted) \o ErrorCode(v, code)
<1>1. idt[v] = idt_set_gate(Stub(v), KernelCode)
  <2>1. boot = "done"
    BY Zenon DEF Enter
  <2> QED
    BY <2>1 DEF IInv, TablesInv
<1>2. stub = v
  BY <1>1, StubOfGate
<1>3. stack' = StubWords(s, stub)
  BY Zenon DEF Enter, StubPushes, StubWords, Pusha8, ErrorCode
<1>4. active' = Append(active, Entered(v, code))
  BY Zenon DEF Enter, Entered
<1>5. cpu' = [g \in Registers |->
                  IF g \in Range(Segments) \cup {"ss"} THEN KernelData
                  ELSE IF g = "cs" THEN idt[v].sel
                  ELSE IF g = "eflags" THEN 2
                  ELSE IF g = "esp" THEN Len(stack')
                  ELSE IF g = "eip" THEN 2000 + v
                  ELSE cpu[g]]
  BY Zenon DEF Enter
<1>6. idt[v].sel = KernelCode
  BY <1>1 DEF idt_set_gate
<1>7. Len(active) < MaxDepth /\ boot = "done" /\ UNCHANGED <<gdt, idt, boot, halted>>
  BY Zenon DEF Enter
<1>8. /\ Len(stack') \in Nat => cpu' \in [Registers -> Nat]
      /\ cpu'["cs"] = KernelCode /\ cpu'["ss"] = KernelData /\ cpu'["esp"] = Len(stack')
  <2>1. \A g \in Registers : cpu[g] \in Nat
    BY DEF IInv, TypeInv
  <2>2. {"cs", "ss", "esp"} \subseteq Registers /\ {"cs", "esp"} \cap Range(Segments) = {}
    BY Names DEF Return, Segments, Range
  <2>3. v \in Nat
    BY VectorsAssumption
  <2> HIDE DEF stub, s
  <2> QED
    BY <1>5, <1>6, <2>1, <2>2, <2>3 DEF KernelCode, KernelData
<1> QED
  BY <1>2, <1>3, <1>4, <1>7, <1>8

(* What follows the error code on the stack t, seen from its top.           *)
LEMMA StubPushed ==
  ASSUME cpu \in [Registers -> Nat], NEW s \in Seq(Nat), NEW v \in Nat
  PROVE  LET t == StubWords(s, v)
         IN  /\ t \in Seq(Nat) /\ Len(s) \in Nat /\ Len(t) = Len(s) + 14
             /\ \A i \in 1 .. Len(s) : t[i] = s[i]
             /\ t[Len(t) + 1 - Position("int_no")] = v
             /\ \A f \in General : t[Len(t) + 1 - Position(f)] = cpu[f]
<1> DEFINE two == <<0, v>>
           s1 == s \o two
           eight == Pusha8(Len(s1))
           s2 == s1 \o eight
           four == Values(Segments)
           t == StubWords(s, v)
<1>1. t = s2 \o four
  BY Zenon DEF StubWords
<1>2. Pushed(s, two, s1) /\ Len(two) = 2 /\ two[2] = v
  <2>1. two \in Seq(Nat)
    OBVIOUS
  <2> QED
    BY <2>1, Concatenated
<1> HIDE DEF s1, two
<1>3. /\ s1 \in Seq(Nat) /\ Len(s1) = Len(s) + 2 /\ Len(s) \in Nat /\ s1[Len(s) + 2] = v
      /\ \A i \in 1 .. Len(s) : s1[i] = s[i]
  BY <1>2 DEF Pushed
<1>4. /\ eight \in Seq(Nat) /\ Len(eight) = 8
      /\ eight[1] = cpu["eax"] /\ eight[2] = cpu["ecx"] /\ eight[3] = cpu["edx"]
      /\ eight[4] = cpu["ebx"] /\ eight[6] = cpu["ebp"] /\ eight[7] = cpu["esi"]
      /\ eight[8] = cpu["edi"]
  <2>1. \A i \in 1 .. 8 : Pusha[i] \in Registers
    BY Names DEF Pusha
  <2>2. \A i \in 1 .. 8 : eight[i] = IF Pusha[i] = "esp" THEN Len(s1) ELSE cpu[Pusha[i]]
    BY DEF Pusha8
  <2>3. Len(s1) \in Nat /\ \A i \in 1 .. 8 : cpu[Pusha[i]] \in Nat
    <3>1. Len(s1) \in Nat
      BY <1>3
    <3>2. \A i \in 1 .. 8 : cpu[Pusha[i]] \in Nat
      BY <2>1
    <3> QED
      BY <3>1, <3>2
  <2>5. eight \in Seq(Nat) /\ Len(eight) = 8
    BY <2>3 DEF Pusha8
  <2> HIDE DEF eight
  <2> QED
    BY <2>2, <2>5 DEF Pusha
<1>5. Pushed(s1, eight, s2)
  BY <1>3, <1>4, Concatenated
<1> HIDE DEF s2, eight
<1>6. /\ s2 \in Seq(Nat) /\ Len(s2) = Len(s) + 10
      /\ \A i \in 1 .. Len(s) + 2 : s2[i] = s1[i]
      /\ \A i \in 1 .. 8 : s2[Len(s) + 2 + i] = eight[i]
  BY <1>3, <1>4, <1>5 DEF Pushed
<1>7. /\ four \in Seq(Nat) /\ Len(four) = 4
      /\ four[1] = cpu["ds"] /\ four[2] = cpu["es"] /\ four[3] = cpu["fs"] /\ four[4] = cpu["gs"]
  BY ValuesFacts
<1> HIDE DEF four
<1>8. Pushed(s2, four, t)
  <2>1. Pushed(s2, four, s2 \o four)
    BY <1>6, <1>7, Concatenated
  <2> HIDE DEF t
  <2> QED
    BY <1>1, <2>1, Zenon
<1> HIDE DEF t
<1>9. /\ t \in Seq(Nat) /\ Len(t) = Len(s) + 14
      /\ \A i \in 1 .. Len(s) + 10 : t[i] = s2[i]
      /\ \A i \in 1 .. 4 : t[Len(s) + 10 + i] = four[i]
  BY <1>6, <1>7, <1>8 DEF Pushed
<1>10. \A i \in 1 .. Len(s) : t[i] = s[i]
  <2> TAKE i \in 1 .. Len(s)
  <2>1. i \in 1 .. Len(s) + 2 /\ i \in 1 .. Len(s) + 10
    BY <1>3
  <2>2. t[i] = s2[i]
    BY <2>1, <1>9
  <2>3. s2[i] = s1[i]
    BY <2>1, <1>6
  <2>4. s1[i] = s[i]
    BY <1>3
  <2> QED
    BY <2>2, <2>3, <2>4
<1>11. t[Len(t) - 12] = v
  <2>1. Len(s) + 2 \in 1 .. Len(s) + 2 /\ Len(s) + 2 \in 1 .. Len(s) + 10
    BY <1>3
  <2>2. t[Len(s) + 2] = s2[Len(s) + 2] /\ s2[Len(s) + 2] = s1[Len(s) + 2]
    BY <2>1, <1>6, <1>9
  <2> QED
    BY <2>2, <1>3, <1>9
<1>12. \A i \in 1 .. 8 : t[Len(t) - 12 + i] = eight[i]
  <2> TAKE i \in 1 .. 8
  <2>1. Len(s) + 2 + i \in 1 .. Len(s) + 10
    BY <1>3
  <2>2. t[Len(s) + 2 + i] = s2[Len(s) + 2 + i]
    BY <2>1, <1>9
  <2>3. s2[Len(s) + 2 + i] = eight[i]
    <3>1. \A j \in 1 .. 8 : s2[Len(s) + 2 + j] = eight[j]
      BY <1>6
    <3> QED
      BY <3>1, Zenon
  <2>4. Len(t) - 12 + i = Len(s) + 2 + i
    BY <1>3, <1>9
  <2> QED
    BY <2>2, <2>3, <2>4
<1>13. \A i \in 1 .. 4 : t[Len(t) - 4 + i] = four[i]
  <2> TAKE i \in 1 .. 4
  <2>1. Len(t) - 4 + i = Len(s) + 10 + i
    BY <1>3, <1>9
  <2>2. t[Len(s) + 10 + i] = four[i]
    <3>1. \A j \in 1 .. 4 : t[Len(s) + 10 + j] = four[j]
      BY <1>9
    <3> QED
      BY <3>1, Zenon
  <2> QED
    BY <2>1, <2>2
<1>14. t[Len(t) + 1 - Position("int_no")] = v
  <2>1. Len(t) + 1 - Position("int_no") = Len(t) - 12
    <3>1. Len(t) \in Nat /\ Position("int_no") = 13
      BY <1>3, <1>9, Positions
    <3> HIDE DEF Position
    <3> QED
      BY <3>1
  <2> QED
    BY <2>1, <1>11
<1>15. \A f \in General : t[Len(t) + 1 - Position(f)] = cpu[f]
  <2>1. Len(t) \in Nat
    BY <1>3, <1>9
  <2>2. \A i \in 5 .. 12 : t[Len(t) + 1 - i] = eight[13 - i]
    <3> TAKE i \in 5 .. 12
    <3>1. 13 - i \in 1 .. 8 /\ Len(t) + 1 - i = Len(t) - 12 + (13 - i)
      BY <2>1
    <3> QED
      BY <3>1, <1>12
  <2>3. \A i \in 1 .. 4 : t[Len(t) + 1 - i] = four[5 - i]
    <3> TAKE i \in 1 .. 4
    <3>1. 5 - i \in 1 .. 4 /\ Len(t) + 1 - i = Len(t) - 4 + (5 - i)
      BY <2>1
    <3> QED
      BY <3>1, <1>13
  <2>4. /\ t[Len(t) + 1 - 1] = four[4] /\ t[Len(t) + 1 - 2] = four[3]
        /\ t[Len(t) + 1 - 3] = four[2] /\ t[Len(t) + 1 - 4] = four[1]
    BY <2>3
  <2>5. /\ t[Len(t) + 1 - 5] = eight[8] /\ t[Len(t) + 1 - 6] = eight[7]
        /\ t[Len(t) + 1 - 7] = eight[6] /\ t[Len(t) + 1 - 9] = eight[4]
        /\ t[Len(t) + 1 - 10] = eight[3] /\ t[Len(t) + 1 - 11] = eight[2]
        /\ t[Len(t) + 1 - 12] = eight[1]
    BY <2>2
  <2>6. /\ t[Len(t) + 1 - Position("gs")] = cpu["gs"]
        /\ t[Len(t) + 1 - Position("fs")] = cpu["fs"]
        /\ t[Len(t) + 1 - Position("es")] = cpu["es"]
        /\ t[Len(t) + 1 - Position("ds")] = cpu["ds"]
    BY <2>4, <1>7, Positions, Zenon
  <2>7. /\ t[Len(t) + 1 - Position("edi")] = cpu["edi"]
        /\ t[Len(t) + 1 - Position("esi")] = cpu["esi"]
        /\ t[Len(t) + 1 - Position("ebp")] = cpu["ebp"]
        /\ t[Len(t) + 1 - Position("ebx")] = cpu["ebx"]
        /\ t[Len(t) + 1 - Position("edx")] = cpu["edx"]
        /\ t[Len(t) + 1 - Position("ecx")] = cpu["ecx"]
        /\ t[Len(t) + 1 - Position("eax")] = cpu["eax"]
    BY <2>5, <1>4, Positions, Zenon
  <2> QED
    BY <2>6, <2>7, Names, Zenon
<1> QED
  BY <1>3, <1>9, <1>10, <1>14, <1>15 DEF t

(* The handler of Enter gets the frame it looks for.                        *)
LEMMA EnterFrame ==
  ASSUME IInv, NEW v \in Vectors, NEW code \in Nat, Enter(v, code)
  PROVE  /\ Entered(v, code) \in Activation
         /\ FromUser(Entered(v, code)) = (active = <<>>)
         /\ Bottom(Entered(v, code)) = Len(stack)
         /\ stack' \in Seq(Nat) /\ Len(stack') = Top(Entered(v, code))
         /\ \A i \in 1 .. Len(stack) : stack'[i] = stack[i]
         /\ Frame(Entered(v, code), stack')
<1> DEFINE a == Entered(v, code)
           s1 == stack \o Interrupted
           s2 == s1 \o ErrorCode(v, code)
<1>1. /\ cpu \in [Registers -> Nat] /\ stack \in Seq(Nat) /\ Len(stack) \in Nat /\ v \in Nat
  <2>1. cpu \in [Registers -> Nat] /\ stack \in Seq(Nat)
    BY DEF IInv, TypeInv
  <2>2. v \in Nat
    BY VectorsAssumption
  <2> QED
    BY <2>1, <2>2
<1>2. /\ a \in Activation /\ a.cpu = cpu /\ a.vector = v /\ ~a.called
  BY <1>1 DEF Activation, Entered
<1>3. UserMode = (active = <<>>) /\ FromUser(a) = UserMode
  BY <1>2 DEF IInv, CpuInv, UserMode, UserCode, KernelCode, FromUser
<1>4. Bottom(a) = Len(stack)
  <2>1. active # <<>> => cpu["esp"] = Len(stack)
    BY DEF IInv, CpuInv
  <2>2. active = <<>> => Len(stack) = 0
    BY DEF IInv, CpuInv
  <2> QED
    BY <1>2, <1>3, <2>1, <2>2 DEF Bottom
<1>5. stack' = StubWords(s2, v)
  BY EnterWords
<1>6. Pushed(stack, Interrupted, s1)
  BY <1>1, ValuesFacts, Concatenated
<1> HIDE DEF s1
<1>7. /\ ErrorCode(v, code) \in Seq(Nat) /\ Len(ErrorCode(v, code)) = ErrorWords(a)
      /\ ErrorWords(a) \in {0, 1}
  BY <1>2 DEF ErrorCode, ErrorWords
<1>8. Pushed(s1, ErrorCode(v, code), s2)
  BY <1>6, <1>7, Concatenated DEF Pushed
<1> HIDE DEF s2, a
<1> DEFINE n == IF UserMode THEN 5 ELSE 3
<1>9. /\ Interrupted \in Seq(Nat) /\ Len(Interrupted) = n
      /\ Interrupted[n] = cpu["eip"] /\ Interrupted[n - 1] = cpu["cs"]
      /\ Interrupted[n - 2] = cpu["eflags"]
      /\ UserMode => Interrupted[1] = cpu["ss"] /\ Interrupted[2] = cpu["esp"]
  BY <1>1, ValuesFacts
<1>10. n \in {3, 5}
  OBVIOUS
<1>11. /\ s1 \in Seq(Nat) /\ Len(s1) = Len(stack) + n
       /\ \A i \in 1 .. Len(stack) : s1[i] = stack[i]
       /\ \A i \in 1 .. n : s1[Len(stack) + i] = Interrupted[i]
  BY <1>6, <1>9 DEF Pushed
<1>12. /\ s2 \in Seq(Nat) /\ Len(s2) = Len(stack) + n + ErrorWords(a)
       /\ \A i \in 1 .. Len(stack) + n : s2[i] = s1[i]
  BY <1>1, <1>7, <1>8, <1>10, <1>11 DEF Pushed
<1>13. /\ stack' \in Seq(Nat) /\ Len(stack') = Len(s2) + 14
       /\ \A i \in 1 .. Len(s2) : stack'[i] = s2[i]
       /\ stack'[Len(stack') + 1 - Position("int_no")] = v
       /\ \A f \in General : stack'[Len(stack') + 1 - Position(f)] = cpu[f]
  <2>1. /\ StubWords(s2, v) \in Seq(Nat) /\ Len(StubWords(s2, v)) = Len(s2) + 14
        /\ \A i \in 1 .. Len(s2) : StubWords(s2, v)[i] = s2[i]
        /\ StubWords(s2, v)[Len(StubWords(s2, v)) + 1 - Position("int_no")] = v
        /\ \A f \in General : StubWords(s2, v)[Len(StubWords(s2, v)) + 1 - Position(f)] = cpu[f]
    <3>1. s2 \in Seq(Nat)
      BY <1>12
    <3> QED
      BY <1>1, <3>1, StubPushed, Zenon
  <2> QED
    BY <1>5, <2>1, Zenon
<1>14. Len(stack') = Top(a)
  BY <1>1, <1>3, <1>4, <1>7, <1>12, <1>13 DEF Top
<1>15. \A i \in 1 .. Len(stack) + n : stack'[i] = s1[i]
  <2> TAKE i \in 1 .. Len(stack) + n
  <2>1. i \in 1 .. Len(s2)
    BY <1>1, <1>7, <1>10, <1>12
  <2>2. stack'[i] = s2[i]
    BY <2>1, <1>13
  <2> QED
    BY <2>2, <1>12
<1>16. \A i \in 1 .. Len(stack) : stack'[i] = stack[i]
  <2> TAKE i \in 1 .. Len(stack)
  <2>1. i \in 1 .. Len(stack) + n
    BY <1>1, <1>10
  <2> QED
    BY <2>1, <1>11, <1>15
<1>17. \A i \in 1 .. n : stack'[Len(stack) + i] = Interrupted[i]
  <2> TAKE i \in 1 .. n
  <2>1. Len(stack) + i \in 1 .. Len(stack) + n
    BY <1>1, <1>10
  <2>2. s1[Len(stack) + i] = Interrupted[i]
    BY <1>11, Zenon
  <2> QED
    BY <2>1, <2>2, <1>15
<1>18. Top(a) = Len(stack) + n + ErrorWords(a) + 14
  BY <1>12, <1>13, <1>14
<1> HIDE DEF n
<1>19. \A i \in {0, 1, 2} : At(a, stack', 15 + i + ErrorWords(a)) = Interrupted[n - i]
  <2> TAKE i \in {0, 1, 2}
  <2>1. Top(a) + 1 - (15 + i + ErrorWords(a)) = Len(stack) + (n - i) /\ n - i \in 1 .. n
    BY <1>1, <1>7, <1>10, <1>18, SMTT(30)
  <2>2. stack'[Len(stack) + (n - i)] = Interrupted[n - i]
    BY <2>1, <1>17, Zenon
  <2> QED
    BY <2>1, <2>2 DEF At
<1>20. UserMode => \A i \in {3, 4} : At(a, stack', 15 + i + ErrorWords(a)) = Interrupted[5 - i]
  <2> SUFFICES ASSUME UserMode, NEW i \in {3, 4}
               PROVE  At(a, stack', 15 + i + ErrorWords(a)) = Interrupted[5 - i]
    OBVIOUS
  <2>1. n = 5
    BY DEF n
  <2>2. Top(a) + 1 - (15 + i + ErrorWords(a)) = Len(stack) + (5 - i) /\ 5 - i \in 1 .. n
    BY <1>1, <1>7, <1>18, <2>1
  <2> QED
    BY <2>2, <1>17 DEF At
<1>21. \A f \in Return : At(a, stack', Position(f) + ErrorWords(a)) = cpu[f]
  <2>1. /\ At(a, stack', 15 + 0 + ErrorWords(a)) = cpu["eip"]
        /\ At(a, stack', 15 + 1 + ErrorWords(a)) = cpu["cs"]
        /\ At(a, stack', 15 + 2 + ErrorWords(a)) = cpu["eflags"]
    BY <1>9, <1>10, <1>19
  <2>2. /\ At(a, stack', Position("eip") + ErrorWords(a)) = cpu["eip"]
        /\ At(a, stack', Position("cs") + ErrorWords(a)) = cpu["cs"]
        /\ At(a, stack', Position("eflags") + ErrorWords(a)) = cpu["eflags"]
    BY <2>1, Positions
  <2> QED
    BY <2>2 DEF Return
<1>22. UserMode => /\ At(a, stack', Position("useresp") + ErrorWords(a)) = cpu["esp"]
                   /\ At(a, stack', Position("ss") + ErrorWords(a)) = cpu["ss"]
  <2> SUFFICES ASSUME UserMode
               PROVE  /\ At(a, stack', Position("useresp") + ErrorWords(a)) = cpu["esp"]
                      /\ At(a, stack', Position("ss") + ErrorWords(a)) = cpu["ss"]
    OBVIOUS
  <2>1. /\ At(a, stack', 15 + 3 + ErrorWords(a)) = Interrupted[5 - 3]
        /\ At(a, stack', 15 + 4 + ErrorWords(a)) = Interrupted[5 - 4]
    BY <1>20
  <2> QED
    BY <2>1, <1>9, Positions
<1>23. /\ At(a, stack', Position("int_no")) = v
       /\ \A f \in General : At(a, stack', Position(f)) = cpu[f]
  BY <1>13, <1>14, Zenon DEF At
<1>24. Frame(a, stack')
  <2>1. "eax" \in General
    BY Names
  <2> QED
    BY <2>1, <1>2, <1>3, <1>21, <1>22, <1>23 DEF Frame
<1> QED
  BY <1>2, <1>3, <1>4, <1>13, <1>14, <1>16, <1>24 DEF a

(* The frame of the handler that runs is on top of the stack. *)
LEMMA Running ==
  ASSUME IInv, active # <<>>
  PROVE  /\ Len(active) \in Nat \ {0} /\ Last(active) = active[Len(active)]
         /\ Last(active) \in Activation
         /\ Len(stack) = Top(Last(active)) /\ Frame(Last(active), stack)
         /\ \A f : r(f) = At(Last(active), stack, Position(f))
<1>1. active \in Seq(Activation) /\ Len(active) \in Nat \ {0}
  <2>1. active \in Seq(Activation)
    BY DEF IInv, TypeInv
  <2> QED
    BY <2>1, EmptySeq
<1>2. Last(active) = active[Len(active)]
  BY DEF Last
<1>3. Len(active) \in 1 .. Len(active)
  BY <1>1
<1>4. active[Len(active)] \in Activation
  BY <1>1, <1>3
<1>5. Frame(active[Len(active)], stack)
  BY <1>3 DEF IInv, FramesInv
<1>6. Len(stack) = Top(active[Len(active)])
  BY DEF IInv, CpuInv
<1>7. \A f : r(f) = At(active[Len(active)], stack, Position(f))
  BY <1>6 DEF r, Slot, At
<1> QED
  BY <1>1, <1>2, <1>4, <1>5, <1>6, <1>7

(* The program of the beginning has a value in every register.              *)
LEMMA InitInv == Init => IInv
<1> SUFFICES ASSUME Init PROVE IInv
  OBVIOUS
<1>1. PICK eax \in SystemCalls : cpu = UserProgram(eax)
  BY DEF Init
<1>2. \A g \in Registers : Position(g) \in Nat
  <2>1. \A g \in General \cup Return \cup {"esp", "ss"} : Position(g) \in 1 .. 19
    BY Names, Positions DEF Return
  <2> QED
    BY <2>1, Names
<1>3. eax \in Nat
  BY NumbersAssumption
<1>4. cpu \in [Registers -> Nat] /\ cpu["cs"] = UserCode
  <2>1. "cs" \in Registers
    BY Names DEF Return
  <2> QED
    BY <1>1, <1>2, <1>3, <2>1 DEF UserProgram, UserCode, UserData
<1>5. TablesInv
  BY DEF Init, TablesInv, Cleared
<1>6. TypeInv
  BY <1>4, DepthAssumption DEF Init, TypeInv
<1>7. FramesInv
  BY DEF Init, FramesInv
<1>8. CpuInv
  BY <1>4 DEF Init, CpuInv
<1> QED
  BY <1>5, <1>6, <1>7, <1>8 DEF IInv

(* What happens before and between handlers. *)
LEMMA BootKeeps ==
  IInv /\ (gdt_install \/ idt_install \/ isrs_install \/ irq_install) => IInv'
<1> SUFFICES ASSUME IInv, gdt_install \/ idt_install \/ isrs_install \/ irq_install
             PROVE  IInv'
  OBVIOUS
<1>1. UNCHANGED <<cpu, stack, active, halted>> /\ boot # "done"
  BY DEF gdt_install, idt_install, isrs_install, irq_install
<1>2. active = <<>>
  BY <1>1 DEF IInv, CpuInv
<1>3. TablesInv'
  <2>1. CASE gdt_install
    BY <2>1 DEF IInv, TablesInv, gdt_install, Installed
  <2>2. CASE idt_install
    BY <2>2 DEF IInv, TablesInv, idt_install
  <2>3. CASE isrs_install
    BY <2>3 DEF IInv, TablesInv, isrs_install
  <2>4. CASE irq_install
    BY <2>4 DEF IInv, TablesInv, irq_install
  <2> QED
    BY <2>1, <2>2, <2>3, <2>4
<1>4. TypeInv'
  BY <1>1 DEF IInv, TypeInv
<1>5. FramesInv'
  BY <1>1, <1>2 DEF FramesInv
<1>6. CpuInv'
  BY <1>1, <1>2 DEF IInv, CpuInv
<1> QED
  BY <1>3, <1>4, <1>5, <1>6 DEF IInv

LEMMA StutterKeeps == IInv /\ UNCHANGED vars => IInv'
<1> SUFFICES ASSUME IInv, UNCHANGED vars PROVE IInv'
  OBVIOUS
<1>1. TablesInv' /\ TypeInv'
  BY DEF IInv, TablesInv, TypeInv, vars
<1>2. FramesInv'
  BY DEF IInv, FramesInv, vars
<1>3. CpuInv'
  BY DEF IInv, CpuInv, vars
<1> QED
  BY <1>1, <1>2, <1>3 DEF IInv

(* The entry that the keyboard works on is neither false nor true.          *)
LEMMA ToggleShiftKeeps == IInv /\ ToggleShift => IInv'
<1> SUFFICES ASSUME IInv, ToggleShift PROVE IInv'
  OBVIOUS
<1>1. gdt = Installed
  BY DEF ToggleShift, IInv, TablesInv
<1>2. gdt' = gdt
  BY <1>1, EntryIsNoBoolean DEF ToggleShift
<1>3. UNCHANGED vars
  BY <1>2 DEF ToggleShift, vars
<1> QED
  BY <1>3, StutterKeeps

LEMMA ComputeKeeps == IInv /\ Compute => IInv'
<1> SUFFICES ASSUME IInv, Compute PROVE IInv'
  OBVIOUS
<1>1. PICK eax \in SystemCalls : cpu' = [cpu EXCEPT !["eax"] = eax]
  BY DEF Compute
<1>2. UNCHANGED <<gdt, idt, boot, stack, active, halted>> /\ UserMode
  BY DEF Compute
<1>3. active = <<>>
  BY <1>2 DEF IInv, CpuInv, UserMode, UserCode, KernelCode
<1>4. cpu \in [Registers -> Nat] /\ eax \in Nat
  BY NumbersAssumption DEF IInv, TypeInv
<1>5. cpu' \in [Registers -> Nat] /\ cpu'["cs"] = cpu["cs"]
  BY <1>1, <1>4, Names DEF Return
<1>6. TablesInv' /\ TypeInv'
  BY <1>2, <1>5 DEF IInv, TablesInv, TypeInv
<1>7. FramesInv'
  BY <1>2, <1>3 DEF FramesInv
<1>8. CpuInv'
  BY <1>2, <1>3, <1>5 DEF IInv, CpuInv
<1> QED
  BY <1>6, <1>7, <1>8 DEF IInv

(* All frames are on the stack. *)
LEMMA Stacked ==
  ASSUME IInv
  PROVE  /\ active \in Seq(Activation) /\ Len(active) \in Nat
         /\ stack \in Seq(Nat) /\ Len(stack) \in Nat
         /\ \A k \in 1 .. Len(active) :
              /\ active[k] \in Activation /\ Top(active[k]) <= Len(stack)
              /\ k < Len(active) => Top(active[k]) <= Bottom(active[Len(active)])
<1>1. active \in Seq(Activation) /\ Len(active) \in Nat /\ stack \in Seq(Nat) /\ Len(stack) \in Nat
  <2>1. active \in Seq(Activation) /\ stack \in Seq(Nat)
    BY DEF IInv, TypeInv
  <2> QED
    BY <2>1
<1>2. ASSUME NEW k \in 1 .. Len(active)
      PROVE  /\ active[k] \in Activation /\ Top(active[k]) <= Len(stack)
             /\ k < Len(active) => Top(active[k]) <= Bottom(active[Len(active)])
  <2> DEFINE n == Len(active)
  <2>1. active # <<>> /\ n \in 1 .. n /\ n \in Nat
    BY <1>1
  <2>2. Len(stack) = Top(active[n])
    BY <2>1 DEF IInv, CpuInv
  <2>3. active[k] \in Activation /\ active[n] \in Activation
    BY <1>1, <2>1
  <2>4. k < n => Top(active[k]) <= Bottom(active[n])
    BY <2>1 DEF IInv, FramesInv
  <2>5. Bottom(active[n]) <= Top(active[n]) /\ Top(active[n]) \in Nat /\ Top(active[k]) \in Nat
        /\ Bottom(active[n]) \in Nat
    BY <2>3, Extent
  <2>6. Top(active[k]) <= Len(stack)
    <3>1. CASE k = n
      BY <2>2, <2>5, <3>1
    <3>2. CASE k < n
      BY <2>2, <2>4, <2>5, <3>2
    <3> QED
      BY <3>1, <3>2, <2>1
  <2> QED
    BY <2>3, <2>4, <2>6
<1> QED
  BY <1>1, <1>2

LEMMA EnterKeeps ==
  ASSUME IInv, NEW v \in Vectors, NEW code \in Nat, Enter(v, code)
  PROVE  IInv'
<1> DEFINE a == Entered(v, code)
           n == Len(active)
<1>1. /\ active' = Append(active, a)
      /\ n < MaxDepth /\ boot = "done" /\ UNCHANGED <<gdt, idt, boot, halted>>
      /\ Len(stack') \in Nat => cpu' \in [Registers -> Nat]
      /\ cpu'["cs"] = KernelCode /\ cpu'["ss"] = KernelData /\ cpu'["esp"] = Len(stack')
  BY EnterWords
<1>2. /\ a \in Activation /\ FromUser(a) = (active = <<>>) /\ Bottom(a) = Len(stack)
      /\ stack' \in Seq(Nat) /\ Len(stack') = Top(a) /\ Frame(a, stack')
      /\ \A i \in 1 .. Len(stack) : stack'[i] = stack[i]
  BY EnterFrame
<1>3. a.cpu = cpu /\ ~a.called
  BY DEF Entered
<1> HIDE DEF a
<1>4. /\ active \in Seq(Activation) /\ n \in Nat /\ Len(stack) \in Nat /\ MaxDepth \in Nat
      /\ \A k \in 1 .. n : active[k] \in Activation /\ Top(active[k]) <= Len(stack)
  BY Stacked, DepthAssumption
<1>5. /\ active' \in Seq(Activation) /\ Len(active') = n + 1 /\ active'[n + 1] = a
      /\ \A k \in 1 .. n : active'[k] = active[k]
  BY <1>1, <1>2, <1>4
<1>6. TablesInv'
  BY <1>1 DEF IInv, TablesInv
<1>7. TypeInv'
  <2>1. Len(active') <= MaxDepth /\ Len(stack') \in Nat
    BY <1>1, <1>2, <1>4, <1>5
  <2> QED
    BY <2>1, <1>1, <1>2, <1>5 DEF IInv, TypeInv
<1>8. ASSUME NEW k \in 1 .. n PROVE Frame(active'[k], stack')
  <2>1. Frame(active[k], stack)
    BY DEF IInv, FramesInv
  <2>2. \A i \in Bottom(active[k]) + 1 .. Top(active[k]) : stack'[i] = stack[i]
    <3> TAKE i \in Bottom(active[k]) + 1 .. Top(active[k])
    <3>1. i \in 1 .. Len(stack)
      <4>1. active[k] \in Activation /\ Top(active[k]) <= Len(stack)
        BY <1>4
      <4>2. Bottom(active[k]) \in Nat /\ Top(active[k]) \in Nat
        BY <4>1, Extent
      <4> QED
        BY <4>1, <4>2, <1>4
    <3> QED
      BY <3>1, <1>2
  <2> QED
    BY <2>1, <2>2, <1>4, <1>5, FrameKept
<1>9. n > 0 => cpu["cs"] = KernelCode /\ cpu["ss"] = KernelData /\ Len(stack) = Top(active[n])
  BY DEF IInv, CpuInv
<1>10. n = 0 <=> active = <<>>
  BY <1>4, EmptySeq
<1>11. ASSUME NEW k \in 1 .. n + 1
       PROVE  /\ Frame(active'[k], stack')
              /\ active'[k].called => active'[k].vector \notin ErrorCodeVectors
              /\ k = 1 => FromUser(active'[k])
              /\ k > 1 => /\ active'[k].cpu["cs"] = KernelCode /\ active'[k].cpu["ss"] = KernelData
                          /\ Bottom(active'[k]) = Top(active'[k - 1])
  <2>1. CASE k = n + 1
    <3>1. k = 1 => FromUser(a)
      <4>1. k = 1 => active = <<>>
        BY <2>1, <1>4, <1>10
      <4> QED
        BY <4>1, <1>2, Zenon
    <3>2. k > 1 => /\ a.cpu["cs"] = KernelCode /\ a.cpu["ss"] = KernelData
                   /\ Bottom(a) = Top(active'[k - 1])
      <4> SUFFICES ASSUME k > 1
                   PROVE  /\ a.cpu["cs"] = KernelCode /\ a.cpu["ss"] = KernelData
                          /\ Bottom(a) = Top(active'[k - 1])
        OBVIOUS
      <4>1. n > 0 /\ k - 1 = n /\ n \in 1 .. n
        BY <2>1, <1>4
      <4> QED
        BY <4>1, <1>2, <1>3, <1>5, <1>9
    <3> QED
      BY <2>1, <3>1, <3>2, <1>2, <1>3, <1>5
  <2>2. CASE k \in 1 .. n
    <3>1. active'[k] = active[k] /\ (k > 1 => active'[k - 1] = active[k - 1])
      BY <2>2, <1>4, <1>5
    <3> QED
      BY <2>2, <3>1, <1>8 DEF IInv, FramesInv
  <2> QED
    BY <2>1, <2>2, <1>4
<1>12. ASSUME NEW j \in 1 .. n + 1, NEW k \in 1 .. n + 1, j < k
       PROVE  Top(active'[j]) <= Bottom(active'[k])
  <2>1. j \in 1 .. n
    BY <1>4, <1>12
  <2>2. CASE k = n + 1
    BY <2>1, <2>2, <1>2, <1>4, <1>5
  <2>3. CASE k \in 1 .. n
    BY <2>1, <2>3, <1>5, <1>12 DEF IInv, FramesInv
  <2> QED
    BY <2>2, <2>3, <1>4
<1>13. FramesInv'
  BY <1>5, <1>11, <1>12 DEF FramesInv
<1>14. CpuInv'
  <2>1. active' # <<>> /\ active'[Len(active')] = a
    BY <1>4, <1>5
  <2> QED
    BY <2>1, <1>1, <1>2 DEF CpuInv
<1> QED
  BY <1>6, <1>7, <1>13, <1>14 DEF IInv

(* A handler that is done with its frame.                                   *)
Done(a) == [a EXCEPT !.called = TRUE]

LEMMA HandledKeeps ==
  ASSUME IInv, active # <<>>, Handled, UNCHANGED <<gdt, idt, boot, cpu, halted>>,
         stack' \in Seq(Nat), Len(stack') = Len(stack),
         \A i \in 1 .. Bottom(Last(active)) : stack'[i] = stack[i],
         Frame(Done(Last(active)), stack'), Last(active).vector \notin ErrorCodeVectors
  PROVE  IInv'
<1> DEFINE n == Len(active)
           a == Last(active)
<1>1. n \in Nat \ {0} /\ a = active[n] /\ a \in Activation /\ Len(stack) = Top(a)
  BY Running
<1>2. /\ active \in Seq(Activation) /\ Len(stack) \in Nat
      /\ \A k \in 1 .. n : active[k] \in Activation
      /\ \A k \in 1 .. n : k < n => Top(active[k]) <= Bottom(a)
  BY <1>1, Stacked
<1>3. active' = [active EXCEPT ![n] = Done(a)]
  BY <1>1 DEF Handled, Done
<1>4. /\ Done(a) \in Activation /\ Done(a).vector = a.vector /\ Done(a).cpu = a.cpu
      /\ Bottom(Done(a)) = Bottom(a) /\ Top(Done(a)) = Top(a) /\ FromUser(Done(a)) = FromUser(a)
  <2>1. Done(a) \in Activation /\ Done(a).vector = a.vector /\ Done(a).cpu = a.cpu
    BY <1>1 DEF Done, Activation
  <2> QED
    BY <2>1 DEF Bottom, Top, ErrorWords, FromUser
<1> HIDE DEF a
<1>5. /\ active' \in Seq(Activation) /\ Len(active') = n /\ active'[n] = Done(a)
      /\ \A k \in 1 .. n : k # n => active'[k] = active[k]
  BY <1>1, <1>2, <1>3, <1>4
<1>6. \A k \in 1 .. n : /\ active'[k].vector = active[k].vector /\ active'[k].cpu = active[k].cpu
                        /\ Bottom(active'[k]) = Bottom(active[k])
                        /\ Top(active'[k]) = Top(active[k])
                        /\ FromUser(active'[k]) = FromUser(active[k])
  BY <1>1, <1>4, <1>5
<1>7. TablesInv' /\ TypeInv'
  BY <1>5 DEF IInv, TablesInv, TypeInv
<1>8. ASSUME NEW k \in 1 .. n PROVE Frame(active'[k], stack')
  <2>1. CASE k = n
    BY <2>1, <1>5 DEF a
  <2>2. CASE k # n
    <3>1. k < n
      BY <2>2, <1>1
    <3>2. Frame(active[k], stack)
      BY DEF IInv, FramesInv
    <3>3. \A i \in Bottom(active[k]) + 1 .. Top(active[k]) : stack'[i] = stack[i]
      <4> TAKE i \in Bottom(active[k]) + 1 .. Top(active[k])
      <4>1. i \in 1 .. Bottom(a)
        <5>1. active[k] \in Activation /\ Top(active[k]) <= Bottom(a)
          BY <3>1, <1>2
        <5>2. Bottom(active[k]) \in Nat /\ Top(active[k]) \in Nat /\ Bottom(a) \in Nat
          BY <5>1, <1>1, Extent DEF a
        <5> QED
          BY <5>1, <5>2
      <4> QED
        BY <4>1 DEF a
    <3> QED
      BY <2>2, <3>2, <3>3, <1>2, <1>5, FrameKept
  <2> QED
    BY <2>1, <2>2
<1>9. ASSUME NEW k \in 1 .. n
      PROVE  /\ active'[k].called => active'[k].vector \notin ErrorCodeVectors
             /\ k = 1 => FromUser(active'[k])
             /\ k > 1 => /\ active'[k].cpu["cs"] = KernelCode /\ active'[k].cpu["ss"] = KernelData
                         /\ Bottom(active'[k]) = Top(active'[k - 1])
  <2>1. active'[k].called => active'[k].vector \notin ErrorCodeVectors
    <3>1. CASE k = n
      BY <3>1, <1>1, <1>6 DEF a
    <3>2. CASE k # n
      BY <3>2, <1>5 DEF IInv, FramesInv
    <3> QED
      BY <3>1, <3>2
  <2>2. k = 1 => FromUser(active'[k])
    BY <1>6 DEF IInv, FramesInv
  <2>3. k > 1 => k - 1 \in 1 .. n
    BY <1>1
  <2>4. k > 1 => /\ active'[k].cpu["cs"] = KernelCode /\ active'[k].cpu["ss"] = KernelData
                 /\ Bottom(active'[k]) = Top(active'[k - 1])
    BY <2>3, <1>6 DEF IInv, FramesInv
  <2> QED
    BY <2>1, <2>2, <2>4
<1>10. \A j, k \in 1 .. n : j < k => Top(active'[j]) <= Bottom(active'[k])
  BY <1>6 DEF IInv, FramesInv
<1>11. FramesInv'
  BY <1>5, <1>8, <1>9, <1>10 DEF FramesInv
<1>12. CpuInv'
  <2>1. active' # <<>> /\ Top(active'[Len(active')]) = Len(stack')
    BY <1>1, <1>4, <1>5
  <2> QED
    BY <2>1 DEF IInv, CpuInv
<1> QED
  BY <1>7, <1>11, <1>12 DEF IInv

(* The dispatch of a system call changes the slot of eax and nothing else.  *)
LEMMA SyscallHandlerKeeps == IInv /\ SyscallHandler => IInv'
<1> SUFFICES ASSUME IInv, SyscallHandler PROVE IInv'
  OBVIOUS
<1> DEFINE a == Last(active)
           slot == Len(stack) - 11
<1>1. /\ active # <<>> /\ ~a.called /\ a.vector = SyscallVector /\ Handled
      /\ UNCHANGED <<gdt, idt, boot, cpu, halted>>
  BY DEF SyscallHandler, Handling
<1>2. /\ a \in Activation /\ Len(stack) = Top(a) /\ Frame(a, stack)
      /\ r("eax") = At(a, stack, Position("eax"))
  BY <1>1, Running
<1>3. stack \in Seq(Nat) /\ Len(stack) \in Nat
  BY Stacked
<1>4. PICK ret \in IF r("eax") >= 2 THEN {r("eax")} ELSE {r("eax"), 3000} :
         stack' = [stack EXCEPT ![Slot("eax")] = ret]
  BY DEF SyscallHandler
<1>5. Position("eax") = 12 /\ Position("int_no") = 13
  BY Positions
<1>6. Slot("eax") = slot
  BY <1>3, <1>5 DEF Slot
<1>7. r("eax") = a.cpu["eax"] /\ r("eax") \in Nat
  <2>1. At(a, stack, Position("eax")) = a.cpu["eax"]
    BY <1>1, <1>2 DEF Frame, Changed
  <2>2. a.cpu["eax"] \in Nat
    BY <1>2, Names DEF Activation
  <2> QED
    BY <1>2, <2>1, <2>2
<1> HIDE DEF a
<1>8. ret \in Nat /\ (ret = a.cpu["eax"] \/ a.cpu["eax"] < 2)
  BY <1>4, <1>7
<1>9. /\ Bottom(a) \in Nat /\ Top(a) \in Nat /\ Bottom(a) + 17 <= Top(a)
      /\ ErrorWords(a) \in {0, 1}
  BY <1>2, Extent
<1>10. /\ stack' \in Seq(Nat) /\ Len(stack') = Len(stack) /\ stack'[slot] = ret
       /\ \A i \in 1 .. Len(stack) : i # slot => stack'[i] = stack[i]
  <2>1. slot \in 1 .. Len(stack)
    BY <1>2, <1>9
  <2> HIDE DEF slot
  <2>2. stack' = [stack EXCEPT ![slot] = ret]
    BY <1>4, <1>6
  <2> QED
    BY <2>1, <2>2, <1>3, <1>8
<1>11. \A i \in 1 .. Bottom(a) : stack'[i] = stack[i]
  <2> TAKE i \in 1 .. Bottom(a)
  <2>1. i \in 1 .. Len(stack) /\ i # slot
    BY <1>2, <1>9
  <2> QED
    BY <2>1, <1>10
<1>12. /\ Done(a).called /\ Done(a).vector = a.vector /\ Done(a).cpu = a.cpu
       /\ Top(Done(a)) = Top(a) /\ ErrorWords(Done(a)) = ErrorWords(a)
       /\ FromUser(Done(a)) = FromUser(a)
  <2>1. Done(a).called /\ Done(a).vector = a.vector /\ Done(a).cpu = a.cpu
    BY <1>2 DEF Done, Activation
  <2> QED
    BY <2>1 DEF Bottom, Top, ErrorWords, FromUser
<1>13. At(Done(a), stack', 12) = ret
  <2>1. Top(a) + 1 - 12 = slot
    BY <1>2, <1>9
  <2> QED
    BY <2>1, <1>10, <1>12 DEF At
<1>14. \A k \in 1 .. 19 + ErrorWords(a) :
         k # 12 /\ k <= Top(a) => At(Done(a), stack', k) = At(a, stack, k)
  <2> SUFFICES ASSUME NEW k \in 1 .. 19 + ErrorWords(a), k # 12, k <= Top(a)
               PROVE  At(Done(a), stack', k) = At(a, stack, k)
    OBVIOUS
  <2>1. Top(a) + 1 - k \in 1 .. Len(stack) /\ Top(a) + 1 - k # slot
    BY <1>2, <1>9
  <2> DEFINE i == Top(a) + 1 - k
  <2>2. i \in 1 .. Len(stack) /\ i # slot
    BY <2>1
  <2>3. At(Done(a), stack', k) = stack'[i] /\ At(a, stack, k) = stack[i]
    BY <1>12 DEF At
  <2> HIDE DEF i, slot
  <2>4. stack'[i] = stack[i]
    <3>1. \A j \in 1 .. Len(stack) : j # slot => stack'[j] = stack[j]
      BY <1>10
    <3> QED
      BY <2>2, <3>1
  <2> QED
    BY <2>3, <2>4
<1>15. Frame(Done(a), stack')
  <2>1. At(Done(a), stack', Position("int_no")) = Done(a).vector
    <3>1. At(Done(a), stack', 13) = At(a, stack, 13)
      BY <1>9, <1>14
    <3> QED
      BY <3>1, <1>2, <1>5, <1>12 DEF Frame
  <2>2. ASSUME NEW f \in General \ {"eax"}
        PROVE  At(Done(a), stack', Position(f)) = Done(a).cpu[f]
    <3>1. Position(f) \in 1 .. 11
      BY Names, Positions
    <3>2. At(Done(a), stack', Position(f)) = At(a, stack, Position(f))
      BY <3>1, <1>9, <1>14
    <3> QED
      BY <3>2, <1>2, <1>12 DEF Frame
  <2>3. At(Done(a), stack', Position("eax")) = Done(a).cpu["eax"] \/ Changed(Done(a))
    BY <1>1, <1>5, <1>8, <1>12, <1>13 DEF Changed, a
  <2>4. ASSUME NEW f \in Return
        PROVE  At(Done(a), stack', Position(f) + ErrorWords(Done(a))) = Done(a).cpu[f]
    <3>1. Position(f) \in 15 .. 17
      BY Positions DEF Return
    <3>2. Position(f) + ErrorWords(a) \in 15 .. 18 /\ Position(f) + ErrorWords(a) <= 17 + ErrorWords(a)
      BY <3>1, <1>9
    <3>3. Position(f) + ErrorWords(a) <= Top(a)
      BY <3>2, <1>2, Extent
    <3>4. At(Done(a), stack', Position(f) + ErrorWords(a)) = At(a, stack, Position(f) + ErrorWords(a))
      BY <3>2, <3>3, <1>9, <1>14
    <3> QED
      BY <3>4, <1>2, <1>12 DEF Frame
  <2>5. ASSUME FromUser(Done(a))
        PROVE  /\ At(Done(a), stack', Position("useresp") + ErrorWords(Done(a))) = Done(a).cpu["esp"]
               /\ At(Done(a), stack', Position("ss") + ErrorWords(Done(a))) = Done(a).cpu["ss"]
    <3>1. Position("useresp") = 18 /\ Position("ss") = 19
      BY Positions
    <3>2. 19 + ErrorWords(a) <= Top(a)
      BY <2>5, <1>2, <1>12, Extent
    <3>3. /\ At(Done(a), stack', 18 + ErrorWords(a)) = At(a, stack, 18 + ErrorWords(a))
          /\ At(Done(a), stack', 19 + ErrorWords(a)) = At(a, stack, 19 + ErrorWords(a))
      BY <3>2, <1>9, <1>14
    <3> QED
      BY <2>5, <3>1, <3>3, <1>2, <1>12 DEF Frame
  <2> QED
    BY <2>1, <2>2, <2>3, <2>4, <2>5 DEF Frame
<1>16. a.vector \notin ErrorCodeVectors
  BY <1>1 DEF SyscallVector, ErrorCodeVectors, a
<1> QED
  BY <1>1, <1>10, <1>11, <1>15, <1>16, HandledKeeps DEF a

(* Handlers of faults and interrupts leave their frame as it is.            *)
LEMMA FrameDone ==
  ASSUME NEW a \in Activation, Frame(a, stack), ~a.called
  PROVE  Frame(Done(a), stack)
<1>1. /\ Done(a).vector = a.vector /\ Done(a).cpu = a.cpu
      /\ Top(Done(a)) = Top(a) /\ ErrorWords(Done(a)) = ErrorWords(a)
      /\ FromUser(Done(a)) = FromUser(a)
  <2>1. Done(a).vector = a.vector /\ Done(a).cpu = a.cpu
    BY DEF Done, Activation
  <2> QED
    BY <2>1 DEF Bottom, Top, ErrorWords, FromUser
<1>2. \A k : At(Done(a), stack, k) = At(a, stack, k)
  BY <1>1 DEF At
<1>3. At(a, stack, Position("eax")) = a.cpu["eax"]
  BY DEF Frame, Changed
<1> QED
  BY <1>1, <1>2, <1>3 DEF Frame

LEMMA HaltKeeps ==
  ASSUME IInv, NEW why \in {"panic", "page fault", "wild jump"}, Halt(why)
  PROVE  IInv'
<1>1. TablesInv' /\ TypeInv'
  BY DEF IInv, TablesInv, TypeInv, Halt
<1>2. FramesInv'
  BY DEF IInv, FramesInv, Halt
<1>3. CpuInv'
  BY DEF IInv, CpuInv, Halt
<1> QED
  BY <1>1, <1>2, <1>3 DEF IInv

(* A fault with an error code finds no handler that returns.                *)
LEMMA FaultHandlerKeeps == IInv /\ FaultHandler => IInv'
<1> SUFFICES ASSUME IInv, FaultHandler PROVE IInv'
  OBVIOUS
<1> DEFINE a == Last(active)
<1>1. active # <<>> /\ ~a.called
  BY DEF FaultHandler, Handling
<1>2. /\ a \in Activation /\ Frame(a, stack) /\ Len(stack) = Top(a)
      /\ r("int_no") = At(a, stack, Position("int_no"))
  BY <1>1, Running
<1>3. r("int_no") = a.vector
  BY <1>2 DEF Frame
<1>4. stack \in Seq(Nat) /\ Bottom(a) \in Nat
  BY <1>2, Stacked, Extent
<1>5. CASE Handled /\ UNCHANGED <<gdt, idt, boot, cpu, stack, halted>> /\ r("int_no") = TimerHandler
  <2>1. a.vector \notin ErrorCodeVectors
    BY <1>3, <1>5 DEF TimerHandler, ErrorCodeVectors
  <2>2. Frame(Done(a), stack)
    BY <1>1, <1>2, FrameDone
  <2>3. /\ stack' = stack /\ Handled /\ UNCHANGED <<gdt, idt, boot, cpu, halted>>
        /\ Frame(Done(a), stack')
    BY <1>5, <2>2
  <2> QED
    BY <2>1, <2>3, <1>1, <1>4, HandledKeeps
<1>6. CASE \E why \in {"panic", "page fault", "wild jump"} : Halt(why)
  BY <1>6, HaltKeeps
<1>7. \/ Handled /\ UNCHANGED <<gdt, idt, boot, cpu, stack, halted>> /\ r("int_no") = TimerHandler
      \/ \E why \in {"panic", "page fault", "wild jump"} : Halt(why)
  <2>1. a.vector \in 0 .. 31
    BY DEF FaultHandler, Handling, Exceptions
  <2>2. \/ r("int_no") = TimerHandler \/ r("int_no") = PageFault
        \/ r("int_no") \in 1 .. 15 \ {PageFault} \/ r("int_no") >= 16
    BY <2>1, <1>3 DEF TimerHandler, PageFault
  <2> HIDE DEF a
  <2> QED
    BY <2>2 DEF FaultHandler, TimerHandler, PageFault
<1> QED
  BY <1>5, <1>6, <1>7

LEMMA IrqHandlerKeeps == IInv /\ IrqHandler => IInv'
<1> SUFFICES ASSUME IInv, IrqHandler PROVE IInv'
  OBVIOUS
<1> DEFINE a == Last(active)
<1>1. active # <<>> /\ ~a.called /\ a.vector \in 32 .. 47
  BY DEF IrqHandler, Handling, Irqs
<1>2. a \in Activation /\ Frame(a, stack)
  BY <1>1, Running
<1>3. stack \in Seq(Nat) /\ Bottom(a) \in Nat
  BY <1>2, Stacked, Extent
<1>4. CASE Handled /\ UNCHANGED <<gdt, idt, boot, cpu, stack, halted>>
  <2>1. a.vector \notin ErrorCodeVectors
    <3>1. \A v \in 32 .. 47 : v \notin ErrorCodeVectors
      BY DEF ErrorCodeVectors
    <3> QED
      BY <1>1, <3>1, Zenon
  <2>2. Frame(Done(a), stack)
    BY <1>1, <1>2, FrameDone
  <2>3. /\ stack' = stack /\ Handled /\ UNCHANGED <<gdt, idt, boot, cpu, halted>>
        /\ Frame(Done(a), stack')
    BY <1>4, <2>2
  <2> QED
    BY <2>1, <2>3, <1>1, <1>3, HandledKeeps
<1>5. CASE Halt("page fault")
  BY <1>5, HaltKeeps
<1> QED
  BY <1>4, <1>5 DEF IrqHandler

(* The stubs and iret give back what the frame of the handler says.         *)
LEMMA LeaveFacts ==
  ASSUME IInv, Leave
  PROVE  /\ active # <<>> /\ stack' = SubSeq(stack, 1, Bottom(Last(active)))
         /\ active' = Front(active) /\ UNCHANGED <<gdt, idt, boot, halted>>
         /\ cpu' \in [Registers -> Nat]
         /\ \A g \in Registers :
              cpu'[g] = Last(active).cpu[g] \/ (g = "eax" /\ Changed(Last(active)))
<1> DEFINE a == Last(active)
           n == Len(active)
           base == Len(stack) - 14
           user == stack[base - 1] = UserCode
           left == base - (IF user THEN 5 ELSE 3)
<1>1. active # <<>> /\ a.called /\ UNCHANGED <<gdt, idt, boot, halted>> /\ active' = Front(active)
  BY DEF Leave
<1>2. /\ n \in Nat \ {0} /\ a = active[n] /\ a \in Activation
      /\ Len(stack) = Top(a) /\ Frame(a, stack)
      /\ \A f : r(f) = At(a, stack, Position(f))
  BY <1>1, Running
<1>3. a.vector \notin ErrorCodeVectors /\ (n = 1 => FromUser(a))
      /\ (n > 1 => a.cpu["cs"] = KernelCode /\ a.cpu["ss"] = KernelData)
  BY <1>1, <1>2 DEF IInv, FramesInv
<1>4. stack \in Seq(Nat) /\ Len(stack) \in Nat /\ cpu["ss"] = KernelData
  BY <1>1, Stacked DEF IInv, CpuInv
<1>5. /\ Bottom(a) \in Nat /\ Top(a) \in Nat /\ ErrorWords(a) = 0
      /\ Top(a) = Bottom(a) + (IF FromUser(a) THEN 19 ELSE 17)
  <2>1. ErrorWords(a) = 0
    BY <1>3 DEF ErrorWords
  <2> QED
    BY <2>1, <1>2, Extent
<1>6. /\ cpu' = [g \in Registers |->
           IF g = "eip" THEN stack[base] ELSE IF g = "cs" THEN stack[base - 1]
           ELSE IF g = "eflags" THEN stack[base - 2]
           ELSE IF g = "esp" THEN IF user THEN stack[base - 3] ELSE left
           ELSE IF g = "ss" THEN IF user THEN stack[base - 4] ELSE cpu["ss"]
           ELSE r(g)]
      /\ stack' = SubSeq(stack, 1, left)
  <2>1. Len(stack) - 12 - Dropped = base
    BY <1>4 DEF Dropped
  <2> QED
    BY <2>1 DEF Leave
<1> HIDE DEF a, n
<1>7. stack[base] = a.cpu["eip"] /\ stack[base - 1] = a.cpu["cs"] /\ stack[base - 2] = a.cpu["eflags"]
  <2>1. \A f \in Return : stack[Top(a) + 1 - (Position(f) + ErrorWords(a))] = a.cpu[f]
    BY <1>2 DEF Frame, At
  <2>2. /\ stack[Top(a) + 1 - (Position("eip") + ErrorWords(a))] = a.cpu["eip"]
        /\ stack[Top(a) + 1 - (Position("cs") + ErrorWords(a))] = a.cpu["cs"]
        /\ stack[Top(a) + 1 - (Position("eflags") + ErrorWords(a))] = a.cpu["eflags"]
    BY <2>1 DEF Return
  <2>3. Position("eip") = 15 /\ Position("cs") = 16 /\ Position("eflags") = 17
    BY Positions
  <2>4. /\ Top(a) + 1 - (Position("eip") + ErrorWords(a)) = base
        /\ Top(a) + 1 - (Position("cs") + ErrorWords(a)) = base - 1
        /\ Top(a) + 1 - (Position("eflags") + ErrorWords(a)) = base - 2
    <3>1. Len(stack) = Top(a) /\ Top(a) \in Nat /\ ErrorWords(a) = 0
      BY <1>2, <1>5
    <3> HIDE DEF Position
    <3> QED
      BY <3>1, <2>3, SMTT(30)
  <2> QED
    BY <2>2, <2>4
<1>8. user <=> FromUser(a)
  BY <1>7 DEF FromUser
<1>9. left = Bottom(a)
  BY <1>2, <1>5, <1>8
<1>10. FromUser(a) => stack[base - 3] = a.cpu["esp"] /\ stack[base - 4] = a.cpu["ss"]
  <2> SUFFICES ASSUME FromUser(a)
               PROVE  stack[base - 3] = a.cpu["esp"] /\ stack[base - 4] = a.cpu["ss"]
    OBVIOUS
  <2>1. /\ stack[Top(a) + 1 - (Position("useresp") + ErrorWords(a))] = a.cpu["esp"]
        /\ stack[Top(a) + 1 - (Position("ss") + ErrorWords(a))] = a.cpu["ss"]
    BY <1>2 DEF Frame, At
  <2>2. Position("useresp") = 18 /\ Position("ss") = 19
    BY Positions
  <2>3. /\ Top(a) + 1 - (Position("useresp") + ErrorWords(a)) = base - 3
        /\ Top(a) + 1 - (Position("ss") + ErrorWords(a)) = base - 4
    BY <2>2, <1>2, <1>5
  <2> QED
    BY <2>1, <2>3
<1>11. ~FromUser(a) => a.cpu["ss"] = cpu["ss"] /\ Bottom(a) = a.cpu["esp"]
  BY <1>2, <1>3, <1>4 DEF Bottom
<1> HIDE DEF base, left, user
<1>12. /\ cpu'["eip"] = a.cpu["eip"] /\ cpu'["cs"] = a.cpu["cs"] /\ cpu'["eflags"] = a.cpu["eflags"]
       /\ cpu'["esp"] = a.cpu["esp"] /\ cpu'["ss"] = a.cpu["ss"]
  <2>1. {"eip", "cs", "eflags", "esp", "ss"} \subseteq Registers
    BY Names DEF Return
  <2>2. /\ cpu'["eip"] = stack[base] /\ cpu'["cs"] = stack[base - 1] /\ cpu'["eflags"] = stack[base - 2]
        /\ cpu'["esp"] = IF user THEN stack[base - 3] ELSE left
        /\ cpu'["ss"] = IF user THEN stack[base - 4] ELSE cpu["ss"]
    BY <1>6, <2>1
  <2> QED
    BY <2>2, <1>7, <1>8, <1>9, <1>10, <1>11
<1>13. ASSUME NEW g \in General
       PROVE  cpu'[g] = r(g) /\ (cpu'[g] = a.cpu[g] \/ (g = "eax" /\ Changed(a)))
  <2>1. g \in Registers /\ g \notin {"eip", "cs", "eflags", "esp", "ss"}
    BY Names
  <2>2. cpu'[g] = r(g)
    BY <1>6, <2>1
  <2> QED
    BY <2>2, <1>2 DEF Frame
<1>14. \A g \in Registers : cpu'[g] = a.cpu[g] \/ (g = "eax" /\ Changed(a))
  BY <1>12, <1>13, Names DEF Return
<1>15. cpu' \in [Registers -> Nat]
  <2>1. r("eax") \in Nat
    <3>1. Slot("eax") = Len(stack) + 1 - 12
      BY Positions DEF Slot
    <3>2. Len(stack) + 1 - 12 \in 1 .. Len(stack)
      BY <1>2, <1>5
    <3> QED
      BY <3>1, <3>2, <1>4 DEF r
  <2>2. "eax" \in General
    BY Names
  <2>3. cpu'["eax"] \in Nat
    BY <2>1, <2>2, <1>13
  <2>4. \A g \in Registers : a.cpu[g] \in Nat
    BY <1>2 DEF Activation
  <2>5. \A g \in Registers : cpu'[g] \in Nat
    BY <2>3, <2>4, <1>14
  <2>6. cpu' = [g \in Registers |-> cpu'[g]]
    BY <1>6
  <2> QED
    BY <2>5, <2>6
<1> QED
  BY <1>1, <1>6, <1>9, <1>14, <1>15 DEF a

LEMMA LeaveKeeps == IInv /\ Leave => IInv'
<1> SUFFICES ASSUME IInv, Leave PROVE IInv'
  OBVIOUS
<1> DEFINE a == Last(active)
           n == Len(active)
<1>1. /\ active # <<>> /\ stack' = SubSeq(stack, 1, Bottom(a))
      /\ active' = Front(active) /\ UNCHANGED <<gdt, idt, boot, halted>>
      /\ cpu' \in [Registers -> Nat]
      /\ \A g \in Registers : cpu'[g] = a.cpu[g] \/ (g = "eax" /\ Changed(a))
  BY LeaveFacts
<1>2. n \in Nat \ {0} /\ a = active[n] /\ a \in Activation /\ Len(stack) = Top(a)
  BY <1>1, Running
<1>3. /\ active \in Seq(Activation) /\ stack \in Seq(Nat) /\ Len(stack) \in Nat
      /\ \A k \in 1 .. n : active[k] \in Activation
      /\ \A k \in 1 .. n : k < n => Top(active[k]) <= Bottom(a)
  BY <1>2, Stacked
<1>4. /\ active' \in Seq(Activation) /\ Len(active') = n - 1
      /\ \A k \in 1 .. n - 1 : active'[k] = active[k]
  <2>1. active' = SubSeq(active, 1, n - 1)
    BY <1>1 DEF Front
  <2> HIDE DEF n
  <2>2. n - 1 \in Nat /\ n - 1 <= n
    BY <1>2
  <2>3. n = Len(active)
    BY DEF n
  <2> QED
    BY <2>1, <2>2, <2>3, <1>3
<1> HIDE DEF a
<1>5. Bottom(a) \in Nat /\ Bottom(a) <= Len(stack)
  BY <1>2, Extent
<1>6. /\ stack' \in Seq(Nat) /\ Len(stack') = Bottom(a)
      /\ \A i \in 1 .. Bottom(a) : stack'[i] = stack[i]
  BY <1>1, <1>3, <1>5
<1>7. TablesInv'
  BY <1>1 DEF IInv, TablesInv
<1>8. TypeInv'
  <2>1. Len(active') <= MaxDepth
    <3>1. n <= MaxDepth
      BY DEF IInv, TypeInv
    <3> HIDE DEF n
    <3> QED
      BY <3>1, <1>2, <1>4, DepthAssumption
  <2> QED
    BY <2>1, <1>1, <1>4, <1>6 DEF IInv, TypeInv
<1>9. ASSUME NEW k \in 1 .. n - 1 PROVE Frame(active'[k], stack')
  <2>1. k \in 1 .. n /\ k < n
    BY <1>2
  <2>2. Frame(active[k], stack)
    BY <2>1 DEF IInv, FramesInv
  <2>3. \A i \in Bottom(active[k]) + 1 .. Top(active[k]) : stack'[i] = stack[i]
    <3> TAKE i \in Bottom(active[k]) + 1 .. Top(active[k])
    <3>1. i \in 1 .. Bottom(a)
      <4>1. active[k] \in Activation /\ Top(active[k]) <= Bottom(a)
        BY <2>1, <1>3
      <4>2. Bottom(active[k]) \in Nat /\ Top(active[k]) \in Nat
        BY <4>1, Extent
      <4> QED
        BY <4>1, <4>2, <1>5
    <3> QED
      BY <3>1, <1>6
  <2> QED
    BY <2>1, <2>2, <2>3, <1>3, <1>4, FrameKept
<1>10. ASSUME NEW k \in 1 .. n - 1
       PROVE  /\ active'[k].called => active'[k].vector \notin ErrorCodeVectors
              /\ k = 1 => FromUser(active'[k])
              /\ k > 1 => /\ active'[k].cpu["cs"] = KernelCode /\ active'[k].cpu["ss"] = KernelData
                          /\ Bottom(active'[k]) = Top(active'[k - 1])
  <2>1. active'[k] = active[k] /\ (k > 1 => active'[k - 1] = active[k - 1]) /\ k \in 1 .. n
    BY <1>2, <1>4
  <2> QED
    BY <2>1 DEF IInv, FramesInv
<1>11. ASSUME NEW j \in 1 .. n - 1, NEW k \in 1 .. n - 1, j < k
       PROVE  Top(active'[j]) <= Bottom(active'[k])
  <2>1. active'[k] = active[k] /\ active'[j] = active[j] /\ j \in 1 .. n /\ k \in 1 .. n
    BY <1>2, <1>4
  <2> QED
    BY <2>1, <1>11 DEF IInv, FramesInv
<1>12. FramesInv'
  BY <1>4, <1>9, <1>10, <1>11 DEF FramesInv
<1>13. CpuInv'
  <2>1. {"cs", "ss", "esp"} \subseteq Registers
    BY Names DEF Return
  <2>2. cpu'["cs"] = a.cpu["cs"] /\ cpu'["ss"] = a.cpu["ss"] /\ cpu'["esp"] = a.cpu["esp"]
    BY <2>1, <1>1 DEF a
  <2>3. n \in 1 .. n
    BY <1>2
  <2>4. CASE n = 1
    <3>1. FromUser(a)
      BY <2>3, <2>4, <1>2 DEF IInv, FramesInv
    <3>2. active' = <<>> /\ stack' = <<>>
      BY <3>1, <2>4, <1>4, <1>6, EmptySeq DEF Bottom
    <3> QED
      BY <3>1, <3>2, <2>2 DEF CpuInv, FromUser
  <2>5. CASE n > 1
    <3>1. /\ a.cpu["cs"] = KernelCode /\ a.cpu["ss"] = KernelData
          /\ Bottom(a) = Top(active[n - 1])
      BY <2>3, <2>5, <1>2 DEF IInv, FramesInv
    <3>2. Bottom(a) = a.cpu["esp"]
      BY <3>1 DEF Bottom, FromUser, KernelCode, UserCode
    <3>3. active' # <<>> /\ Len(active') = n - 1 /\ active'[n - 1] = active[n - 1]
      BY <2>5, <1>2, <1>4
    <3>4. boot' = "done"
      BY <1>1 DEF IInv, CpuInv
    <3> QED
      BY <3>1, <3>2, <3>3, <3>4, <2>2, <1>6 DEF CpuInv
  <2>6. n = 1 \/ n > 1
    <3> HIDE DEF n
    <3> QED
      BY <1>2
  <2> QED
    BY <2>4, <2>5, <2>6, Zenon
<1> QED
  BY <1>7, <1>8, <1>12, <1>13 DEF IInv
-----------------------------------------------------------------------------
(* Theorems *)

LEMMA NextKeeps == IInv /\ [Next]_vars => IInv'
<1> SUFFICES ASSUME IInv, [Next]_vars PROVE IInv'
  OBVIOUS
<1>1. CASE gdt_install \/ idt_install \/ isrs_install \/ irq_install
  BY <1>1, BootKeeps
<1>2. CASE ToggleShift
  BY <1>2, ToggleShiftKeeps
<1>3. CASE Compute
  BY <1>3, ComputeKeeps
<1>4. CASE \E v \in Exceptions : Exception(v)
  BY <1>4, EnterKeeps DEF Exception, Exceptions
<1>5. CASE \E v \in Irqs : Interrupt(v)
  BY <1>5, EnterKeeps DEF Interrupt, Irqs
<1>6. CASE Syscall
  <2>1. SyscallVector \in Vectors /\ 0 \in Nat
    BY VectorsAssumption DEF SyscallVector
  <2> QED
    BY <1>6, <2>1, EnterKeeps, Zenon DEF Syscall
<1>7. CASE SyscallHandler
  BY <1>7, SyscallHandlerKeeps
<1>8. CASE FaultHandler
  BY <1>8, FaultHandlerKeeps
<1>9. CASE IrqHandler
  BY <1>9, IrqHandlerKeeps
<1>10. CASE Leave
  BY <1>10, LeaveKeeps
<1>11. CASE UNCHANGED vars
  BY <1>11, StutterKeeps
<1> QED
  BY <1>1, <1>2, <1>3, <1>4, <1>5, <1>6, <1>7, <1>8, <1>9, <1>10, <1>11 DEF Next

LEMMA Invariance == Spec => []IInv
BY InitInv, NextKeeps, PTL DEF Spec

(* Every descriptor has its fields in their widths, registers and stack     *)
(* hold numbers, and no more handlers are active than MaxDepth.             *)
THEOREM TypeCorrect == Spec => []TypeOK
<1>1. IInv => TypeOK
  <2> SUFFICES ASSUME IInv PROVE TypeOK
    OBVIOUS
  <2>1. \A i \in 0 .. 5 : gdt[i] \in Descriptors
    <3>1. 0 \in Nat /\ Word - 1 \in Nat /\ TssBase \in Nat /\ TssBase + TssSize \in Nat
      <4>1. Word >= 1
        BY Sizes DEF Word
      <4> QED
        BY <4>1, Sizes, NumbersAssumption
    <3>2. /\ gdt_set_gate(0, 0, "null", "bytes") \in Descriptors
          /\ gdt_set_gate(0, Word - 1, "code0", "pages") \in Descriptors
          /\ gdt_set_gate(0, Word - 1, "data0", "pages") \in Descriptors
          /\ gdt_set_gate(0, Word - 1, "code3", "pages") \in Descriptors
          /\ gdt_set_gate(0, Word - 1, "data3", "pages") \in Descriptors
          /\ gdt_set_gate(TssBase, TssBase + TssSize, "tss", "bytes") \in Descriptors
      BY <3>1, GateType
    <3> QED
      BY <3>2 DEF IInv, TablesInv, Cleared, Installed
  <2>2. gdt \in [0 .. 5 -> Descriptors]
    BY <2>1 DEF IInv, TablesInv, Cleared, Installed
  <2> QED
    BY <2>2 DEF IInv, TypeInv, TypeOK, Descriptors
<1> QED
  BY <1>1, Invariance, PTL

(* From gdt_install on, whatever keys come, the segments cover all of       *)
(* memory and the task register finds the TSS.                              *)
THEOREM SegmentsCoverMemory == Spec => []SegmentsAreFlat
<1>1. IInv => SegmentsAreFlat
  <2> SUFFICES ASSUME IInv, boot # "gdt_install" PROVE SegmentsAreFlat
    BY DEF SegmentsAreFlat
  <2> QED
    BY InstalledIsFlat DEF IInv, TablesInv
<1> QED
  BY <1>1, Invariance, PTL

(* At any depth of nesting a handler reads from its frame the vector that   *)
(* came and, where there is no error code, the registers of who was         *)
(* interrupted.                                                             *)
THEOREM FramesTellTheTruth == Spec => []FrameTellsTheTruth
<1>1. IInv => FrameTellsTheTruth
  <2> SUFFICES ASSUME IInv, NEW v \in Vectors, Handling({v})
               PROVE  /\ r("int_no") = v
                      /\ v \notin ErrorCodeVectors =>
                           LET was == Last(active).cpu
                           IN  /\ \A f \in Registers \ {"esp", "ss"} : r(f) = was[f]
                               /\ was["cs"] = UserCode => r("useresp") = was["esp"] /\ r("ss") = was["ss"]
    BY DEF FrameTellsTheTruth
  <2> DEFINE a == Last(active)
  <2>1. active # <<>> /\ ~a.called /\ a.vector = v
    BY DEF Handling
  <2>2. a \in Activation /\ Frame(a, stack) /\ \A f : r(f) = At(a, stack, Position(f))
    BY <2>1, Running
  <2> HIDE DEF a
  <2>3. r("int_no") = v
    BY <2>1, <2>2 DEF Frame
  <2>4. ASSUME v \notin ErrorCodeVectors
        PROVE  /\ \A f \in Registers \ {"esp", "ss"} : r(f) = a.cpu[f]
               /\ a.cpu["cs"] = UserCode => r("useresp") = a.cpu["esp"] /\ r("ss") = a.cpu["ss"]
    <3>1. ErrorWords(a) = 0
      BY <2>1, <2>4 DEF ErrorWords
    <3>2. \A f \in Return \cup {"useresp", "ss"} : Position(f) + ErrorWords(a) = Position(f)
      BY <3>1, Positions DEF Return
    <3>3. \A f \in General : r(f) = a.cpu[f]
      BY <2>1, <2>2 DEF Frame, Changed
    <3>4. \A f \in Return : r(f) = a.cpu[f]
      BY <2>2, <3>2 DEF Frame
    <3>5. a.cpu["cs"] = UserCode => r("useresp") = a.cpu["esp"] /\ r("ss") = a.cpu["ss"]
      BY <2>2, <3>2 DEF Frame, FromUser
    <3>6. Registers \ {"esp", "ss"} = General \cup Return
      BY Names DEF Return
    <3> QED
      BY <3>3, <3>4, <3>5, <3>6
  <2> QED
    BY <2>3, <2>4 DEF a
<1> QED
  BY <1>1, Invariance, PTL

(* Who was interrupted goes on where it was, with the registers it had, but *)
(* for the result of a system call.                                         *)
THEOREM InterruptedResume == Spec => ResumesInterrupted
<1>1. IInv /\ [Next]_vars =>
        [Leave =>
           \A g \in Registers :
             \/ cpu'[g] = Last(active).cpu[g]
             \/ g = "eax" /\ Last(active).vector = SyscallVector /\ Last(active).cpu["eax"] < 2]_vars
  BY LeaveFacts DEF Changed
<1> QED
  BY <1>1, Invariance, PTL DEF Spec, ResumesInterrupted
=============================================================================
