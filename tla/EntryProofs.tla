---------------------------- MODULE EntryProofs ----------------------------
(***************************************************************************)
(* Theorems about SystemCalls, and InterruptEntry within it: for stacks of *)
(* every alignment, every set of exceptions and whatever registers the     *)
(* compiler chooses.  A stub is followed instruction by instruction: the   *)
(* invariant says of each place in it which words are on the stack so far, *)
(* and in which registers the values of the interrupted code still are.    *)
(***************************************************************************)
EXTENDS SystemCalls, Lemmas

-----------------------------------------------------------------------------
(* The inductive invariant: types.                                         *)
Machines == [regs : [Registers -> Int], mem : [Words -> Int]]

Typed ==
  /\ machine \in Machines /\ before \in Machines /\ caller \in Machines
  /\ machine.regs["cs"] \in {8, 35}
  /\ at \in Nat /\ vector \in Nat /\ nested \in 0 .. MaxNested /\ next \in Nat
  /\ running \in {"kernel", "jump", "user", "caller", "stub"}
  /\ jump \in JumpOperands /\ operand \in OperandRegisters /\ frame \in FrameWords
  /\ handed # <<>> => running \in {"stub", "caller"}
  /\ at = 0 => report = <<>>

(* Of an exception: its stack, and the words that are pushed, in order.    *)
Aligned(sp) == (sp \div 2) * 2

StackOf(m) == IF Ring(m) = 3 THEN KernelStack ELSE m.regs["rsp"]

Top == Aligned(StackOf(before))

Image(m, number, j) ==
  CASE j = 1 -> m.regs["ss"] [] j = 2 -> m.regs["rsp"] [] j = 3 -> m.regs["rflags"]
    [] j = 4 -> m.regs["cs"] [] j = 5 -> m.regs["rip"]
    [] j = 6 -> IF number \in HasErrorCode THEN ErrorCode ELSE 0
    [] j = 7 -> number
    [] j \in 8 .. 22 -> m.regs[General[j - 7]]

(* The place in the common part of the stub, and what is pushed there.     *)
Ahead(number) == IF number \in WithErrorCode THEN 1 ELSE 2

Place == at - Ahead(vector)

Pushed == IF Place < 16 THEN Place + 6 ELSE 22

Entered ==
  /\ vector \in (0 .. 31) \ {21, 29, 30}
  /\ Place \in -1 .. 19 /\ machine.regs["cs"] = 8
  /\ \A j \in 1 .. Pushed : machine.mem[Top - j] = Image(before, vector, j)
  /\ machine.regs["rsp"] = IF Place = 19 THEN Top - 23 ELSE Top - Pushed
  /\ Place <= 16 => \A reg \in ToSet(General) : machine.regs[reg] = before.regs[reg]
  /\ Place >= 17 => machine.regs["rdi"] = Top - 22
  /\ Place >= 18 => machine.regs["rsi"] = vector
  /\ report # <<>> => Place = 19

(* There is room on the stack for this exception and those that may follow.*)
Depth == 24 + (IF running = "kernel" THEN 25 * (MaxNested - nested) ELSE 0)

Room(sp, n) == (sp - n) .. (sp - 1) \subseteq Words

EntryInv ==
  /\ at # 0 => Entered /\ Room(Top, Depth)
  /\ FrameFaithful

(* Of the kernel's way into a user's code.                                 *)
Jumping ==
  /\ next \in 1 .. 4 /\ machine.regs["cs"] = 8 /\ caller.regs[jump.stack] \in UserStack
  /\ next = 1 => machine.regs[jump.function] = caller.regs[jump.function]
  /\ next <= 2 => machine.regs["rsp"] \in StackPointers
                  /\ machine.regs[jump.stack] = caller.regs[jump.stack]
  /\ next >= 2 => machine.regs["rcx"] = caller.regs[jump.function]
  /\ next >= 3 => machine.regs["rsp"] = caller.regs[jump.stack]
  /\ next >= 4 => machine.regs["r11"] = 514

(* Of a system call.  The registers it gives back are saved below the word *)
(* with the caller's stack pointer.                                        *)
Kept == ToSet(Saved) \ {"r10", operand, IF frame = 0 THEN operand ELSE "rax"}

UserTop == caller.regs["rsp"]

Base == IF operand = "r10" THEN UserTop ELSE UserTop - frame

StillIn(m, regs) == \A reg \in regs \cap Kept : m.regs[reg] = caller.regs[reg]

OnStack(m, n) ==
  /\ m.mem[Base - 3] = UserTop
  /\ \A i \in 1 .. n : Saved[i] \in Kept => m.mem[Base - 3 - i] = caller.regs[Saved[i]]

Popped(n) == {Saved[i] : i \in (14 - n) .. 13}

StubAt(m, k) ==
  /\ k \in 1 .. 37 /\ m.regs["cs"] = 8
  /\ k = 1 => m.regs[operand] = UserTop - frame
  /\ k = 2 => m.regs[operand] = Base
  /\ k \in 1 .. 2 => m.regs["rsp"] = UserTop
  /\ k \in 2 .. 5 => m.regs["r10"] = UserTop
  /\ k \in 3 .. 19 => m.regs["rsp"] = Base - (k - 3)
  /\ k \in 1 .. 19 => StillIn(m, ToSet(Saved))
  /\ k \in 6 .. 19 => OnStack(m, k - 6)
  /\ k \in 20 .. 34 => OnStack(m, 13)
  /\ k = 20 => m.regs["rsp"] = Base - 16
  /\ k \in 21 .. 34 => m.regs["rsp"] = Base - 16 + (k - 21) /\ StillIn(m, Popped(k - 21))
  /\ k >= 34 => StillIn(m, ToSet(Saved))
  /\ k >= 35 => m.regs["rsp"] = UserTop + (k - 35)

Stubbed ==
  /\ StubAt(machine, next) /\ UserTop \in UserStack
  /\ next >= 21 => handed # <<>>

CallInv ==
  at = 0 =>
    /\ running = "kernel" => machine.regs["rsp"] \in StackPointers /\ machine.regs["cs"] = 8
    /\ running = "jump" => Jumping
    /\ running = "user" => EntersUser /\ machine.regs["rsp"] \in UserStack
    /\ running = "caller" => /\ handed = <<>> => machine.regs["rsp"] \in UserStack
                             /\ handed # <<>> => StillIn(machine, ToSet(Saved))
    /\ running \in {"user", "caller"} => machine.regs["cs"] = 35
    /\ running = "stub" => Stubbed

SystemInv == Typed /\ EntryInv /\ CallInv

-----------------------------------------------------------------------------
(* The names of registers.                                                 *)

LEMMA GeneralNames ==
  /\ Len(General) = 15 /\ DOMAIN General = 1 .. 15
  /\ ToSet(General) =
       {"rax", "rbx", "rcx", "rdx", "rsi", "rdi", "rbp", "r8", "r9",
        "r10", "r11", "r12", "r13", "r14", "r15"}
  /\ \A i \in 1 .. 15 : General[i] \in ToSet(General)
<1>1. Len(General) = 15 /\ DOMAIN General = 1 .. 15
  BY DEF General
<1>2. ToSet(General) = {General[i] : i \in 1 .. 15}
  BY <1>1 DEF ToSet
<1>3. \A i \in 1 .. 15 :
        \/ i = 1 \/ i = 2 \/ i = 3 \/ i = 4 \/ i = 5 \/ i = 6 \/ i = 7 \/ i = 8
        \/ i = 9 \/ i = 10 \/ i = 11 \/ i = 12 \/ i = 13 \/ i = 14 \/ i = 15
  OBVIOUS
<1>4. /\ General[1] = "rax" /\ General[2] = "rbx" /\ General[3] = "rcx" /\ General[4] = "rdx"
      /\ General[5] = "rsi" /\ General[6] = "rdi" /\ General[7] = "rbp" /\ General[8] = "r8"
      /\ General[9] = "r9" /\ General[10] = "r10" /\ General[11] = "r11"
      /\ General[12] = "r12" /\ General[13] = "r13" /\ General[14] = "r14"
      /\ General[15] = "r15"
  BY DEF General
<1>5. ToSet(General) =
       {"rax", "rbx", "rcx", "rdx", "rsi", "rdi", "rbp", "r8", "r9",
        "r10", "r11", "r12", "r13", "r14", "r15"}
  BY <1>2, <1>3, <1>4
<1> QED
  BY <1>1, <1>2, <1>5

LEMMA SavedNames ==
  /\ Len(Saved) = 13 /\ DOMAIN Saved = 1 .. 13
  /\ ToSet(Saved) = {Saved[i] : i \in 1 .. 13}
  /\ ToSet(Saved) = ToSet(General) \ {"rcx", "r11"}
  /\ \A i, j \in 1 .. 13 : Saved[i] = Saved[j] => i = j
<1>1. Len(Saved) = 13 /\ DOMAIN Saved = 1 .. 13
  BY DEF Saved
<1>2. ToSet(Saved) = {Saved[i] : i \in 1 .. 13}
  BY <1>1 DEF ToSet
<1>3. \A i \in 1 .. 13 :
        \/ i = 1 \/ i = 2 \/ i = 3 \/ i = 4 \/ i = 5 \/ i = 6 \/ i = 7 \/ i = 8
        \/ i = 9 \/ i = 10 \/ i = 11 \/ i = 12 \/ i = 13
  OBVIOUS
<1>4. /\ Saved[1] = "rax" /\ Saved[2] = "rdi" /\ Saved[3] = "rsi" /\ Saved[4] = "rdx"
      /\ Saved[5] = "r10" /\ Saved[6] = "r8" /\ Saved[7] = "r9" /\ Saved[8] = "rbx"
      /\ Saved[9] = "rbp" /\ Saved[10] = "r12" /\ Saved[11] = "r13"
      /\ Saved[12] = "r14" /\ Saved[13] = "r15"
  BY DEF Saved
<1>5. ToSet(Saved) = {"rax", "rdi", "rsi", "rdx", "r10", "r8", "r9", "rbx", "rbp",
                      "r12", "r13", "r14", "r15"}
  BY <1>2, <1>3, <1>4
<1>6. ToSet(Saved) = ToSet(General) \ {"rcx", "r11"}
  BY <1>5, GeneralNames
<1>7. \A i, j \in 1 .. 13 : Saved[i] = Saved[j] => i = j
  BY <1>3, <1>4
<1> QED
  BY <1>1, <1>2, <1>6, <1>7

LEMMA RegisterNames ==
  /\ Registers = ToSet(General) \cup {"rsp", "rip", "rflags", "cs", "ss"}
  /\ {"rsp", "rip", "rflags", "cs", "ss"} \cap ToSet(General) = {}
  /\ {"rax", "rcx", "rdi", "rsi", "rdx", "r10", "r11"} \subseteq ToSet(General)
  /\ ToSet(Saved) \subseteq ToSet(General)
BY GeneralNames, SavedNames DEF Registers

-----------------------------------------------------------------------------
(* The instructions.                                                       *)

(* A machine n that is m with another value in a register.                 *)
IsSet(n, m, reg, value) ==
  /\ n \in Machines /\ n.mem = m.mem /\ n.regs[reg] = value
  /\ \A other \in Registers \ {reg} : n.regs[other] = m.regs[other]

LEMMA SetIs ==
  ASSUME NEW m \in Machines, NEW reg \in Registers, NEW value \in Int
  PROVE  IsSet(Set(m, reg, value), m, reg, value)
BY DEF Set, Machines, IsSet

LEMMA PushIs ==
  ASSUME NEW m \in Machines, NEW value \in Int, m.regs["rsp"] - 1 \in Words
  PROVE  /\ PushValue(m, value) \in Machines
         /\ PushValue(m, value).regs["rsp"] = m.regs["rsp"] - 1
         /\ \A reg \in Registers \ {"rsp"} : PushValue(m, value).regs[reg] = m.regs[reg]
         /\ PushValue(m, value).mem[m.regs["rsp"] - 1] = value
         /\ \A word \in Words \ {m.regs["rsp"] - 1} : PushValue(m, value).mem[word] = m.mem[word]
<1>1. "rsp" \in Registers /\ m.regs["rsp"] \in Int
  BY RegisterNames DEF Machines
<1> DEFINE sp == m.regs["rsp"] - 1
           regs == [m.regs EXCEPT !["rsp"] = sp]
           mem == [m.mem EXCEPT ![sp] = value]
<1>2. PushValue(m, value) = [regs |-> regs, mem |-> mem]
  <2>1. m = [regs |-> m.regs, mem |-> m.mem]
    BY DEF Machines
  <2>2. PushValue(m, value) =
          [[regs |-> m.regs, mem |-> m.mem] EXCEPT !.regs["rsp"] = sp, !.mem[sp] = value]
    BY <2>1, Zenon DEF PushValue
  <2> QED
    BY <2>2
<1>3. /\ regs \in [Registers -> Int] /\ regs["rsp"] = sp
      /\ \A reg \in Registers \ {"rsp"} : regs[reg] = m.regs[reg]
  BY <1>1 DEF Machines
<1>4. /\ mem \in [Words -> Int] /\ mem[sp] = value
      /\ \A word \in Words \ {sp} : mem[word] = m.mem[word]
  BY DEF Machines
<1> HIDE DEF regs, mem
<1>5. PushValue(m, value) \in Machines
  BY <1>2, <1>3, <1>4 DEF Machines
<1> QED
  BY <1>2, <1>3, <1>4, <1>5

(* A machine n that is m with a value pushed at the address sp.            *)
IsPush(n, m, value, sp) ==
  /\ n \in Machines /\ n.regs["rsp"] = sp
  /\ \A other \in Registers \ {"rsp"} : n.regs[other] = m.regs[other]
  /\ n.mem[sp] = value /\ \A word \in Words \ {sp} : n.mem[word] = m.mem[word]

LEMMA PushedAt ==
  ASSUME NEW m \in Machines, NEW value \in Int, NEW sp \in Words, m.regs["rsp"] - 1 = sp
  PROVE  IsPush(PushValue(m, value), m, value, sp)
<1> DEFINE n == PushValue(m, value)
           at0 == m.regs["rsp"] - 1
<1>1. IsPush(n, m, value, at0)
  BY PushIs DEF IsPush
<1>2. at0 = sp
  OBVIOUS
<1> HIDE DEF n, at0
<1>3. IsPush(n, m, value, sp)
  BY <1>1, <1>2
<1> QED
  BY <1>3 DEF n

LEMMA PopIs ==
  ASSUME NEW m \in Machines, NEW reg \in Registers, m.regs["rsp"] \in Words
  PROVE  /\ PopRegister(m, reg) \in Machines
         /\ PopRegister(m, reg).mem = m.mem
         /\ PopRegister(m, reg).regs[reg] = m.mem[m.regs["rsp"]]
         /\ reg # "rsp" => PopRegister(m, reg).regs["rsp"] = m.regs["rsp"] + 1
         /\ \A other \in Registers \ {reg, "rsp"} : PopRegister(m, reg).regs[other] = m.regs[other]
<1>1. "rsp" \in Registers /\ m.regs["rsp"] \in Int /\ m.regs["rsp"] + 1 \in Int
      /\ m.mem[m.regs["rsp"]] \in Int
  BY RegisterNames DEF Machines
<1> DEFINE up == Set(m, "rsp", m.regs["rsp"] + 1)
<1>2. /\ up \in Machines /\ up.mem = m.mem /\ up.regs["rsp"] = m.regs["rsp"] + 1
      /\ \A other \in Registers \ {"rsp"} : up.regs[other] = m.regs[other]
  <2>1. IsSet(up, m, "rsp", m.regs["rsp"] + 1)
    BY <1>1, SetIs
  <2> QED
    BY <2>1 DEF IsSet
<1>3. PopRegister(m, reg) = Set(up, reg, m.mem[m.regs["rsp"]])
  BY DEF PopRegister
<1> HIDE DEF up
<1>4. /\ PopRegister(m, reg) \in Machines /\ PopRegister(m, reg).mem = up.mem
      /\ PopRegister(m, reg).regs[reg] = m.mem[m.regs["rsp"]]
      /\ \A other \in Registers \ {reg} : PopRegister(m, reg).regs[other] = up.regs[other]
  <2> DEFINE n == PopRegister(m, reg)
             value == m.mem[m.regs["rsp"]]
  <2>1. n = Set(up, reg, value) /\ value \in Int
    BY <1>1, <1>3
  <2> HIDE DEF n, value
  <2>2. /\ n \in Machines /\ n.mem = up.mem /\ n.regs[reg] = value
        /\ \A other \in Registers \ {reg} : n.regs[other] = up.regs[other]
    <3>1. IsSet(n, up, reg, value)
      BY <1>2, <2>1, SetIs
    <3> QED
      BY <3>1 DEF IsSet
  <2> QED
    BY <2>2 DEF n, value
<1> QED
  BY <1>1, <1>2, <1>4

LEMMA PlainIs ==
  ASSUME NEW m, NEW reg, NEW from, NEW value
  PROVE  /\ Execute(m, Push(reg)) = PushValue(m, m.regs[reg]) /\ Plain(Push(reg))
         /\ Execute(m, PushConstant(value)) = PushValue(m, value) /\ Plain(PushConstant(value))
         /\ Execute(m, Pop(reg)) = PopRegister(m, reg) /\ Plain(Pop(reg))
         /\ Execute(m, Move(reg, from)) = Set(m, reg, m.regs[from]) /\ Plain(Move(reg, from))
         /\ Execute(m, MoveConstant(reg, value)) = Set(m, reg, value)
         /\ Plain(MoveConstant(reg, value))
         /\ Execute(m, Load(reg, value)) = Set(m, reg, Word(m, value)) /\ Plain(Load(reg, value))
         /\ ~ Plain(Call) /\ ~ Plain(Sysretq) /\ Call # Sysretq
         /\ Push(reg) # Call /\ Pop(reg) # Call /\ PushConstant(value) # Call
         /\ Move(reg, from) # Call /\ MoveConstant(reg, value) # Call /\ Load(reg, value) # Call
BY DEF Execute, Plain, Push, PushConstant, Pop, Move, MoveConstant, Load, Call, Sysretq

LEMMA MoveDoes ==
  ASSUME NEW m, NEW reg, NEW from
  PROVE  Execute(m, Move(reg, from)) = Set(m, reg, m.regs[from]) /\ Plain(Move(reg, from))
BY PlainIs

LEMMA PushDoes ==
  ASSUME NEW m, NEW reg
  PROVE  Execute(m, Push(reg)) = PushValue(m, m.regs[reg]) /\ Plain(Push(reg))
BY PlainIs

LEMMA LoadDoes ==
  ASSUME NEW m, NEW reg, NEW words
  PROVE  Execute(m, Load(reg, words)) = Set(m, reg, Word(m, words)) /\ Plain(Load(reg, words))
<1>1. Execute(m, Load(reg, words)) = Set(m, reg, Word(m, words))
  BY PlainIs
<1>2. Plain(Load(reg, words))
  BY PlainIs
<1> QED
  BY <1>1, <1>2

LEMMA MoveConstantDoes ==
  ASSUME NEW m, NEW reg, NEW value
  PROVE  /\ Execute(m, MoveConstant(reg, value)) = Set(m, reg, value)
         /\ Plain(MoveConstant(reg, value))
BY PlainIs

-----------------------------------------------------------------------------
(* An exception: what the processor does.                                  *)

Vectors == (0 .. 31) \ {21, 29, 30}

LEMMA AlignedIs ==
  ASSUME NEW sp \in Nat
  PROVE  Aligned(sp) \in Int /\ Aligned(sp) % 2 = 0 /\ Aligned(sp) \in {sp, sp - 1}
<1> DEFINE q == sp \div 2
<1>1. q \in Nat /\ sp = 2 * q + (sp % 2) /\ sp % 2 \in 0 .. 1
  BY Division
<1> HIDE DEF q
<1>2. q * 2 \in Int /\ (q * 2) % 2 = 0 /\ q * 2 \in {sp, sp - 1}
  BY <1>1
<1> QED
  BY <1>2 DEF Aligned, q

LEMMA RoomIs ==
  ASSUME NEW sp \in Int, NEW n \in Nat, Room(sp, n)
  PROVE  \A j \in 1 .. n : sp - j \in Words
BY DEF Room

LEMMA RingIs ==
  ASSUME NEW m \in Machines, m.regs["cs"] \in {8, 35}
  PROVE  Ring(m) = 3 <=> m.regs["cs"] = 35
BY DEF Ring

LEMMA InRingIs ==
  ASSUME NEW m \in Machines
  PROVE  /\ InRing0(m) \in Machines /\ InRing0(m).mem = m.mem /\ InRing0(m).regs["cs"] = 8
         /\ InRing3(m) \in Machines /\ InRing3(m).mem = m.mem /\ InRing3(m).regs["cs"] = 35
         /\ \A reg \in Registers \ {"cs", "ss"} :
              InRing0(m).regs[reg] = m.regs[reg] /\ InRing3(m).regs[reg] = m.regs[reg]
<1>1. "cs" \in Registers /\ "ss" \in Registers /\ "cs" # "ss"
  BY RegisterNames
<1>2. ASSUME NEW cs \in Int, NEW ss \in Int
      PROVE  LET n == Set(Set(m, "cs", cs), "ss", ss) IN
             /\ n \in Machines /\ n.mem = m.mem /\ n.regs["cs"] = cs
             /\ \A reg \in Registers \ {"cs", "ss"} : n.regs[reg] = m.regs[reg]
  <2> DEFINE half == Set(m, "cs", cs)
             n == Set(half, "ss", ss)
  <2>1. /\ half \in Machines /\ half.mem = m.mem /\ half.regs["cs"] = cs
        /\ \A reg \in Registers \ {"cs"} : half.regs[reg] = m.regs[reg]
    <3>1. IsSet(half, m, "cs", cs)
      BY <1>1, SetIs
    <3> QED
      BY <3>1 DEF IsSet
  <2> HIDE DEF half
  <2>2. /\ n \in Machines /\ n.mem = half.mem
        /\ \A reg \in Registers \ {"ss"} : n.regs[reg] = half.regs[reg]
    <3>1. IsSet(n, half, "ss", ss)
      BY <1>1, <2>1, SetIs
    <3> QED
      BY <3>1 DEF IsSet
  <2> HIDE DEF n
  <2>3. /\ n \in Machines /\ n.mem = m.mem /\ n.regs["cs"] = cs
        /\ \A reg \in Registers \ {"cs", "ss"} : n.regs[reg] = m.regs[reg]
    BY <1>1, <2>1, <2>2
  <2> QED
    BY <2>3 DEF n, half
<1> QED
  BY <1>2 DEF InRing0, InRing3

LEMMA StateIs ==
  ASSUME NEW m \in Machines, NEW regs \in [Registers -> Int], Room(m.regs["rsp"], 5)
  PROVE  LET sp == m.regs["rsp"]
             n == PushState(m, regs)
         IN  /\ n \in Machines /\ n.regs["rsp"] = sp - 5
             /\ \A reg \in Registers \ {"rsp"} : n.regs[reg] = m.regs[reg]
             /\ n.mem[sp - 1] = regs["ss"] /\ n.mem[sp - 2] = regs["rsp"]
             /\ n.mem[sp - 3] = regs["rflags"] /\ n.mem[sp - 4] = regs["cs"]
             /\ n.mem[sp - 5] = regs["rip"]
<1> DEFINE sp == m.regs["rsp"]
           m1 == PushValue(m, regs["ss"])
           m2 == PushValue(m1, regs["rsp"])
           m3 == PushValue(m2, regs["rflags"])
           m4 == PushValue(m3, regs["cs"])
           m5 == PushValue(m4, regs["rip"])
<1>1. /\ sp \in Int /\ "rsp" \in Registers
      /\ {regs["ss"], regs["rsp"], regs["rflags"], regs["cs"], regs["rip"]} \subseteq Int
  BY RegisterNames DEF Machines
<1>2. {sp - 1, sp - 2, sp - 3, sp - 4, sp - 5} \subseteq Words
  BY <1>1, RoomIs
<1> HIDE DEF sp
<1>3. /\ m1 \in Machines /\ m1.regs["rsp"] = sp - 1
      /\ \A reg \in Registers \ {"rsp"} : m1.regs[reg] = m.regs[reg]
      /\ m1.mem[sp - 1] = regs["ss"]
  BY <1>1, <1>2, PushIs DEF sp
<1> HIDE DEF m1
<1>4. /\ m2 \in Machines /\ m2.regs["rsp"] = sp - 2
      /\ \A reg \in Registers \ {"rsp"} : m2.regs[reg] = m1.regs[reg]
      /\ m2.mem[sp - 2] = regs["rsp"]
      /\ \A word \in Words \ {sp - 2} : m2.mem[word] = m1.mem[word]
  <2>1. m1.regs["rsp"] - 1 = sp - 2
    BY <1>1, <1>3
  <2> QED
    BY <1>1, <1>2, <1>3, <2>1, PushIs
<1> HIDE DEF m2
<1>5. /\ m3 \in Machines /\ m3.regs["rsp"] = sp - 3
      /\ \A reg \in Registers \ {"rsp"} : m3.regs[reg] = m2.regs[reg]
      /\ m3.mem[sp - 3] = regs["rflags"]
      /\ \A word \in Words \ {sp - 3} : m3.mem[word] = m2.mem[word]
  <2>1. m2.regs["rsp"] - 1 = sp - 3
    BY <1>1, <1>4
  <2> QED
    BY <1>1, <1>2, <1>4, <2>1, PushIs
<1> HIDE DEF m3
<1>6. /\ m4 \in Machines /\ m4.regs["rsp"] = sp - 4
      /\ \A reg \in Registers \ {"rsp"} : m4.regs[reg] = m3.regs[reg]
      /\ m4.mem[sp - 4] = regs["cs"]
      /\ \A word \in Words \ {sp - 4} : m4.mem[word] = m3.mem[word]
  <2>1. m3.regs["rsp"] - 1 = sp - 4
    BY <1>1, <1>5
  <2> QED
    BY <1>1, <1>2, <1>5, <2>1, PushIs
<1> HIDE DEF m4
<1>7. /\ m5 \in Machines /\ m5.regs["rsp"] = sp - 5
      /\ \A reg \in Registers \ {"rsp"} : m5.regs[reg] = m4.regs[reg]
      /\ m5.mem[sp - 5] = regs["rip"]
      /\ \A word \in Words \ {sp - 5} : m5.mem[word] = m4.mem[word]
  <2>1. m4.regs["rsp"] - 1 = sp - 5
    BY <1>1, <1>6
  <2> QED
    BY <1>1, <1>2, <1>6, <2>1, PushIs
<1> HIDE DEF m5
<1>8. \A reg \in Registers \ {"rsp"} : m5.regs[reg] = m.regs[reg]
  BY <1>3, <1>4, <1>5, <1>6, <1>7
<1>9. /\ m5.mem[sp - 1] = regs["ss"] /\ m5.mem[sp - 2] = regs["rsp"]
      /\ m5.mem[sp - 3] = regs["rflags"] /\ m5.mem[sp - 4] = regs["cs"]
  BY <1>1, <1>2, <1>3, <1>4, <1>5, <1>6, <1>7
<1>10. PushState(m, regs) = m5
  BY DEF PushState, m1, m2, m3, m4, m5
<1> QED
  BY <1>7, <1>8, <1>9, <1>10 DEF sp

(* The image of a machine, place by place.                                 *)
LEMMA ImageAt ==
  ASSUME NEW m, NEW number
  PROVE  /\ Image(m, number, 1) = m.regs["ss"] /\ Image(m, number, 2) = m.regs["rsp"]
         /\ Image(m, number, 3) = m.regs["rflags"] /\ Image(m, number, 4) = m.regs["cs"]
         /\ Image(m, number, 5) = m.regs["rip"]
         /\ Image(m, number, 6) = IF number \in HasErrorCode THEN ErrorCode ELSE 0
         /\ Image(m, number, 7) = number
         /\ \A j \in 8 .. 22 : Image(m, number, j) = m.regs[General[j - 7]]
BY DEF Image

LEMMA ImageType ==
  ASSUME NEW m \in Machines, NEW number \in Nat, NEW j \in 1 .. 22
  PROVE  Image(m, number, j) \in Int
<1>1. \A reg \in Registers : m.regs[reg] \in Int
  BY DEF Machines
<1>2. CASE j \in 8 .. 22
  <2>1. j - 7 \in 1 .. 15
    BY <1>2
  <2>2. General[j - 7] \in Registers
    BY <2>1, GeneralNames, RegisterNames
  <2> QED
    BY <1>1, <1>2, <2>2, ImageAt
<1>3. CASE j \notin 8 .. 22
  <2>1. j \in {1, 2, 3, 4, 5, 6, 7}
    BY <1>3
  <2> QED
    BY <1>1, <2>1, RegisterNames, ImageAt DEF ErrorCode
<1> QED
  BY <1>2, <1>3

LEMMA NestingLeft ==
  ASSUME NEW n \in 0 .. MaxNested
  PROVE  25 * (MaxNested - n) \in Nat
BY EntryAssumption

LEMMA ExceptionEnters ==
  ASSUME Typed, NEW number \in Vectors, Exception(number), running' = running,
         StackOf(machine) \in Nat, nested' \in 0 .. MaxNested,
         Room(Aligned(StackOf(machine)), Depth')
  PROVE  /\ machine' \in Machines /\ before' = machine /\ machine'.regs["cs"] = 8
         /\ EntryInv' /\ at' = 1 /\ vector' = number /\ report' = <<>>
<1> DEFINE top     == Aligned(StackOf(machine))
           aligned == Set(machine, "rsp", top)
           framed  == PushState(aligned, machine.regs)
           pushed  == IF Ring(machine) = 3 THEN InRing0(framed) ELSE framed
<1>1. top \in Int /\ "rsp" \in Registers /\ "cs" \in Registers /\ "rsp" \notin {"cs", "ss"}
  BY AlignedIs, RegisterNames
<1>2. /\ machine \in Machines /\ machine.regs \in [Registers -> Int]
      /\ machine.regs["cs"] \in {8, 35}
  BY DEF Typed, Machines
<1>3. Depth' \in Nat /\ Depth' >= 24 /\ \A j \in 1 .. 24 : top - j \in Words
  <2>1. Depth' \in Nat /\ Depth' >= 24
    BY NestingLeft DEF Depth
  <2>2. \A j \in 1 .. Depth' : top - j \in Words
    BY <1>1, <2>1, RoomIs
  <2> QED
    BY <2>1, <2>2
<1>4. /\ at' = 1 /\ vector' = number /\ before' = machine /\ report' = <<>>
      /\ machine' = IF number \in HasErrorCode THEN PushValue(pushed, ErrorCode) ELSE pushed
  BY DEF Exception, StackOf, Aligned
<1> HIDE DEF top
<1>5. /\ aligned \in Machines /\ aligned.regs["rsp"] = top
      /\ \A reg \in Registers \ {"rsp"} : aligned.regs[reg] = machine.regs[reg]
  <2>1. machine \in Machines /\ top \in Int /\ "rsp" \in Registers
    BY <1>1, <1>2
  <2> QED
    <3>1. IsSet(aligned, machine, "rsp", top)
      BY <2>1, SetIs
    <3> QED
      BY <3>1 DEF IsSet
<1> HIDE DEF aligned
<1>6. /\ framed \in Machines /\ framed.regs["rsp"] = top - 5
      /\ \A reg \in Registers \ {"rsp"} : framed.regs[reg] = aligned.regs[reg]
      /\ framed.mem[top - 1] = machine.regs["ss"] /\ framed.mem[top - 2] = machine.regs["rsp"]
      /\ framed.mem[top - 3] = machine.regs["rflags"]
      /\ framed.mem[top - 4] = machine.regs["cs"]
      /\ framed.mem[top - 5] = machine.regs["rip"]
  <2>1. Room(aligned.regs["rsp"], 5)
    <3>1. \A word \in (top - 5) .. (top - 1) : top - word \in 1 .. 24 /\ top - (top - word) = word
      BY <1>1
    <3>2. (top - 5) .. (top - 1) \subseteq Words
      BY <1>3, <3>1
    <3> QED
      BY <1>5, <3>2 DEF Room
  <2> QED
    BY <1>2, <1>5, <2>1, StateIs
<1> HIDE DEF framed
<1>7. /\ pushed \in Machines /\ pushed.regs["rsp"] = top - 5 /\ pushed.mem = framed.mem
      /\ pushed.regs["cs"] = 8
      /\ \A reg \in ToSet(General) : pushed.regs[reg] = machine.regs[reg]
  <2>1. CASE Ring(machine) = 3
    BY <1>1, <1>5, <1>6, <2>1, InRingIs, RegisterNames
  <2>2. CASE Ring(machine) # 3
    <3>1. machine.regs["cs"] = 8
      BY <1>2, <2>2, RingIs
    <3> QED
      BY <1>1, <1>5, <1>6, <2>2, <3>1, RegisterNames
  <2> QED
    BY <2>1, <2>2
<1> HIDE DEF pushed
<1>8. /\ machine' \in Machines /\ machine'.regs["cs"] = 8
      /\ \A reg \in ToSet(General) : machine'.regs[reg] = machine.regs[reg]
      /\ machine'.regs["rsp"] = IF number \in HasErrorCode THEN top - 6 ELSE top - 5
      /\ number \in HasErrorCode => machine'.mem[top - 6] = ErrorCode
      /\ \A j \in 1 .. 5 : machine'.mem[top - j] = framed.mem[top - j]
  <2>1. CASE number \in HasErrorCode
    <3>1. machine' = PushValue(pushed, ErrorCode) /\ ErrorCode \in Int
      BY <1>4, <2>1 DEF ErrorCode
    <3>2. pushed.regs["rsp"] - 1 = top - 6 /\ top - 6 \in Words
      BY <1>1, <1>3, <1>7
    <3>3. \A j \in 1 .. 5 : top - j \in Words \ {top - 6}
      BY <1>1, <1>3
    <3> QED
      BY <1>7, <2>1, <3>1, <3>2, <3>3, PushIs, RegisterNames
  <2>2. CASE number \notin HasErrorCode
    BY <1>4, <1>7, <2>2
  <2> QED
    BY <2>1, <2>2
<1>9. Top' = top
  BY <1>4 DEF Top, StackOf, Ring, top
<1>10. number \in HasErrorCode <=> number \in WithErrorCode
  BY DEF HasErrorCode, WithErrorCode, Vectors
<1>11. Place' = 1 - Ahead(number) /\ Ahead(number) \in {1, 2}
       /\ (number \in HasErrorCode <=> Ahead(number) = 1)
  BY <1>4, <1>10 DEF Place, Ahead
<1>12. Pushed' = 7 - Ahead(number)
  BY <1>11 DEF Pushed
<1>13. \A j \in 1 .. Pushed' : machine'.mem[Top' - j] = Image(before', vector', j)
  <2> TAKE j \in 1 .. Pushed'
  <2>1. \/ j \in {1, 2, 3, 4, 5}
        \/ j = 6 /\ number \in HasErrorCode
    BY <1>11, <1>12
  <2>2. CASE j \in {1, 2, 3, 4, 5}
    <3>1. machine'.mem[top - j] = framed.mem[top - j]
      BY <1>8, <2>2
    <3>2. \/ j = 1 /\ framed.mem[top - j] = machine.regs["ss"]
          \/ j = 2 /\ framed.mem[top - j] = machine.regs["rsp"]
          \/ j = 3 /\ framed.mem[top - j] = machine.regs["rflags"]
          \/ j = 4 /\ framed.mem[top - j] = machine.regs["cs"]
          \/ j = 5 /\ framed.mem[top - j] = machine.regs["rip"]
      BY <1>6, <2>2
    <3>3. framed.mem[top - j] = Image(machine, number, j)
      BY <3>2, ImageAt
    <3> QED
      BY <1>4, <1>9, <3>1, <3>3
  <2>3. CASE j = 6 /\ number \in HasErrorCode
    BY <1>4, <1>8, <1>9, <2>3, ImageAt
  <2> QED
    BY <2>1, <2>2, <2>3
<1>14. Entered'
  BY <1>1, <1>4, <1>8, <1>9, <1>11, <1>12, <1>13 DEF Entered, Vectors
<1>15. EntryInv'
  BY <1>4, <1>9, <1>14 DEF EntryInv, FrameFaithful, top
<1> QED
  BY <1>4, <1>8, <1>15

-----------------------------------------------------------------------------
(* The stub, instruction by instruction.                                   *)

LEMMA StubIs ==
  ASSUME NEW number
  PROVE  /\ DOMAIN Stub(number) = 1 .. (Ahead(number) + 18)
         /\ \A i \in 1 .. (Ahead(number) + 18) :
              LET k == i - Ahead(number) IN
              /\ k = -1 => Stub(number)[i] = PushConstant(0)
              /\ k = 0 => Stub(number)[i] = PushConstant(number)
              /\ k \in 1 .. 15 => Stub(number)[i] = Push(General[k])
              /\ k = 16 => Stub(number)[i] = Move("rdi", "rsp")
              /\ k = 17 => Stub(number)[i] = Load("rsi", 15)
              /\ k = 18 => Stub(number)[i] = Call
<1> DEFINE pushes == Pushes(General)
           tail == <<Move("rdi", "rsp"), Load("rsi", 15), Call>>
           T == {Push(reg) : reg \in ToSet(General)} \cup {tail[i] : i \in 1 .. 3}
                \cup {PushConstant(0), PushConstant(number)}
           rest == pushes \o tail
           prologue == Prologue(number)
<1>1. pushes = [i \in 1 .. 15 |-> Push(General[i])]
  BY GeneralNames DEF Pushes
<1>2. pushes \in Seq(T) /\ Len(pushes) = 15 /\ \A i \in 1 .. 15 : pushes[i] = Push(General[i])
  <2>1. \A i \in 1 .. 15 : Push(General[i]) \in T
    BY GeneralNames
  <2> HIDE DEF T, pushes
  <2> QED
    BY <1>1, <2>1
<1>3. tail \in Seq(T) /\ Len(tail) = 3 /\ tail[1] = Move("rdi", "rsp")
      /\ tail[2] = Load("rsi", 15) /\ tail[3] = Call
  <2>1. tail[1] \in T /\ tail[2] \in T /\ tail[3] \in T
    OBVIOUS
  <2> HIDE DEF T
  <2> QED
    BY <2>1
<1>4. /\ prologue \in Seq(T) /\ Len(prologue) = Ahead(number) /\ Ahead(number) \in {1, 2}
      /\ prologue[Ahead(number)] = PushConstant(number)
      /\ Ahead(number) = 2 => prologue[1] = PushConstant(0)
  <2>1. PushConstant(0) \in T /\ PushConstant(number) \in T
    OBVIOUS
  <2> HIDE DEF T
  <2> QED
    BY <2>1 DEF Prologue, Ahead
<1> HIDE DEF pushes, tail, T, prologue
<1>5. /\ rest \in Seq(T) /\ Len(rest) = 18
      /\ \A i \in 1 .. 15 : rest[i] = pushes[i]
      /\ rest[16] = tail[1] /\ rest[17] = tail[2] /\ rest[18] = tail[3]
  <2>1. /\ rest \in Seq(T) /\ Len(rest) = Len(pushes) + Len(tail)
        /\ \A i \in 1 .. Len(pushes) : rest[i] = pushes[i]
        /\ \A i \in 1 .. Len(tail) : rest[Len(pushes) + i] = tail[i]
    <3>1. pushes \in Seq(T) /\ tail \in Seq(T)
      BY <1>2, <1>3
    <3> QED
      BY <3>1, Joined
  <2> HIDE DEF rest
  <2> QED
    BY <1>2, <1>3, <2>1
<1> HIDE DEF rest
<1>6. Stub(number) = prologue \o rest
  BY DEF Stub, isr_common_stub, prologue, rest, pushes, tail
<1>7. /\ DOMAIN Stub(number) = 1 .. (Ahead(number) + 18)
      /\ \A i \in 1 .. Ahead(number) : Stub(number)[i] = prologue[i]
      /\ \A i \in 1 .. 18 : Stub(number)[i + Ahead(number)] = rest[i]
  <2> DEFINE whole == prologue \o rest
  <2>1. /\ Len(whole) = Len(prologue) + Len(rest) /\ DOMAIN whole = 1 .. Len(whole)
        /\ \A i \in 1 .. Len(prologue) : whole[i] = prologue[i]
        /\ \A i \in 1 .. Len(rest) : whole[Len(prologue) + i] = rest[i]
    <3>1. prologue \in Seq(T) /\ rest \in Seq(T)
      BY <1>4, <1>5
    <3> QED
      BY <3>1, Joined
  <2> HIDE DEF whole
  <2>2. Stub(number) = whole
    BY <1>6 DEF whole
  <2> QED
    <3>1. \A i \in 1 .. 18 : Ahead(number) + i = i + Ahead(number)
      BY <1>4
    <3>2. Len(prologue) = Ahead(number) /\ Len(rest) = 18
      BY <1>4, <1>5
    <3>3. \A i \in 1 .. 18 : whole[i + Ahead(number)] = rest[i]
      BY <2>1, <3>1, <3>2
    <3>4. \A i \in 1 .. Ahead(number) : whole[i] = prologue[i]
      BY <2>1, <3>2
    <3>5. DOMAIN whole = 1 .. (Ahead(number) + 18)
      BY <2>1, <3>2
    <3> QED
      BY <2>2, <3>3, <3>4, <3>5
<1>8. ASSUME NEW i \in 1 .. (Ahead(number) + 18), i - Ahead(number) >= 1
      PROVE  i - Ahead(number) \in 1 .. 18 /\ Stub(number)[i] = rest[i - Ahead(number)]
  <2>1. i - Ahead(number) \in 1 .. 18 /\ i - Ahead(number) + Ahead(number) = i
    <3> DEFINE ahead == Ahead(number)
    <3>1. ahead = 1 \/ ahead = 2
      BY <1>4
    <3> HIDE DEF ahead
    <3>2. i \in 1 .. (ahead + 18) /\ i - ahead >= 1
      BY <1>8 DEF ahead
    <3>3. i - ahead \in 1 .. 18 /\ i - ahead + ahead = i
      BY <3>1, <3>2
    <3> QED
      BY <3>3 DEF ahead
  <2> QED
    BY <1>7, <2>1
<1>9. ASSUME NEW i \in 1 .. (Ahead(number) + 18)
      PROVE  /\ i - Ahead(number) = 0 => Stub(number)[i] = PushConstant(number)
             /\ i - Ahead(number) = -1 => Stub(number)[i] = PushConstant(0)
  <2>1. i - Ahead(number) = 0 => i = Ahead(number) /\ i \in 1 .. Ahead(number)
    BY <1>4
  <2>2. i - Ahead(number) = -1 => i = 1 /\ Ahead(number) = 2
    BY <1>4
  <2>3. \A j \in 1 .. Ahead(number) : Stub(number)[j] = prologue[j]
    BY <1>7
  <2>4. i - Ahead(number) = 0 => Stub(number)[i] = PushConstant(number)
    BY <1>4, <2>1, <2>3
  <2>5. i - Ahead(number) = -1 => Stub(number)[i] = PushConstant(0)
    <3>1. HAVE i - Ahead(number) = -1
    <3>2. i = 1 /\ Ahead(number) = 2 /\ 1 \in 1 .. Ahead(number)
      BY <2>2, <3>1
    <3>3. Stub(number)[1] = prologue[1] /\ prologue[1] = PushConstant(0)
      BY <1>4, <2>3, <3>2
    <3> QED
      BY <3>2, <3>3
  <2> QED
    BY <2>4, <2>5
<1> DEFINE In(i) == i \in 1 .. (Ahead(number) + 18)
           At(i) == i - Ahead(number)
<1> HIDE DEF In, At
<1>10. /\ \A i : In(i) /\ At(i) >= 1 => At(i) \in 1 .. 18 /\ Stub(number)[i] = rest[At(i)]
       /\ \A i : In(i) => /\ At(i) = 0 => Stub(number)[i] = PushConstant(number)
                          /\ At(i) = -1 => Stub(number)[i] = PushConstant(0)
  <2>1. ASSUME NEW i, In(i), At(i) >= 1
        PROVE  At(i) \in 1 .. 18 /\ Stub(number)[i] = rest[At(i)]
    BY <1>8, <2>1 DEF In, At
  <2>2. ASSUME NEW i, In(i)
        PROVE  /\ At(i) = 0 => Stub(number)[i] = PushConstant(number)
               /\ At(i) = -1 => Stub(number)[i] = PushConstant(0)
    BY <1>9, <2>2 DEF In, At
  <2> QED
    BY <2>1, <2>2
<1>11. /\ \A k \in 1 .. 15 : rest[k] = Push(General[k])
       /\ rest[16] = Move("rdi", "rsp") /\ rest[17] = Load("rsi", 15) /\ rest[18] = Call
  BY <1>2, <1>3, <1>5
<1>12. ASSUME NEW i, NEW k, In(i), k = At(i)
       PROVE  /\ k \in 1 .. 15 => Stub(number)[i] = Push(General[k])
              /\ k = 16 => Stub(number)[i] = Move("rdi", "rsp")
              /\ k = 17 => Stub(number)[i] = Load("rsi", 15)
              /\ k = 18 => Stub(number)[i] = Call
              /\ k = 0 => Stub(number)[i] = PushConstant(number)
              /\ k = -1 => Stub(number)[i] = PushConstant(0)
  <2>1. k \in 1 .. 18 => At(i) >= 1
    BY <1>12
  <2>2. k \in 1 .. 18 => Stub(number)[i] = rest[k]
    BY <1>10, <1>12, <2>1
  <2>3. k \in 1 .. 15 => Stub(number)[i] = Push(General[k])
    <3>1. k \in 1 .. 15 => k \in 1 .. 18
      OBVIOUS
    <3> QED
      BY <1>11, <2>2, <3>1
  <2>4. /\ k = 16 => Stub(number)[i] = Move("rdi", "rsp")
        /\ k = 17 => Stub(number)[i] = Load("rsi", 15)
        /\ k = 18 => Stub(number)[i] = Call
    <3>1. 16 \in 1 .. 18 /\ 17 \in 1 .. 18 /\ 18 \in 1 .. 18
      OBVIOUS
    <3> QED
      BY <1>11, <2>2, <3>1
  <2>5. /\ k = 0 => Stub(number)[i] = PushConstant(number)
        /\ k = -1 => Stub(number)[i] = PushConstant(0)
    <3>1. /\ At(i) = 0 => Stub(number)[i] = PushConstant(number)
          /\ At(i) = -1 => Stub(number)[i] = PushConstant(0)
      BY <1>10, <1>12
    <3> QED
      BY <1>12, <3>1
  <2> QED
    BY <2>3, <2>4, <2>5
<1> QED
  BY <1>7, <1>12 DEF In, At

LEMMA TopIs ==
  ASSUME Typed
  PROVE  \E q \in Int : Top = q * 2
<1> DEFINE s == StackOf(before)
           q == s \div 2
<1>1. s \in Int
  <2>1. "rsp" \in Registers /\ before.regs["rsp"] \in Int /\ KernelStack \in Int
    BY RegisterNames, EntryAssumption DEF Typed, Machines
  <2> QED
    BY <2>1 DEF StackOf
<1> HIDE DEF s
<1>2. q \in Int
  BY <1>1
<1> HIDE DEF q
<1>3. Top = q * 2
  BY DEF Top, Aligned, q, s
<1> QED
  BY <1>2, <1>3

LEMMA PlaceIs ==
  ASSUME Typed, EntryInv, at \in DOMAIN Stub(vector)
  PROVE  /\ at # 0 /\ Entered /\ Room(Top, Depth) /\ Depth \in Nat /\ Depth >= 24
         /\ Top \in Int /\ Place \in -1 .. 18 /\ Ahead(vector) \in {1, 2}
         /\ at \in 1 .. (Ahead(vector) + 18) /\ at - Ahead(vector) = Place
         /\ \A j \in 1 .. 24 : Top - j \in Words
<1>1. at \in 1 .. (Ahead(vector) + 18) /\ Ahead(vector) \in {1, 2}
  BY StubIs DEF Ahead
<1>2. Entered /\ Room(Top, Depth)
  BY <1>1 DEF EntryInv
<1>3. Place \in -1 .. 18 /\ at - Ahead(vector) = Place
  <2> DEFINE ahead == Ahead(vector)
  <2>1. at \in 1 .. (ahead + 18) /\ ahead \in {1, 2} /\ Place = at - ahead
    BY <1>1 DEF Place
  <2> HIDE DEF ahead
  <2>2. Place \in -1 .. 18 /\ at - ahead = Place
    BY <2>1
  <2> QED
    BY <2>2 DEF ahead
<1>4. Depth \in Nat /\ Depth >= 24
  BY NestingLeft DEF Depth, Typed
<1>5. Top \in Int
  BY TopIs
<1>6. \A j \in 1 .. 24 : Top - j \in Words
  BY <1>2, <1>4, <1>5, RoomIs
<1> QED
  BY <1>1, <1>2, <1>3, <1>4, <1>5, <1>6

(* One push of the stub.                                                   *)
LEMMA PushKeeps ==
  ASSUME Typed, EntryInv, at \in DOMAIN Stub(vector), Place <= 15,
         machine' = PushValue(machine, Image(before, vector, Place + 7)),
         at' = at + 1, UNCHANGED <<vector, before, nested, report, running>>
  PROVE  machine' \in Machines /\ machine'.regs["cs"] = 8 /\ EntryInv'
<1>1. /\ Entered /\ Room(Top, Depth) /\ Top \in Int /\ Place \in -1 .. 15
      /\ \A j \in 1 .. 24 : Top - j \in Words
  BY PlaceIs
<1>2. Top' = Top /\ Depth' = Depth /\ Place' = Place + 1 /\ at' # 0
  <2>1. at \in Nat /\ Ahead(vector) \in {1, 2}
    BY DEF Typed, Ahead
  <2> QED
    BY <2>1 DEF Top, StackOf, Depth, Place
<1>3. Pushed = Place + 6 /\ Pushed' = Place + 7
  BY <1>1, <1>2 DEF Pushed
<1>4. /\ machine \in Machines /\ machine.regs["rsp"] = Top - Pushed /\ machine.regs["cs"] = 8
      /\ \A j \in 1 .. Pushed : machine.mem[Top - j] = Image(before, vector, j)
      /\ \A reg \in ToSet(General) : machine.regs[reg] = before.regs[reg]
      /\ vector \in (0 .. 31) \ {21, 29, 30}
      /\ report = <<>>
  <2>1. Place # 19 /\ Place <= 16
    BY <1>1
  <2>2. machine \in Machines
    BY DEF Typed
  <2>3. machine.regs["rsp"] = Top - Pushed
    BY <1>1, <2>1 DEF Entered
  <2>4. machine.regs["cs"] = 8 /\ vector \in (0 .. 31) \ {21, 29, 30}
    BY <1>1 DEF Entered
  <2>5. \A j \in 1 .. Pushed : machine.mem[Top - j] = Image(before, vector, j)
    BY <1>1 DEF Entered
  <2>6. \A reg \in ToSet(General) : machine.regs[reg] = before.regs[reg]
    BY <1>1, <2>1 DEF Entered
  <2>7. report = <<>>
    BY <1>1, <2>1 DEF Entered
  <2> QED
    BY <2>2, <2>3, <2>4, <2>5, <2>6, <2>7
<1> DEFINE word == Top - (Place + 7)
           value == Image(before, vector, Place + 7)
<1>5. machine.regs["rsp"] - 1 = word /\ word \in Words
  <2>1. machine.regs["rsp"] = Top - (Place + 6)
    BY <1>3, <1>4
  <2>2. Top \in Int /\ Place + 7 \in 1 .. 24
    BY <1>1
  <2>3. Top - (Place + 7) \in Words
    BY <1>1, <2>2
  <2> QED
    BY <1>1, <2>1, <2>3
<1>6. value \in Int
  <2>1. before \in Machines /\ vector \in Nat /\ Place + 7 \in 1 .. 22
    BY <1>1 DEF Typed
  <2> QED
    BY <2>1, ImageType
<1> HIDE DEF value
<1>7. /\ machine' \in Machines /\ machine'.regs["rsp"] = word
      /\ \A reg \in Registers \ {"rsp"} : machine'.regs[reg] = machine.regs[reg]
      /\ machine'.mem[word] = value
      /\ \A other \in Words \ {word} : machine'.mem[other] = machine.mem[other]
  <2>1. machine' = PushValue(machine, value)
    BY DEF value
  <2> HIDE DEF word
  <2> QED
    BY <1>4, <1>5, <1>6, <2>1, PushIs
<1>8. \A j \in 1 .. Pushed' : machine'.mem[Top - j] = Image(before, vector, j)
  <2> TAKE j \in 1 .. Pushed'
  <2>1. CASE j = Place + 7
    BY <1>7, <2>1 DEF value
  <2>2. CASE j # Place + 7
    <3>1. j \in 1 .. Pushed /\ Top - j # word /\ Top - j \in Words
      BY <1>1, <1>3, <2>2
    <3> QED
      BY <1>4, <1>7, <3>1
  <2> QED
    BY <2>1, <2>2
<1>9. /\ machine'.regs["cs"] = 8
      /\ \A reg \in ToSet(General) : machine'.regs[reg] = before.regs[reg]
  BY <1>4, <1>7, RegisterNames
<1>10. Entered'
  <2>1. Place' \in -1 .. 19 /\ Place' <= 16
    BY <1>1, <1>2
  <2>2. report' = <<>>
    BY <1>4
  <2> QED
    BY <1>2, <1>3, <1>4, <1>7, <1>8, <1>9, <2>1, <2>2 DEF Entered
<1> QED
  BY <1>1, <1>2, <1>4, <1>7, <1>9, <1>10 DEF EntryInv, FrameFaithful

(* One of the moves before the call.                                       *)
LEMMA MoveKeeps ==
  ASSUME Typed, EntryInv, at \in DOMAIN Stub(vector),
         NEW reg, NEW value, machine' = Set(machine, reg, value),
         \/ Place = 16 /\ reg = "rdi" /\ value = machine.regs["rsp"]
         \/ Place = 17 /\ reg = "rsi" /\ value = Word(machine, 15),
         at' = at + 1, UNCHANGED <<vector, before, nested, report, running>>
  PROVE  machine' \in Machines /\ machine'.regs["cs"] = 8 /\ EntryInv'
<1>1. /\ Entered /\ Room(Top, Depth) /\ Top \in Int /\ Place \in {16, 17}
      /\ \A j \in 1 .. 24 : Top - j \in Words
  BY PlaceIs
<1>2. Top' = Top /\ Depth' = Depth /\ Place' = Place + 1 /\ at' # 0
  <2>1. at \in Nat /\ Ahead(vector) \in {1, 2}
    BY DEF Typed, Ahead
  <2> QED
    BY <2>1 DEF Top, StackOf, Depth, Place
<1>3. Pushed = 22 /\ Pushed' = 22
  BY <1>1, <1>2 DEF Pushed
<1>4. /\ machine \in Machines /\ machine.regs["rsp"] = Top - 22 /\ machine.regs["cs"] = 8
      /\ \A j \in 1 .. 22 : machine.mem[Top - j] = Image(before, vector, j)
      /\ Place >= 17 => machine.regs["rdi"] = Top - 22
      /\ vector \in (0 .. 31) \ {21, 29, 30}
      /\ report = <<>>
  <2>1. Place # 19
    BY <1>1
  <2>2. machine \in Machines
    BY DEF Typed
  <2>3. machine.regs["rsp"] = Top - 22
    BY <1>1, <1>3, <2>1 DEF Entered
  <2>4. machine.regs["cs"] = 8 /\ vector \in (0 .. 31) \ {21, 29, 30}
    BY <1>1 DEF Entered
  <2>5. \A j \in 1 .. 22 : machine.mem[Top - j] = Image(before, vector, j)
    BY <1>1, <1>3 DEF Entered
  <2>6. Place >= 17 => machine.regs["rdi"] = Top - 22
    BY <1>1 DEF Entered
  <2>7. report = <<>>
    BY <1>1, <2>1 DEF Entered
  <2> QED
    BY <2>2, <2>3, <2>4, <2>5, <2>6, <2>7
<1>5. Place = 17 => value = vector
  <2>1. machine.regs["rsp"] + 15 = Top - 7
    <3>1. Top - 22 + 15 = Top - 7
      BY <1>1
    <3> QED
      BY <1>4, <3>1
  <2>2. machine.mem[Top - 7] = vector
    <3>1. Image(before, vector, 7) = vector
      BY ImageAt
    <3>2. machine.mem[Top - 7] = Image(before, vector, 7)
      BY <1>4
    <3> QED
      BY <3>1, <3>2
  <2>3. Word(machine, 15) = vector
    BY <2>1, <2>2 DEF Word
  <2> QED
    BY <2>3
<1>6. reg \in {"rdi", "rsi"} /\ value \in Int
  <2>1. Top - 22 \in Int /\ vector \in Int
    BY <1>1, <1>4
  <2> QED
    BY <1>4, <1>5, <2>1
<1>7. /\ machine' \in Machines /\ machine'.mem = machine.mem /\ machine'.regs[reg] = value
      /\ \A other \in Registers \ {reg} : machine'.regs[other] = machine.regs[other]
  <2>1. reg \in Registers
    BY <1>6, RegisterNames
  <2>2. machine \in Machines /\ value \in Int
    BY <1>4, <1>6
  <2> QED
    <3>1. IsSet(machine', machine, reg, value)
      BY <2>1, <2>2, SetIs
    <3> QED
      BY <3>1 DEF IsSet
<1>8. machine'.regs["cs"] = 8 /\ machine'.regs["rsp"] = Top - 22
  <2>1. {"cs", "rsp"} \subseteq Registers \ {reg}
    BY <1>6, RegisterNames
  <2> QED
    BY <1>4, <1>7, <2>1
<1>9. machine'.regs["rdi"] = Top - 22 /\ (Place = 17 => machine'.regs["rsi"] = vector)
  <2>1. "rdi" \in Registers
    BY RegisterNames
  <2>2. CASE Place = 16
    <3>1. reg = "rdi" /\ value = Top - 22
      BY <1>4, <2>2
    <3> QED
      BY <1>7, <2>2, <3>1
  <2>3. CASE Place = 17
    <3>1. reg = "rsi" /\ value = vector /\ machine.regs["rdi"] = Top - 22
      BY <1>4, <1>5, <2>3
    <3> QED
      BY <1>7, <2>1, <3>1
  <2> QED
    BY <1>1, <2>2, <2>3
<1>10. Entered'
  <2>1. Place' \in {17, 18} /\ (Place' = 18 => Place = 17)
    BY <1>1, <1>2
  <2>2. report' = <<>> /\ vector' \in (0 .. 31) \ {21, 29, 30}
    BY <1>4
  <2>3. \A j \in 1 .. Pushed' : machine'.mem[Top' - j] = Image(before', vector', j)
    <3>1. \A j \in 1 .. 22 : machine'.mem[Top - j] = Image(before, vector, j)
      BY <1>4, <1>7
    <3>2. Pushed' = 22 /\ Top' = Top
      BY <1>2, <1>3
    <3>3. before' = before /\ vector' = vector
      OBVIOUS
    <3> QED
      BY <3>1, <3>2, <3>3
  <2>4. machine'.regs["cs"] = 8 /\ machine'.regs["rsp"] = Top' - Pushed'
    BY <1>2, <1>3, <1>8
  <2>5. machine'.regs["rdi"] = Top' - 22
    BY <1>2, <1>9
  <2>6. Place' >= 18 => machine'.regs["rsi"] = vector'
    BY <1>9, <2>1
  <2> QED
    BY <2>1, <2>2, <2>3, <2>4, <2>5, <2>6 DEF Entered
<1> QED
  BY <1>1, <1>2, <1>4, <1>7, <1>8, <1>10 DEF EntryInv, FrameFaithful

LEMMA EntryStepKeeps ==
  ASSUME Typed, EntryInv, EntryStep, running' = running
  PROVE  machine' \in Machines /\ machine'.regs["cs"] = 8 /\ EntryInv'
<1> DEFINE instr == Stub(vector)[at]
<1>1. /\ at \in DOMAIN Stub(vector) /\ Plain(instr) /\ machine' = Execute(machine, instr)
      /\ at' = at + 1 /\ UNCHANGED <<vector, before, nested, report, running>>
  BY DEF EntryStep
<1>2. /\ at # 0 /\ Entered /\ Place \in -1 .. 18 /\ at \in 1 .. (Ahead(vector) + 18)
      /\ at - Ahead(vector) = Place
  BY <1>1, PlaceIs
<1>3. /\ Place = -1 => instr = PushConstant(0)
      /\ Place = 0 => instr = PushConstant(vector)
      /\ Place \in 1 .. 15 => instr = Push(General[Place])
      /\ Place = 16 => instr = Move("rdi", "rsp")
      /\ Place = 17 => instr = Load("rsi", 15)
      /\ Place = 18 => instr = Call
  BY <1>2, StubIs
<1> HIDE DEF instr
<1>4. CASE Place \in -1 .. 15
  <2>1. machine' = PushValue(machine, Image(before, vector, Place + 7))
    <3>1. CASE Place = -1
      <4>1. vector \notin WithErrorCode /\ vector \in (0 .. 31) \ {21, 29, 30}
        BY <1>2, <3>1 DEF Ahead, Entered, Place, Typed
      <4>2. Image(before, vector, 6) = 0
        BY <4>1, ImageAt DEF HasErrorCode, WithErrorCode
      <4>3. machine' = PushValue(machine, 0)
        BY <1>1, <1>3, <3>1, PlainIs
      <4> QED
        BY <3>1, <4>2, <4>3
    <3>2. CASE Place = 0
      <4>1. machine' = PushValue(machine, vector)
        BY <1>1, <1>3, <3>2, PlainIs
      <4> QED
        BY <3>2, <4>1, ImageAt
    <3>3. CASE Place \in 1 .. 15
      <4>1. machine' = PushValue(machine, machine.regs[General[Place]])
        <5>1. instr = Push(General[Place])
          BY <1>3, <3>3
        <5>2. Execute(machine, instr) = PushValue(machine, machine.regs[General[Place]])
          BY <5>1, PushDoes
        <5> QED
          BY <1>1, <5>2
      <4>2. machine.regs[General[Place]] = before.regs[General[Place]]
        <5>1. General[Place] \in ToSet(General) /\ Place <= 16
          BY <3>3, GeneralNames
        <5>2. \A reg \in ToSet(General) : machine.regs[reg] = before.regs[reg]
          BY <1>2, <5>1 DEF Entered
        <5> QED
          BY <5>1, <5>2
      <4> DEFINE j == Place + 7
      <4>3. j \in 8 .. 22 /\ j - 7 = Place
        BY <3>3
      <4> HIDE DEF j
      <4>4. Image(before, vector, j) = before.regs[General[Place]]
        BY <4>3, ImageAt
      <4>5. machine' = PushValue(machine, Image(before, vector, j))
        BY <4>1, <4>2, <4>4
      <4> QED
        BY <4>5 DEF j
    <3> QED
      BY <1>4, <3>1, <3>2, <3>3
  <2> QED
    BY <1>1, <1>4, <2>1, PushKeeps
<1>5. CASE Place = 16
  <2>1. machine' = Set(machine, "rdi", machine.regs["rsp"])
    <3>1. instr = Move("rdi", "rsp")
      BY <1>3, <1>5
    <3>2. Execute(machine, instr) = Set(machine, "rdi", machine.regs["rsp"])
      BY <3>1, MoveDoes
    <3> QED
      BY <1>1, <3>2
  <2> QED
    BY <1>1, <1>5, <2>1, MoveKeeps
<1>6. CASE Place = 17
  <2>1. machine' = Set(machine, "rsi", Word(machine, 15))
    <3>1. instr = Load("rsi", 15)
      BY <1>3, <1>6
    <3>2. Execute(machine, instr) = Set(machine, "rsi", Word(machine, 15))
      BY <3>1, LoadDoes
    <3> QED
      BY <1>1, <3>2
  <2> QED
    BY <1>1, <1>6, <2>1, MoveKeeps
<1>7. Place # 18
  BY <1>1, <1>3, PlainIs
<1> QED
  BY <1>2, <1>4, <1>5, <1>6, <1>7

(* The fields of the frame are those of the image, from the last to the    *)
(* first.                                                                  *)
LEMMA FieldNames ==
  /\ DOMAIN InterruptFrame = 1 .. 22
  /\ \A i \in 1 .. 15 : InterruptFrame[i] = General[16 - i]
  /\ InterruptFrame[16] = "interrupt_number" /\ InterruptFrame[17] = "error_code"
  /\ InterruptFrame[18] = "rip" /\ InterruptFrame[19] = "cs" /\ InterruptFrame[20] = "rflags"
  /\ InterruptFrame[21] = "rsp" /\ InterruptFrame[22] = "ss"
  /\ \A i, j \in 1 .. 22 : InterruptFrame[i] = InterruptFrame[j] => i = j
<1> DEFINE above == <<"interrupt_number", "error_code", "rip", "cs", "rflags", "rsp", "ss">>
           below == Reverse(General)
           T == ToSet(General) \cup ToSet(above)
<1>1. below = [i \in 1 .. 15 |-> General[16 - i]]
  BY GeneralNames DEF Reverse
<1>2. /\ General[1] = "rax" /\ General[2] = "rbx" /\ General[3] = "rcx" /\ General[4] = "rdx"
      /\ General[5] = "rsi" /\ General[6] = "rdi" /\ General[7] = "rbp" /\ General[8] = "r8"
      /\ General[9] = "r9" /\ General[10] = "r10" /\ General[11] = "r11"
      /\ General[12] = "r12" /\ General[13] = "r13" /\ General[14] = "r14"
      /\ General[15] = "r15"
  BY DEF General
<1>3. below \in Seq(T) /\ Len(below) = 15 /\ \A i \in 1 .. 15 : below[i] = General[16 - i]
  <2>1. \A i \in 1 .. 15 : 16 - i \in 1 .. 15
    OBVIOUS
  <2>2. \A i \in 1 .. 15 : General[16 - i] \in T
    BY <2>1, GeneralNames
  <2> HIDE DEF below, T
  <2> QED
    BY <1>1, <2>2
<1>4. /\ above \in Seq(T) /\ Len(above) = 7 /\ above[1] = "interrupt_number"
      /\ above[2] = "error_code" /\ above[3] = "rip" /\ above[4] = "cs" /\ above[5] = "rflags"
      /\ above[6] = "rsp" /\ above[7] = "ss"
  <2>1. Len(above) = 7 /\ DOMAIN above = 1 .. 7
    OBVIOUS
  <2>2. above[1] = "interrupt_number" /\ above[2] = "error_code" /\ above[3] = "rip"
    OBVIOUS
  <2>3. above[4] = "cs" /\ above[5] = "rflags" /\ above[6] = "rsp" /\ above[7] = "ss"
    OBVIOUS
  <2>4. \A i \in 1 .. 7 : above[i] \in T
    BY <2>1 DEF ToSet
  <2>5. above \in Seq(T)
    <3> HIDE DEF T
    <3> QED
      BY <2>4
  <2> QED
    BY <2>1, <2>2, <2>3, <2>5
<1>5. InterruptFrame = below \o above
  BY DEF InterruptFrame
<1> HIDE DEF below, above, T
<1>6. /\ Len(below \o above) = Len(below) + Len(above)
      /\ DOMAIN (below \o above) = 1 .. Len(below \o above)
      /\ \A i \in 1 .. Len(below) : (below \o above)[i] = below[i]
      /\ \A i \in 1 .. Len(above) : (below \o above)[Len(below) + i] = above[i]
  <2>1. below \in Seq(T) /\ above \in Seq(T)
    BY <1>3, <1>4
  <2> QED
    BY <2>1, Joined
<1>7. /\ DOMAIN InterruptFrame = 1 .. 22
      /\ \A i \in 1 .. 15 : InterruptFrame[i] = General[16 - i]
      /\ \A i \in 1 .. 7 : InterruptFrame[15 + i] = above[i]
  <2>1. Len(below) = 15 /\ Len(above) = 7 /\ \A i \in 1 .. 15 : below[i] = General[16 - i]
    BY <1>3, <1>4
  <2> DEFINE whole == below \o above
  <2>2. /\ Len(whole) = Len(below) + Len(above) /\ DOMAIN whole = 1 .. Len(whole)
        /\ \A i \in 1 .. Len(below) : whole[i] = below[i]
        /\ \A i \in 1 .. Len(above) : whole[Len(below) + i] = above[i]
    BY <1>6
  <2>3. InterruptFrame = whole
    BY <1>5
  <2> HIDE DEF whole
  <2> QED
    BY <2>1, <2>2, <2>3
<1>8. /\ InterruptFrame[16] = "interrupt_number" /\ InterruptFrame[17] = "error_code"
      /\ InterruptFrame[18] = "rip" /\ InterruptFrame[19] = "cs" /\ InterruptFrame[20] = "rflags"
      /\ InterruptFrame[21] = "rsp" /\ InterruptFrame[22] = "ss"
  <2>1. /\ 15 + 1 = 16 /\ 15 + 2 = 17 /\ 15 + 3 = 18 /\ 15 + 4 = 19 /\ 15 + 5 = 20
        /\ 15 + 6 = 21 /\ 15 + 7 = 22
    OBVIOUS
  <2> QED
    BY <1>4, <1>7, <2>1
<1>9. /\ InterruptFrame[1] = "r15" /\ InterruptFrame[2] = "r14"
      /\ InterruptFrame[3] = "r13" /\ InterruptFrame[4] = "r12"
      /\ InterruptFrame[5] = "r11" /\ InterruptFrame[6] = "r10"
      /\ InterruptFrame[7] = "r9" /\ InterruptFrame[8] = "r8"
      /\ InterruptFrame[9] = "rbp" /\ InterruptFrame[10] = "rdi"
      /\ InterruptFrame[11] = "rsi" /\ InterruptFrame[12] = "rdx"
      /\ InterruptFrame[13] = "rcx" /\ InterruptFrame[14] = "rbx"
      /\ InterruptFrame[15] = "rax" /\ InterruptFrame[16] = "interrupt_number"
      /\ InterruptFrame[17] = "error_code" /\ InterruptFrame[18] = "rip"
      /\ InterruptFrame[19] = "cs" /\ InterruptFrame[20] = "rflags"
      /\ InterruptFrame[21] = "rsp" /\ InterruptFrame[22] = "ss"
  BY <1>2, <1>7, <1>8
<1>10. \A i \in 1 .. 22 :
        \/ i = 1 \/ i = 2 \/ i = 3 \/ i = 4 \/ i = 5 \/ i = 6 \/ i = 7 \/ i = 8
        \/ i = 9 \/ i = 10 \/ i = 11 \/ i = 12 \/ i = 13 \/ i = 14 \/ i = 15
        \/ i = 16 \/ i = 17 \/ i = 18 \/ i = 19 \/ i = 20 \/ i = 21 \/ i = 22
  OBVIOUS
<1>11. \A i, j \in 1 .. 22 : InterruptFrame[i] = InterruptFrame[j] => i = j
  BY <1>9, <1>10
<1> QED
  BY <1>7, <1>8, <1>11

LEMMA FrameIs ==
  ASSUME NEW m, NEW pointer \in Int, NEW i \in 1 .. 22
  PROVE  Frame(m, pointer)[InterruptFrame[i]] = m.mem[pointer + i - 1]
<1>1. InterruptFrame[i] \in ToSet(InterruptFrame)
  BY FieldNames DEF ToSet
<1>2. (CHOOSE j \in DOMAIN InterruptFrame : InterruptFrame[j] = InterruptFrame[i]) = i
  BY FieldNames
<1> QED
  BY <1>1, <1>2 DEF Frame

(* What is printed, when the image is on the stack.                        *)
LEMMA PrintedIs ==
  ASSUME NEW m \in Machines, NEW old \in Machines, NEW number \in Nat, NEW top \in Int,
         \A j \in 1 .. 22 : m.mem[top - j] = Image(old, number, j)
  PROVE  LET printed == Frame(m, top - 22) IN
         /\ \A reg \in Registers : printed[reg] = old.regs[reg]
         /\ printed["interrupt_number"] = number
         /\ printed["error_code"] = IF number \in HasErrorCode THEN ErrorCode ELSE 0
<1> DEFINE printed == Frame(m, top - 22)
<1>1. ASSUME NEW i \in 1 .. 22 PROVE printed[InterruptFrame[i]] = Image(old, number, 23 - i)
  <2>1. top - 22 \in Int /\ top - 22 + i - 1 = top - (23 - i) /\ 23 - i \in 1 .. 22
    OBVIOUS
  <2>2. printed[InterruptFrame[i]] = m.mem[top - 22 + i - 1]
    BY <2>1, FrameIs
  <2>3. m.mem[top - (23 - i)] = Image(old, number, 23 - i)
    BY <2>1
  <2> QED
    BY <2>1, <2>2, <2>3
<1> HIDE DEF printed
<1>2. /\ printed["interrupt_number"] = Image(old, number, 7)
      /\ printed["error_code"] = Image(old, number, 6)
      /\ printed["rip"] = Image(old, number, 5) /\ printed["cs"] = Image(old, number, 4)
      /\ printed["rflags"] = Image(old, number, 3) /\ printed["rsp"] = Image(old, number, 2)
      /\ printed["ss"] = Image(old, number, 1)
  <2>1. /\ 23 - 16 = 7 /\ 23 - 17 = 6 /\ 23 - 18 = 5 /\ 23 - 19 = 4 /\ 23 - 20 = 3
        /\ 23 - 21 = 2 /\ 23 - 22 = 1 /\ {16, 17, 18, 19, 20, 21, 22} \subseteq 1 .. 22
    OBVIOUS
  <2> QED
    BY <1>1, <2>1, FieldNames
<1>3. ASSUME NEW k \in 1 .. 15 PROVE printed[General[k]] = old.regs[General[k]]
  <2>1. 16 - k \in 1 .. 15 /\ 16 - k \in 1 .. 22 /\ 16 - (16 - k) = k /\ 23 - (16 - k) = k + 7
        /\ k + 7 \in 8 .. 22 /\ k + 7 - 7 = k
    OBVIOUS
  <2>2. InterruptFrame[16 - k] = General[k]
    BY <2>1, FieldNames
  <2>3. printed[General[k]] = Image(old, number, k + 7)
    BY <1>1, <2>1, <2>2
  <2> QED
    BY <2>1, <2>3, ImageAt
<1>4. \A reg \in ToSet(General) : printed[reg] = old.regs[reg]
  <2>1. \A reg \in ToSet(General) : \E k \in 1 .. 15 : reg = General[k]
    BY GeneralNames DEF ToSet
  <2> QED
    BY <1>3, <2>1
<1> QED
  BY <1>2, <1>4, ImageAt, RegisterNames DEF printed

LEMMA HandlerKeeps ==
  ASSUME Typed, EntryInv, isr_handler, running' = running
  PROVE  machine' \in Machines /\ machine'.regs["cs"] = 8 /\ EntryInv' /\ at' # 0
<1>1. /\ at \in DOMAIN Stub(vector) /\ Stub(vector)[at] = Call
      /\ machine' = PushValue(machine, 0) /\ at' = at + 1
      /\ report' = <<[frame |-> Frame(machine, machine.regs["rdi"]),
                      number |-> machine.regs["rsi"]]>>
      /\ UNCHANGED <<vector, before, nested, running>>
  BY DEF isr_handler
<1>2. /\ Entered /\ Room(Top, Depth) /\ Top \in Int /\ Place \in -1 .. 18
      /\ at \in 1 .. (Ahead(vector) + 18) /\ at - Ahead(vector) = Place
      /\ \A j \in 1 .. 24 : Top - j \in Words
  BY <1>1, PlaceIs
<1>3. Place = 18
  <2>1. /\ Place = -1 => Stub(vector)[at] = PushConstant(0)
        /\ Place = 0 => Stub(vector)[at] = PushConstant(vector)
        /\ Place \in 1 .. 15 => Stub(vector)[at] = Push(General[Place])
        /\ Place = 16 => Stub(vector)[at] = Move("rdi", "rsp")
        /\ Place = 17 => Stub(vector)[at] = Load("rsi", 15)
    BY <1>2, StubIs
  <2>2. Place \notin {-1, 0, 16, 17} /\ Place \notin 1 .. 15
    BY <1>1, <2>1, PlainIs
  <2> QED
    BY <1>2, <2>2
<1>4. Top' = Top /\ Depth' = Depth /\ Place' = 19 /\ at' # 0
  <2>1. at \in Nat /\ Ahead(vector) \in {1, 2}
    BY DEF Typed, Ahead
  <2> QED
    BY <1>1, <1>3, <2>1 DEF Top, StackOf, Depth, Place
<1>5. Pushed = 22 /\ Pushed' = 22
  BY <1>3, <1>4 DEF Pushed
<1>6. /\ machine \in Machines /\ machine.regs["rsp"] = Top - 22 /\ machine.regs["cs"] = 8
      /\ before \in Machines
      /\ \A j \in 1 .. 22 : machine.mem[Top - j] = Image(before, vector, j)
      /\ machine.regs["rdi"] = Top - 22 /\ machine.regs["rsi"] = vector
      /\ vector \in (0 .. 31) \ {21, 29, 30}
  BY <1>2, <1>3, <1>5 DEF Entered, Typed
<1>7. /\ machine' \in Machines /\ machine'.regs["rsp"] = Top - 23
      /\ \A reg \in Registers \ {"rsp"} : machine'.regs[reg] = machine.regs[reg]
      /\ \A word \in Words \ {Top - 23} : machine'.mem[word] = machine.mem[word]
  <2>1. machine.regs["rsp"] - 1 = Top - 23 /\ Top - 23 \in Words
    BY <1>2, <1>6
  <2> QED
    BY <1>1, <1>6, <2>1, PushIs
<1>8. \A j \in 1 .. 22 : machine'.mem[Top - j] = Image(before, vector, j)
  <2>1. \A j \in 1 .. 22 : Top - j \in Words \ {Top - 23}
    BY <1>2
  <2> QED
    BY <1>6, <1>7, <2>1
<1>9. Entered'
  BY <1>1, <1>4, <1>5, <1>6, <1>7, <1>8, RegisterNames DEF Entered
<1>10. FrameFaithful'
  <2> DEFINE printed == Frame(machine, Top - 22)
  <2>1. /\ \A reg \in Registers : printed[reg] = before.regs[reg]
        /\ printed["interrupt_number"] = vector
        /\ printed["error_code"] = IF vector \in HasErrorCode THEN ErrorCode ELSE 0
    <3>1. vector \in Nat
      BY DEF Typed
    <3> QED
      BY <1>2, <1>6, <3>1, PrintedIs
  <2>2. report' = <<[frame |-> printed, number |-> vector]>>
    BY <1>1, <1>6
  <2> HIDE DEF printed
  <2>3. report'[1].frame = printed /\ report'[1].number = vector
    BY <2>2
  <2> QED
    BY <1>1, <2>1, <2>3 DEF FrameFaithful
<1> QED
  BY <1>2, <1>4, <1>6, <1>7, <1>9, <1>10, RegisterNames DEF EntryInv

LEMMA AlignedThere ==
  ASSUME Typed, EntryInv
  PROVE  StackAligned
<1> SUFFICES ASSUME report # <<>> PROVE machine.regs["rsp"] % 2 = 1
  BY DEF StackAligned
<1>1. at # 0 /\ Place = 19 /\ machine.regs["rsp"] = Top - 23
  BY DEF Typed, EntryInv, Entered
<1>2. PICK q \in Int : Top = q * 2
  BY TopIs
<1>3. (q * 2 - 23) % 2 = 1
  OBVIOUS
<1> QED
  BY <1>1, <1>2, <1>3

-----------------------------------------------------------------------------
(* Wherever an exception comes, there is room.                             *)

LEMMA RoomBelow ==
  ASSUME NEW sp \in Int, NEW n \in Nat, NEW low \in Int, NEW high \in Int,
         low <= sp - 1 - n, high >= sp - 1, low .. high \subseteq Words
  PROVE  sp \in Nat /\ Room(Aligned(sp), n)
<1>1. sp - 1 \in low .. high
  OBVIOUS
<1>2. sp - 1 \in Nat
  BY <1>1, SystemCallsAssumption
<1>3. sp \in Nat
  BY <1>2
<1> DEFINE top == Aligned(sp)
<1>4. top \in {sp, sp - 1}
  BY <1>3, AlignedIs
<1> HIDE DEF top
<1>5. (top - n) .. (top - 1) \subseteq low .. high
  BY <1>4
<1> QED
  BY <1>3, <1>5 DEF Room, top

LEMMA StackRoom ==
  ASSUME NEW sp \in StackPointers \cup {KernelStack}
  PROVE  /\ sp \in Int /\ MaxNested \in Nat /\ 25 * MaxNested \in Nat
         /\ (sp - 25 - 25 * MaxNested) .. (sp - 1) \subseteq Words
<1>1. sp \in Int /\ MaxNested \in Nat
  BY EntryAssumption
<1>2. (sp - 25 * (MaxNested + 1)) .. (sp - 1) \subseteq Words
  BY EntryAssumption
<1>3. sp - 25 * (MaxNested + 1) = sp - 25 - 25 * MaxNested
  BY <1>1
<1>4. 25 * MaxNested \in Nat
  BY <1>1
<1> QED
  BY <1>1, <1>2, <1>3, <1>4

LEMMA NestedOnce ==
  ASSUME NEW n \in 0 .. MaxNested, n < MaxNested
  PROVE  n + 1 \in 0 .. MaxNested /\ 25 * (MaxNested - n) = 25 * (MaxNested - (n + 1)) + 25
BY EntryAssumption

LEMMA RoomFor ==
  ASSUME SystemInv, NEW number, Exception(number), running' = running,
         running # "kernel" => at = 0
  PROVE  /\ StackOf(machine) \in Nat /\ nested' \in 0 .. MaxNested
         /\ Room(Aligned(StackOf(machine)), Depth')
<1> DEFINE sp == machine.regs["rsp"]
           left == 25 * (MaxNested - nested)
           left2 == 25 * (MaxNested - nested')
<1>1. /\ machine.regs["cs"] \in {8, 35} /\ sp \in Int /\ (Ring(machine) = 3 <=> machine.regs["cs"] = 35)
      /\ MaxNested \in Nat /\ KernelStack \in Int /\ nested \in 0 .. MaxNested
  <2>1. machine \in Machines /\ machine.regs["cs"] \in {8, 35} /\ nested \in 0 .. MaxNested
    BY DEF SystemInv, Typed
  <2>2. sp \in Int
    BY <2>1, RegisterNames DEF Machines
  <2> QED
    BY <2>1, <2>2, RingIs, EntryAssumption
<1>2. \/ at = 0 /\ nested' = 0
      \/ at # 0 /\ nested < MaxNested /\ nested' = nested + 1 /\ running = "kernel"
  BY DEF Exception
<1>3. nested' \in 0 .. MaxNested
  BY <1>1, <1>2
<1>4. left2 \in Nat /\ Depth' = 24 + (IF running = "kernel" THEN left2 ELSE 0)
  <2>1. left2 \in Nat
    BY <1>3, NestingLeft
  <2> QED
    BY <2>1 DEF Depth
<1>5. Depth' \in Nat
  BY <1>4
<1>6. CASE Ring(machine) = 3
  <2>1. at = 0 /\ running # "kernel"
    <3>1. at # 0 => machine.regs["cs"] = 8
      BY DEF SystemInv, EntryInv, Entered
    <3>2. at = 0
      BY <1>1, <1>6, <3>1
    <3> QED
      BY <1>1, <1>6, <3>2 DEF SystemInv, CallInv
  <2>2. StackOf(machine) = KernelStack /\ Depth' = 24
    BY <1>4, <1>6, <2>1 DEF StackOf
  <2> DEFINE low == KernelStack - 25 - 25 * MaxNested
             high == KernelStack - 1
  <2>3. /\ low \in Int /\ high \in Int /\ low <= KernelStack - 1 - 24
        /\ high >= KernelStack - 1 /\ low .. high \subseteq Words
    BY StackRoom
  <2> HIDE DEF low, high
  <2>4. KernelStack \in Nat /\ Room(Aligned(KernelStack), 24)
    <3>1. KernelStack \in Int
      BY <1>1
    <3> QED
      BY <2>3, <3>1, RoomBelow
  <2> QED
    BY <1>3, <2>2, <2>4
<1>7. CASE Ring(machine) # 3
  <2>1. StackOf(machine) = sp /\ machine.regs["cs"] = 8
    BY <1>1, <1>7 DEF StackOf
  <2>2. \E low, high \in Int :
          low <= sp - 1 - Depth' /\ high >= sp - 1 /\ low .. high \subseteq Words
    <3>1. CASE running = "kernel" /\ at = 0
      <4>1. sp \in StackPointers
        BY <3>1 DEF SystemInv, CallInv
      <4>2. Depth' = 24 + 25 * MaxNested
        BY <1>1, <1>2, <1>4, <3>1
      <4> DEFINE below == 25 * MaxNested
      <4>3. /\ below \in Nat /\ (sp - 25 - below) .. (sp - 1) \subseteq Words
            /\ Depth' = 24 + below
        BY <4>1, <4>2, StackRoom
      <4> HIDE DEF below
      <4>4. /\ sp - 25 - below \in Int /\ sp - 1 \in Int
            /\ sp - 25 - below <= sp - 1 - Depth' /\ sp - 1 >= sp - 1
        BY <1>1, <4>3
      <4> QED
        BY <4>3, <4>4
    <3>2. CASE running = "kernel" /\ at # 0
      <4>1. Entered /\ Room(Top, Depth)
        BY <3>2 DEF SystemInv, EntryInv
      <4>2. left = left2 + 25 /\ Depth = 24 + left
        BY <1>1, <1>2, <3>2, NestedOnce DEF Depth
      <4>3. sp <= Top - 5 /\ sp >= Top - 23 /\ Top \in Int
        <5>1. /\ sp = IF Place = 19 THEN Top - 23 ELSE Top - Pushed
              /\ Place \in -1 .. 19 /\ Pushed \in 5 .. 22
          BY <4>1 DEF Entered, Pushed
        <5>2. Top \in Int
          BY TopIs DEF SystemInv
        <5> QED
          BY <5>1, <5>2
      <4> HIDE DEF left, left2
      <4>4. (Top - Depth) .. (Top - 1) \subseteq Words
        BY <4>1 DEF Room
      <4>5. Top - Depth <= sp - 1 - Depth' /\ Top - 1 >= sp - 1 /\ Top - Depth \in Int /\ Top - 1 \in Int
        BY <1>1, <1>4, <3>2, <4>2, <4>3
      <4> QED
        BY <4>4, <4>5
    <3>3. CASE running # "kernel"
      <4>1. at = 0 /\ Depth' = 24
        BY <1>4, <3>3
      <4>2. running \in {"jump", "stub"}
        BY <2>1, <3>3, <4>1 DEF SystemInv, Typed, CallInv
      <4>3. frame \in FrameWords /\ frame \in Nat
        BY SystemCallsAssumption DEF SystemInv, Typed
      <4>4. ASSUME NEW stack \in UserStack, sp \in (stack - frame - 16) .. (stack + 2)
            PROVE  \E low, high \in Int :
                     low <= sp - 1 - 24 /\ high >= sp - 1 /\ low .. high \subseteq Words
        <5>1. stack \in Int /\ (stack - frame - 41) .. (stack + 1) \subseteq Words
          BY <4>3, SystemCallsAssumption
        <5>2. /\ stack - frame - 41 \in Int /\ stack + 1 \in Int
              /\ stack - frame - 41 <= sp - 1 - 24 /\ stack + 1 >= sp - 1
          BY <1>1, <4>3, <4>4, <5>1
        <5> QED
          BY <5>1, <5>2
      <4>5. CASE running = "jump"
        <5>1. Jumping
          BY <4>1, <4>5 DEF SystemInv, CallInv
        <5>2. CASE next <= 2
          <6>1. sp \in StackPointers
            BY <5>1, <5>2 DEF Jumping
          <6> DEFINE below == 25 * MaxNested
          <6>2. below \in Nat /\ (sp - 25 - below) .. (sp - 1) \subseteq Words
            BY <6>1, StackRoom
          <6> HIDE DEF below
          <6>3. /\ sp - 25 - below \in Int /\ sp - 1 \in Int
                /\ sp - 25 - below <= sp - 1 - Depth' /\ sp - 1 >= sp - 1
            BY <1>1, <4>1, <6>2
          <6> QED
            BY <6>2, <6>3
        <5>3. CASE next > 2
          <6>1. sp = caller.regs[jump.stack] /\ sp \in UserStack
            BY <5>1, <5>3 DEF Jumping
          <6>2. sp \in (sp - frame - 16) .. (sp + 2)
            BY <1>1, <4>3
          <6> QED
            BY <4>1, <4>4, <6>1, <6>2
        <5> QED
          BY <5>1, <5>2, <5>3 DEF Jumping
      <4>6. CASE running = "stub"
        <5>1. Stubbed /\ UserTop \in UserStack /\ UserTop \in Int
          BY <4>1, <4>6, SystemCallsAssumption DEF SystemInv, CallInv, Stubbed
        <5>2. Base \in {UserTop, UserTop - frame} /\ next \in 1 .. 37
          BY <5>1 DEF Base, Stubbed, StubAt
        <5>3. \/ sp = UserTop
              \/ \E k \in 0 .. 16 : sp = Base - k
              \/ \E k \in 0 .. 2 : sp = UserTop + k
          <6> DEFINE k == next
          <6>0. k \in 1 .. 37 /\ StubAt(machine, k)
            BY <5>1, <5>2 DEF Stubbed
          <6> HIDE DEF k
          <6>1. CASE k \in 1 .. 2
            BY <6>0, <6>1 DEF StubAt
          <6>2. CASE k \in 3 .. 19
            <7>1. sp = Base - (k - 3)
              BY <6>0, <6>2 DEF StubAt
            <7>2. k - 3 \in 0 .. 16
              BY <6>2
            <7> QED
              BY <7>1, <7>2
          <6>3. CASE k = 20
            BY <6>0, <6>3 DEF StubAt
          <6>4. CASE k \in 21 .. 34
            <7>1. sp = Base - 16 + (k - 21)
              BY <6>0, <6>4 DEF StubAt
            <7>2. 16 - (k - 21) \in 0 .. 16 /\ Base - 16 + (k - 21) = Base - (16 - (k - 21))
              BY <4>3, <5>1, <5>2, <6>4
            <7> QED
              BY <7>1, <7>2
          <6>5. CASE k \in 35 .. 37
            <7>1. sp = UserTop + (k - 35)
              BY <6>0, <6>5 DEF StubAt
            <7>2. k - 35 \in 0 .. 2
              BY <6>5
            <7> QED
              BY <7>1, <7>2
          <6> QED
            BY <6>0, <6>1, <6>2, <6>3, <6>4, <6>5
        <5>4. sp \in (UserTop - frame - 16) .. (UserTop + 2)
          BY <1>1, <4>3, <5>1, <5>2, <5>3
        <5> QED
          BY <4>1, <4>4, <5>1, <5>4
      <4> QED
        BY <4>2, <4>5, <4>6
    <3> QED
      BY <3>1, <3>2, <3>3
  <2>3. PICK low \in Int, high \in Int :
          low <= sp - 1 - Depth' /\ high >= sp - 1 /\ low .. high \subseteq Words
    BY <2>2
  <2>4. sp \in Nat /\ Room(Aligned(sp), Depth')
    BY <1>1, <1>5, <2>3, RoomBelow
  <2> QED
    BY <1>3, <2>1, <2>4
<1> QED
  BY <1>6, <1>7

(* Every step of the exceptions keeps the invariant.                       *)
LEMMA InterruptKeeps ==
  ASSUME SystemInv, Interrupt
  PROVE  SystemInv'
<1>1. /\ Typed /\ EntryInv /\ UNCHANGED stubVars
      /\ UNCHANGED <<running, next, operand, jump, frame, caller, handed>>
  BY DEF SystemInv, Interrupt, stubVars, chosen
<1>2. \/ EntryStep
      \/ isr_handler
      \/ \E number \in Vectors : Exception(number) /\ (running # "kernel" => at = 0)
  <2>1. Raised \cup RaisedInside \subseteq Vectors /\ RaisedInPassing \subseteq Vectors
    BY EntryAssumption, SystemCallsAssumption DEF Vectors
  <2> QED
    BY <2>1 DEF Interrupt, EntryNext
<1> DEFINE After ==
             /\ machine' \in Machines /\ before' \in Machines /\ machine'.regs["cs"] = 8
             /\ EntryInv' /\ at' \in Nat \ {0} /\ vector' \in Nat /\ nested' \in 0 .. MaxNested
<1>3. After
  <2>1. CASE EntryStep
    <3>1. machine' \in Machines /\ machine'.regs["cs"] = 8 /\ EntryInv'
      BY <1>1, <2>1, EntryStepKeeps
    <3>2. at \in DOMAIN Stub(vector) /\ at' = at + 1 /\ UNCHANGED <<vector, before, nested>>
      BY <2>1 DEF EntryStep
    <3> QED
      BY <1>1, <3>1, <3>2 DEF Typed
  <2>2. CASE isr_handler
    <3>1. machine' \in Machines /\ machine'.regs["cs"] = 8 /\ EntryInv'
      BY <1>1, <2>2, HandlerKeeps
    <3>2. at' = at + 1 /\ UNCHANGED <<vector, before, nested>>
      BY <2>2 DEF isr_handler
    <3> QED
      BY <1>1, <3>1, <3>2 DEF Typed
  <2>3. ASSUME NEW number \in Vectors, Exception(number), running # "kernel" => at = 0
        PROVE  After
    <3>1. /\ StackOf(machine) \in Nat /\ nested' \in 0 .. MaxNested
          /\ Room(Aligned(StackOf(machine)), Depth')
      BY <1>1, <2>3, RoomFor
    <3>2. /\ machine' \in Machines /\ before' = machine /\ machine'.regs["cs"] = 8
          /\ EntryInv' /\ at' = 1 /\ vector' = number
      BY <1>1, <2>3, <3>1, ExceptionEnters
    <3> QED
      BY <1>1, <3>1, <3>2 DEF Typed, Vectors
  <2> QED
    BY <1>2, <2>1, <2>2, <2>3
<1>4. Typed'
  BY <1>1, <1>3 DEF Typed
<1>5. CallInv'
  BY <1>3 DEF CallInv
<1> QED
  BY <1>3, <1>4, <1>5 DEF SystemInv

-----------------------------------------------------------------------------
(* The stub of the system calls, and the jump.                             *)

LEMMA CallStubIs ==
  ASSUME NEW reg
  PROVE  /\ syscall_entry(reg)[1] = Move("r10", "rsp") /\ syscall_entry(reg)[2] = Move("rsp", reg)
         /\ syscall_entry(reg)[3] = Push("r11") /\ syscall_entry(reg)[4] = Push("rcx")
         /\ syscall_entry(reg)[5] = Push("r10")
         /\ \A i \in 6 .. 18 : syscall_entry(reg)[i] = Push(Saved[i - 5])
         /\ syscall_entry(reg)[19] = Move("rdi", "rsp") /\ syscall_entry(reg)[20] = Call
         /\ \A i \in 21 .. 33 : syscall_entry(reg)[i] = Pop(Saved[34 - i])
         /\ syscall_entry(reg)[34] = Pop("rsp") /\ syscall_entry(reg)[35] = Pop("rcx")
         /\ syscall_entry(reg)[36] = Pop("r11") /\ syscall_entry(reg)[37] = Sysretq
<1> DEFINE p1 == <<Move("r10", "rsp"), Move("rsp", reg), Push("r11"), Push("rcx"), Push("r10")>>
           p2 == Pushes(Saved)
           p3 == <<Move("rdi", "rsp"), Call>>
           p4 == Pops(Reverse(Saved))
           p5 == Pops(<<"rsp", "rcx", "r11">>)
           p6 == <<Sysretq>>
           names == ToSet(Saved) \cup {"rsp", "rcx", "r11", "r10"}
           T == {Move("r10", "rsp"), Move("rsp", reg), Move("rdi", "rsp"), Call, Sysretq}
                \cup {Push(name) : name \in names} \cup {Pop(name) : name \in names}
           q2 == p1 \o p2
           q3 == q2 \o p3
           q4 == q3 \o p4
           q5 == q4 \o p5
           q6 == q5 \o p6
<1>1. \A i \in 1 .. 13 : Saved[i] \in names
  BY SavedNames DEF ToSet
<1>2. /\ p1 \in Seq(T) /\ Len(p1) = 5 /\ p1[1] = Move("r10", "rsp") /\ p1[2] = Move("rsp", reg)
      /\ p1[3] = Push("r11") /\ p1[4] = Push("rcx") /\ p1[5] = Push("r10")
  <2>1. /\ Move("r10", "rsp") \in T /\ Move("rsp", reg) \in T /\ Push("r11") \in T
        /\ Push("rcx") \in T /\ Push("r10") \in T
    OBVIOUS
  <2> HIDE DEF T
  <2> QED
    BY <2>1
<1>3. p2 \in Seq(T) /\ Len(p2) = 13 /\ \A i \in 1 .. 13 : p2[i] = Push(Saved[i])
  <2>1. \A i \in 1 .. 13 : Push(Saved[i]) \in T
    BY <1>1
  <2>2. p2 = [i \in 1 .. 13 |-> Push(Saved[i])]
    BY SavedNames DEF Pushes
  <2> HIDE DEF T, p2
  <2> QED
    BY <2>1, <2>2
<1>4. p3 \in Seq(T) /\ Len(p3) = 2 /\ p3[1] = Move("rdi", "rsp") /\ p3[2] = Call
  <2>1. Move("rdi", "rsp") \in T /\ Call \in T
    OBVIOUS
  <2> HIDE DEF T
  <2> QED
    BY <2>1
<1>5. p4 \in Seq(T) /\ Len(p4) = 13 /\ \A i \in 1 .. 13 : p4[i] = Pop(Saved[14 - i])
  <2>1. \A i \in 1 .. 13 : 14 - i \in 1 .. 13 /\ Pop(Saved[14 - i]) \in T
    BY <1>1
  <2>2. Reverse(Saved) = [i \in 1 .. 13 |-> Saved[14 - i]]
    BY SavedNames DEF Reverse
  <2>3. p4 = [i \in 1 .. 13 |-> Pop(Saved[14 - i])]
    BY <2>2 DEF Pops
  <2> HIDE DEF T, p4
  <2> QED
    BY <2>1, <2>3
<1>6. /\ p5 \in Seq(T) /\ Len(p5) = 3 /\ p5[1] = Pop("rsp") /\ p5[2] = Pop("rcx")
      /\ p5[3] = Pop("r11")
  <2>1. Pop("rsp") \in T /\ Pop("rcx") \in T /\ Pop("r11") \in T
    OBVIOUS
  <2> DEFINE three == <<"rsp", "rcx", "r11">>
  <2>2. DOMAIN three = 1 .. 3 /\ three[1] = "rsp" /\ three[2] = "rcx" /\ three[3] = "r11"
    OBVIOUS
  <2> HIDE DEF three
  <2>3. p5 = [i \in 1 .. 3 |-> Pop(three[i])]
    BY <2>2 DEF Pops, three
  <2>4. \A i \in 1 .. 3 : Pop(three[i]) \in T
    <3>1. \A i \in 1 .. 3 : i = 1 \/ i = 2 \/ i = 3
      OBVIOUS
    <3> QED
      BY <2>1, <2>2, <3>1
  <2> HIDE DEF T, p5
  <2> QED
    BY <2>2, <2>3, <2>4
<1>7. p6 \in Seq(T) /\ Len(p6) = 1 /\ p6[1] = Sysretq
  <2>1. Sysretq \in T
    OBVIOUS
  <2> HIDE DEF T
  <2> QED
    BY <2>1
<1>8. syscall_entry(reg) = q6
  BY DEF syscall_entry
<1> HIDE DEF p1, p2, p3, p4, p5, p6, T
<1>9. /\ q2 \in Seq(T) /\ Len(q2) = 18 /\ \A i \in 1 .. 5 : q2[i] = p1[i]
      /\ \A i \in 1 .. 13 : q2[5 + i] = p2[i]
  <2>1. p1 \in Seq(T) /\ p2 \in Seq(T)
    BY <1>2, <1>3
  <2>2. /\ q2 \in Seq(T) /\ Len(q2) = Len(p1) + Len(p2)
        /\ \A i \in 1 .. Len(p1) : q2[i] = p1[i]
        /\ \A i \in 1 .. Len(p2) : q2[Len(p1) + i] = p2[i]
    BY <2>1, Joined
  <2>3. Len(p1) = 5 /\ Len(p2) = 13
    BY <1>2, <1>3
  <2> HIDE DEF q2
  <2> QED
    BY <2>2, <2>3
<1> HIDE DEF q2
<1>10. /\ q3 \in Seq(T) /\ Len(q3) = 20 /\ \A i \in 1 .. 18 : q3[i] = q2[i]
      /\ \A i \in 1 .. 2 : q3[18 + i] = p3[i]
  <2>1. q2 \in Seq(T) /\ p3 \in Seq(T)
    BY <1>9, <1>4
  <2>2. /\ q3 \in Seq(T) /\ Len(q3) = Len(q2) + Len(p3)
        /\ \A i \in 1 .. Len(q2) : q3[i] = q2[i]
        /\ \A i \in 1 .. Len(p3) : q3[Len(q2) + i] = p3[i]
    BY <2>1, Joined
  <2>3. Len(q2) = 18 /\ Len(p3) = 2
    BY <1>9, <1>4
  <2> HIDE DEF q3
  <2> QED
    BY <2>2, <2>3
<1> HIDE DEF q3
<1>11. /\ q4 \in Seq(T) /\ Len(q4) = 33 /\ \A i \in 1 .. 20 : q4[i] = q3[i]
      /\ \A i \in 1 .. 13 : q4[20 + i] = p4[i]
  <2>1. q3 \in Seq(T) /\ p4 \in Seq(T)
    BY <1>10, <1>5
  <2>2. /\ q4 \in Seq(T) /\ Len(q4) = Len(q3) + Len(p4)
        /\ \A i \in 1 .. Len(q3) : q4[i] = q3[i]
        /\ \A i \in 1 .. Len(p4) : q4[Len(q3) + i] = p4[i]
    BY <2>1, Joined
  <2>3. Len(q3) = 20 /\ Len(p4) = 13
    BY <1>10, <1>5
  <2> HIDE DEF q4
  <2> QED
    BY <2>2, <2>3
<1> HIDE DEF q4
<1>12. /\ q5 \in Seq(T) /\ Len(q5) = 36 /\ \A i \in 1 .. 33 : q5[i] = q4[i]
      /\ \A i \in 1 .. 3 : q5[33 + i] = p5[i]
  <2>1. q4 \in Seq(T) /\ p5 \in Seq(T)
    BY <1>11, <1>6
  <2>2. /\ q5 \in Seq(T) /\ Len(q5) = Len(q4) + Len(p5)
        /\ \A i \in 1 .. Len(q4) : q5[i] = q4[i]
        /\ \A i \in 1 .. Len(p5) : q5[Len(q4) + i] = p5[i]
    BY <2>1, Joined
  <2>3. Len(q4) = 33 /\ Len(p5) = 3
    BY <1>11, <1>6
  <2> HIDE DEF q5
  <2> QED
    BY <2>2, <2>3
<1> HIDE DEF q5
<1>13. /\ q6 \in Seq(T) /\ Len(q6) = 37 /\ \A i \in 1 .. 36 : q6[i] = q5[i]
      /\ \A i \in 1 .. 1 : q6[36 + i] = p6[i]
  <2>1. q5 \in Seq(T) /\ p6 \in Seq(T)
    BY <1>12, <1>7
  <2>2. /\ q6 \in Seq(T) /\ Len(q6) = Len(q5) + Len(p6)
        /\ \A i \in 1 .. Len(q5) : q6[i] = q5[i]
        /\ \A i \in 1 .. Len(p6) : q6[Len(q5) + i] = p6[i]
    BY <2>1, Joined
  <2>3. Len(q5) = 36 /\ Len(p6) = 1
    BY <1>12, <1>7
  <2> HIDE DEF q6
  <2> QED
    BY <2>2, <2>3
<1> HIDE DEF q6
<1>14. /\ \A i \in 1 .. 5 : q6[i] = p1[i]
       /\ \A i \in 1 .. 13 : q6[5 + i] = p2[i]
       /\ q6[19] = p3[1] /\ q6[20] = p3[2]
       /\ \A i \in 1 .. 13 : q6[20 + i] = p4[i]
       /\ q6[34] = p5[1] /\ q6[35] = p5[2] /\ q6[36] = p5[3] /\ q6[37] = p6[1]
  <2>1. /\ \A i \in 1 .. 18 : q6[i] = q2[i] /\ q3[i] = q2[i]
        /\ \A i \in 1 .. 20 : q6[i] = q3[i]
        /\ \A i \in 1 .. 33 : q6[i] = q4[i]
    <3>1. \A i \in 1 .. 33 : q6[i] = q4[i]
      <4>1. \A i \in 1 .. 33 : i \in 1 .. 36
        OBVIOUS
      <4> QED
        BY <1>12, <1>13, <4>1
    <3>2. \A i \in 1 .. 20 : q6[i] = q3[i]
      <4>1. \A i \in 1 .. 20 : i \in 1 .. 33
        OBVIOUS
      <4> QED
        BY <1>11, <3>1, <4>1
    <3>3. \A i \in 1 .. 18 : q6[i] = q2[i] /\ q3[i] = q2[i]
      <4>1. \A i \in 1 .. 18 : i \in 1 .. 20
        OBVIOUS
      <4> QED
        BY <1>10, <3>2, <4>1
    <3> QED
      BY <3>1, <3>2, <3>3
  <2>2. \A i \in 1 .. 5 : q6[i] = p1[i]
    <3>1. \A i \in 1 .. 5 : i \in 1 .. 18
      OBVIOUS
    <3>2. \A i \in 1 .. 18 : q6[i] = q2[i]
      BY <2>1
    <3>3. \A i \in 1 .. 5 : q2[i] = p1[i]
      BY <1>9
    <3> QED
      BY <3>1, <3>2, <3>3
  <2>3. \A i \in 1 .. 13 : q6[5 + i] = p2[i]
    <3>1. \A i \in 1 .. 13 : 5 + i \in 1 .. 18
      OBVIOUS
    <3> QED
      BY <1>9, <2>1, <3>1
  <2>4. q6[19] = p3[1] /\ q6[20] = p3[2]
    <3>1. q3[18 + 1] = p3[1] /\ q3[18 + 2] = p3[2]
      BY <1>10
    <3>2. q6[19] = q3[19] /\ q6[20] = q3[20]
      BY <2>1
    <3> QED
      BY <3>1, <3>2
  <2>5. \A i \in 1 .. 13 : q6[20 + i] = p4[i]
    <3>1. \A i \in 1 .. 13 : 20 + i \in 1 .. 33
      OBVIOUS
    <3> QED
      BY <1>11, <2>1, <3>1
  <2>6. q6[34] = p5[1] /\ q6[35] = p5[2] /\ q6[36] = p5[3]
    <3>1. q5[33 + 1] = p5[1] /\ q5[33 + 2] = p5[2] /\ q5[33 + 3] = p5[3]
      BY <1>12
    <3>2. q6[34] = q5[34] /\ q6[35] = q5[35] /\ q6[36] = q5[36]
      BY <1>13
    <3> QED
      BY <3>1, <3>2
  <2>7. q6[37] = p6[1]
    <3>1. q6[36 + 1] = p6[1]
      BY <1>13
    <3> QED
      BY <3>1
  <2> QED
    BY <2>2, <2>3, <2>4, <2>5, <2>6, <2>7
<1>15. \A i \in 6 .. 18 : q6[i] = Push(Saved[i - 5])
  <2> TAKE i \in 6 .. 18
  <2>1. i - 5 \in 1 .. 13 /\ 5 + (i - 5) = i
    OBVIOUS
  <2>2. q6[5 + (i - 5)] = p2[i - 5]
    BY <1>14, <2>1
  <2>3. p2[i - 5] = Push(Saved[i - 5])
    BY <1>3, <2>1
  <2> QED
    BY <2>1, <2>2, <2>3
<1>16. \A i \in 21 .. 33 : q6[i] = Pop(Saved[34 - i])
  <2> TAKE i \in 21 .. 33
  <2>1. i - 20 \in 1 .. 13 /\ 20 + (i - 20) = i /\ 14 - (i - 20) = 34 - i
    OBVIOUS
  <2>2. q6[20 + (i - 20)] = p4[i - 20] /\ p4[i - 20] = Pop(Saved[14 - (i - 20)])
    BY <1>5, <1>14, <2>1
  <2> QED
    BY <2>1, <2>2
<1>17. /\ q6[1] = Move("r10", "rsp") /\ q6[2] = Move("rsp", reg) /\ q6[3] = Push("r11")
       /\ q6[4] = Push("rcx") /\ q6[5] = Push("r10")
  <2>1. q6[1] = p1[1] /\ q6[2] = p1[2] /\ q6[3] = p1[3] /\ q6[4] = p1[4] /\ q6[5] = p1[5]
    BY <1>14
  <2> QED
    BY <1>2, <2>1
<1>18. /\ q6[19] = Move("rdi", "rsp") /\ q6[20] = Call /\ q6[34] = Pop("rsp")
       /\ q6[35] = Pop("rcx") /\ q6[36] = Pop("r11") /\ q6[37] = Sysretq
  BY <1>4, <1>6, <1>7, <1>14
<1> QED
  BY <1>8, <1>15, <1>16, <1>17, <1>18

LEMMA OthersPlain ==
  ASSUME NEW reg, NEW i \in 1 .. 37, ~ Plain(syscall_entry(reg)[i])
  PROVE  i \in {20, 37}
<1> DEFINE instr == syscall_entry(reg)[i]
<1>1. /\ i = 1 => instr = Move("r10", "rsp")
      /\ i = 2 => instr = Move("rsp", reg)
      /\ i = 19 => instr = Move("rdi", "rsp")
  BY CallStubIs
<1>2. /\ i = 3 => instr = Push("r11")
      /\ i = 4 => instr = Push("rcx")
      /\ i = 5 => instr = Push("r10")
      /\ i \in 6 .. 18 => instr = Push(Saved[i - 5])
  BY CallStubIs
<1>3. /\ i \in 21 .. 33 => instr = Pop(Saved[34 - i])
      /\ i = 34 => instr = Pop("rsp")
      /\ i = 35 => instr = Pop("rcx")
      /\ i = 36 => instr = Pop("r11")
  BY CallStubIs
<1>4. /\ \A r, from : Plain(Move(r, from))
      /\ \A r : Plain(Push(r)) /\ Plain(Pop(r))
  BY PlainIs
<1>5. ~ Plain(instr)
  OBVIOUS
<1> HIDE DEF instr
<1>6. i \notin {1, 2, 19}
  BY <1>1, <1>4, <1>5
<1>7. i \notin 3 .. 18
  BY <1>2, <1>4, <1>5
<1>8. i \notin 21 .. 36
  BY <1>3, <1>4, <1>5
<1> QED
  BY <1>6, <1>7, <1>8

LEMMA JumpIs ==
  ASSUME NEW pair
  PROVE  /\ jump_to_usermode(pair)[1] = Move("rcx", pair.function)
         /\ jump_to_usermode(pair)[2] = Move("rsp", pair.stack)
         /\ jump_to_usermode(pair)[3] = MoveConstant("r11", 514)
         /\ jump_to_usermode(pair)[4] = Sysretq
BY DEF jump_to_usermode

(* The registers the compiler chooses.                                     *)
LEMMA ChosenIs ==
  ASSUME Typed
  PROVE  /\ operand \in ToSet(General) /\ operand \in Registers
         /\ operand \notin {"rsp", "rip", "rflags", "cs", "ss"}
         /\ jump.function \in ToSet(General) \ {"rcx", "r11"}
         /\ jump.stack \in ToSet(General) \ {"rcx", "r11"}
         /\ frame \in Nat
<1>1. operand \in ToSet(General) /\ frame \in Nat
  BY SystemCallsAssumption DEF Typed
<1>2. {jump.function, jump.stack} \subseteq ToSet(General) \ {"rcx", "r11"}
  BY SystemCallsAssumption DEF Typed
<1> QED
  BY <1>1, <1>2, RegisterNames

LEMMA KeptIs ==
  /\ Kept \subseteq ToSet(Saved) /\ Kept \subseteq Registers
  /\ Kept \cap {"r10", "rcx", "r11", "rsp", "rip", "rflags", "cs", "ss", operand} = {}
  /\ frame # 0 => "rax" \notin Kept
BY SavedNames, RegisterNames DEF Kept

(* The stack of the stub.                                                  *)
LEMMA StubStack ==
  ASSUME Typed, UserTop \in UserStack
  PROVE  /\ UserTop \in Int /\ Base \in Int /\ UserTop \in Words /\ UserTop + 1 \in Words
         /\ \A i \in 1 .. 16 : Base - i \in Words
<1>1. /\ UserTop \in Int /\ frame \in Nat
      /\ (UserTop - frame - 41) .. (UserTop + 1) \subseteq Words
  <2>1. frame \in FrameWords /\ frame \in Nat
    BY SystemCallsAssumption DEF Typed
  <2> QED
    BY <2>1, SystemCallsAssumption
<1>2. Base \in {UserTop, UserTop - frame}
  BY DEF Base
<1> QED
  BY <1>1, <1>2

(* One instruction of the stub.                                            *)
LEMMA StubStepKeeps ==
  ASSUME Typed, UserTop \in UserStack, NEW m \in Machines, NEW k \in 1 .. 36, k # 20,
         StubAt(m, k)
  PROVE  LET n == Execute(m, syscall_entry(operand)[k])
         IN  n \in Machines /\ StubAt(n, k + 1) /\ Plain(syscall_entry(operand)[k])
<1> DEFINE instr == syscall_entry(operand)[k]
           n == Execute(m, instr)
<1>1. /\ UserTop \in Int /\ Base \in Int /\ UserTop \in Words /\ UserTop + 1 \in Words
      /\ \A i \in 1 .. 16 : Base - i \in Words
  BY StubStack
<1>2. /\ operand \in ToSet(General) /\ operand \in Registers
      /\ operand \notin {"rsp", "rip", "rflags", "cs", "ss"} /\ frame \in Nat
  BY ChosenIs
<1>3. \A reg \in Registers : m.regs[reg] \in Int
  BY DEF Machines
<1>4. /\ {"rsp", "cs", "r10", "r11", "rcx", "rdi"} \subseteq Registers
      /\ ToSet(Saved) \subseteq Registers /\ ToSet(Saved) \cap {"rsp", "cs"} = {}
  BY RegisterNames, SavedNames
<1>5. m.regs["cs"] = 8
  BY DEF StubAt
<1> USE <1>1, <1>2, <1>3, <1>4, <1>5
<1>6. CASE k = 1
  <2>1. n = Set(m, "r10", m.regs["rsp"]) /\ Plain(instr)
    <3>1. instr = Move("r10", "rsp")
      BY <1>6, CallStubIs
    <3> HIDE DEF instr
    <3> QED
      BY <3>1, MoveDoes
  <2> HIDE DEF n, instr
  <2>2. /\ m.regs[operand] = UserTop - frame /\ m.regs["rsp"] = UserTop
        /\ StillIn(m, ToSet(Saved))
    BY <1>6 DEF StubAt
  <2>3. /\ n \in Machines /\ n.mem = m.mem /\ n.regs["r10"] = UserTop
        /\ \A reg \in Registers \ {"r10"} : n.regs[reg] = m.regs[reg]
    <3>1. n = Set(m, "r10", UserTop) /\ "r10" \in Registers /\ UserTop \in Int
      BY <2>1, <2>2
    <3> HIDE <1>1, <1>2, <1>3, <1>4, <1>5
    <3> QED
      <4>1. IsSet(n, m, "r10", UserTop)
        BY <3>1, SetIs
      <4> QED
        BY <4>1 DEF IsSet
  <2>4. n.regs[operand] = Base
    BY <2>2, <2>3 DEF Base
  <2>5. n.regs["rsp"] = UserTop /\ n.regs["cs"] = 8
    BY <2>2, <2>3
  <2>6. StillIn(n, ToSet(Saved))
    BY <2>2, <2>3, KeptIs DEF StillIn
  <2>7. StubAt(n, 2)
    BY <2>3, <2>4, <2>5, <2>6 DEF StubAt
  <2> QED
    BY <1>6, <2>1, <2>3, <2>7 DEF n, instr
<1>7. CASE k = 2
  <2>1. n = Set(m, "rsp", m.regs[operand]) /\ Plain(instr)
    <3>1. instr = Move("rsp", operand)
      BY <1>7, CallStubIs
    <3> HIDE DEF instr
    <3> QED
      BY <3>1, MoveDoes
  <2> HIDE DEF n, instr
  <2>2. m.regs[operand] = Base /\ m.regs["r10"] = UserTop /\ StillIn(m, ToSet(Saved))
    BY <1>7 DEF StubAt
  <2>3. /\ n \in Machines /\ n.mem = m.mem /\ n.regs["rsp"] = Base
        /\ \A reg \in Registers \ {"rsp"} : n.regs[reg] = m.regs[reg]
    <3>1. n = Set(m, "rsp", Base) /\ "rsp" \in Registers /\ Base \in Int
      BY <2>1, <2>2
    <3> HIDE <1>1, <1>2, <1>3, <1>4, <1>5
    <3> QED
      <4>1. IsSet(n, m, "rsp", Base)
        BY <3>1, SetIs
      <4> QED
        BY <4>1 DEF IsSet
  <2>4. n.regs["r10"] = UserTop /\ n.regs["cs"] = 8
    BY <2>2, <2>3
  <2>5. StillIn(n, ToSet(Saved))
    BY <2>2, <2>3, KeptIs DEF StillIn
  <2>6. n.regs["rsp"] = Base - (3 - 3)
    BY <2>3
  <2>7. StubAt(n, 3)
    BY <2>4, <2>5, <2>6 DEF StubAt
  <2> QED
    BY <1>7, <2>1, <2>3, <2>7 DEF n, instr
<1>8. CASE k \in 3 .. 18
  <2> DEFINE reg == IF k = 3 THEN "r11" ELSE IF k = 4 THEN "rcx" ELSE IF k = 5 THEN "r10"
                    ELSE Saved[k - 5]
  <2>1. instr = Push(reg)
    BY <1>8, CallStubIs
  <2>2. reg \in Registers
    <3>1. k \in 6 .. 18 => k - 5 \in 1 .. 13
      OBVIOUS
    <3>2. k \in 6 .. 18 => Saved[k - 5] \in ToSet(Saved)
      BY <3>1, SavedNames
    <3> QED
      BY <1>8, <3>2
  <2>3. /\ k = 5 => reg = "r10"
        /\ k \in 6 .. 18 => reg = Saved[k - 5]
    OBVIOUS
  <2> HIDE DEF reg
  <2>4. n = PushValue(m, m.regs[reg]) /\ Plain(instr)
    BY <2>1, PushDoes
  <2> HIDE DEF n, instr
  <2>5. /\ m.regs["rsp"] = Base - (k - 3) /\ StillIn(m, ToSet(Saved))
        /\ k = 5 => m.regs["r10"] = UserTop
        /\ k \in 3 .. 4 => m.regs["r10"] = UserTop
        /\ k \in 6 .. 18 => OnStack(m, k - 6)
    BY <1>8 DEF StubAt
  <2>6. m.regs["rsp"] - 1 = Base - (k - 2) /\ k - 2 \in 1 .. 16 /\ Base - (k - 2) \in Words
    BY <1>8, <2>5
  <2>7. /\ n \in Machines /\ n.regs["rsp"] = Base - (k - 2)
        /\ \A other \in Registers \ {"rsp"} : n.regs[other] = m.regs[other]
        /\ n.mem[Base - (k - 2)] = m.regs[reg]
        /\ \A word \in Words \ {Base - (k - 2)} : n.mem[word] = m.mem[word]
    <3>1. m.regs[reg] \in Int
      BY <2>2
    <3> QED
      <4>1. IsPush(n, m, m.regs[reg], Base - (k - 2))
        <5>1. m \in Machines
          BY DEF StubAt
        <5>2. IsPush(PushValue(m, m.regs[reg]), m, m.regs[reg], Base - (k - 2))
          BY <2>6, <3>1, <5>1, PushedAt
        <5> QED
          BY <2>4, <5>2
      <4> QED
        BY <4>1 DEF IsPush
  <2>8. StillIn(n, ToSet(Saved))
    BY <2>5, <2>7, KeptIs DEF StillIn
  <2>9. n.regs["cs"] = 8 /\ n.regs["r10"] = m.regs["r10"]
    BY <2>7
  <2>10. CASE k \in 3 .. 4
    <3>1. n.regs["rsp"] = Base - (k + 1 - 3)
      BY <2>7
    <3>2. StubAt(n, k + 1)
      BY <2>5, <2>8, <2>9, <2>10, <3>1 DEF StubAt
    <3> QED
      BY <2>4, <2>7, <3>2 DEF n, instr
  <2>11. CASE k = 5
    <3>1. n.regs["rsp"] = Base - 3 /\ n.mem[Base - 3] = UserTop
      BY <2>3, <2>5, <2>7, <2>11
    <3>2. OnStack(n, 6 - 6)
      BY <3>1 DEF OnStack
    <3>3. n.regs["rsp"] = Base - (6 - 3)
      BY <3>1
    <3>4. StubAt(n, 6)
      BY <2>8, <2>9, <3>2, <3>3 DEF StubAt
    <3> QED
      BY <2>4, <2>7, <2>11, <3>4 DEF n, instr
  <2>12. CASE k \in 6 .. 18
    <3>1. Base - (k - 2) = Base - 3 - (k - 5) /\ k - 5 \in 1 .. 13
      BY <2>12
    <3>2. m.mem[Base - 3] = UserTop
      BY <2>5, <2>12 DEF OnStack
    <3>3. n.mem[Base - 3] = UserTop
      <4>1. Base - 3 \in Words \ {Base - (k - 2)}
        BY <2>12
      <4> QED
        BY <2>7, <3>2, <4>1
    <3>4. ASSUME NEW i \in 1 .. (k - 5), Saved[i] \in Kept
          PROVE  n.mem[Base - 3 - i] = caller.regs[Saved[i]]
      <4>1. CASE i = k - 5
        <5>1. n.mem[Base - 3 - i] = m.regs[Saved[i]]
          BY <2>3, <2>7, <2>12, <3>1, <4>1
        <5>2. Saved[i] \in ToSet(Saved)
          BY <3>1, <4>1, SavedNames
        <5> QED
          BY <2>5, <3>4, <5>1, <5>2 DEF StillIn
      <4>2. CASE i # k - 5
        <5>1. i \in 1 .. (k - 6)
          BY <2>12, <4>2
        <5>2. m.mem[Base - 3 - i] = caller.regs[Saved[i]]
          BY <2>5, <2>12, <3>4, <5>1 DEF OnStack
        <5>3. Base - 3 - i = Base - (3 + i) /\ 3 + i \in 1 .. 16 /\ 3 + i # k - 2
          BY <2>12, <5>1
        <5>4. Base - 3 - i \in Words \ {Base - (k - 2)}
          BY <5>3
        <5> QED
          BY <2>7, <5>2, <5>4
      <4> QED
        BY <4>1, <4>2
    <3>5. OnStack(n, k - 5) /\ k + 1 - 6 = k - 5
      BY <3>3, <3>4 DEF OnStack
    <3>6. n.regs["rsp"] = Base - (k + 1 - 3)
      BY <2>7
    <3>7. OnStack(n, k + 1 - 6)
      BY <3>5
    <3>8. StubAt(n, k + 1)
      BY <2>8, <2>9, <2>12, <3>6, <3>7 DEF StubAt
    <3> QED
      BY <2>4, <2>7, <3>8 DEF n, instr
  <2> QED
    BY <1>8, <2>10, <2>11, <2>12
<1>9. CASE k = 19
  <2>1. n = Set(m, "rdi", m.regs["rsp"]) /\ Plain(instr)
    <3>1. instr = Move("rdi", "rsp")
      BY <1>9, CallStubIs
    <3> HIDE DEF instr
    <3> QED
      BY <3>1, MoveDoes
  <2> HIDE DEF n, instr
  <2>2. m.regs["rsp"] = Base - (19 - 3) /\ OnStack(m, 19 - 6)
    BY <1>9 DEF StubAt
  <2>3. /\ n \in Machines /\ n.mem = m.mem
        /\ \A reg \in Registers \ {"rdi"} : n.regs[reg] = m.regs[reg]
    <3> DEFINE value == m.regs["rsp"]
    <3>1. n = Set(m, "rdi", value) /\ "rdi" \in Registers /\ value \in Int
      BY <2>1
    <3> HIDE DEF value
    <3> HIDE <1>1, <1>2, <1>3, <1>4, <1>5
    <3> QED
      <4>1. IsSet(n, m, "rdi", value)
        BY <3>1, SetIs
      <4> QED
        BY <4>1 DEF IsSet
  <2>4. n.regs["rsp"] = Base - 16 /\ n.regs["cs"] = 8
    BY <2>2, <2>3
  <2>5. OnStack(n, 13)
    <3>1. OnStack(m, 13)
      BY <2>2
    <3> QED
      BY <2>3, <3>1 DEF OnStack
  <2>6. StubAt(n, 20)
    BY <2>4, <2>5 DEF StubAt
  <2> QED
    BY <1>9, <2>1, <2>3, <2>6 DEF n, instr
<1>10. CASE k \in 21 .. 33
  <2> DEFINE reg == Saved[34 - k]
             word == Base - 16 + (k - 21)
  <2>1. instr = Pop(reg) /\ 34 - k \in 1 .. 13
    BY <1>10, CallStubIs
  <2>2. reg \in ToSet(Saved)
    BY <2>1, SavedNames
  <2>3. n = PopRegister(m, reg) /\ Plain(instr)
    <3> HIDE DEF instr, reg
    <3> HIDE <1>1, <1>2, <1>3, <1>4, <1>5
    <3> QED
      BY <2>1, PlainIs
  <2> HIDE DEF n, instr
  <2>4. m.regs["rsp"] = word /\ StillIn(m, Popped(k - 21)) /\ OnStack(m, 13)
    BY <1>10 DEF StubAt
  <2>5. word = Base - 3 - (34 - k) /\ word = Base - (37 - k) /\ 37 - k \in 1 .. 16
        /\ word + 1 = Base - 16 + (k + 1 - 21)
    BY <1>10
  <2>6. word \in Words
    BY <2>5
  <2>7. reg \in Kept => m.mem[word] = caller.regs[reg]
    BY <2>1, <2>4, <2>5 DEF OnStack
  <2> HIDE DEF reg, word
  <2>8. /\ n \in Machines /\ n.mem = m.mem /\ n.regs[reg] = m.mem[word]
        /\ n.regs["rsp"] = word + 1
        /\ \A other \in Registers \ {reg, "rsp"} : n.regs[other] = m.regs[other]
    <3>1. reg \in Registers /\ reg # "rsp"
      BY <2>2
    <3> QED
      BY <2>3, <2>4, <2>6, <3>1, PopIs
  <2>9. n.regs["cs"] = 8
    BY <2>2, <2>8
  <2>10. OnStack(n, 13)
    BY <2>4, <2>8 DEF OnStack
  <2>11. Popped(k + 1 - 21) = Popped(k - 21) \cup {reg}
    <3>1. (14 - (k + 1 - 21)) .. 13 = ((14 - (k - 21)) .. 13) \cup {34 - k}
      BY <1>10
    <3> QED
      BY <3>1 DEF Popped, reg
  <2>12. StillIn(n, Popped(k + 1 - 21))
    BY <2>4, <2>7, <2>8, <2>11, KeptIs DEF StillIn
  <2>13. k = 33 => StillIn(n, ToSet(Saved))
    <3>1. Popped(13) = ToSet(Saved)
      BY SavedNames DEF Popped
    <3>2. k = 33 => k + 1 - 21 = 13
      OBVIOUS
    <3> QED
      BY <2>12, <3>1, <3>2
  <2>14. n.regs["rsp"] = Base - 16 + (k + 1 - 21)
    BY <2>5, <2>8
  <2>15. StubAt(n, k + 1)
    BY <1>10, <2>9, <2>10, <2>12, <2>13, <2>14 DEF StubAt
  <2> QED
    BY <2>3, <2>8, <2>15 DEF n, instr
<1>11. CASE k \in 34 .. 36
  <2> DEFINE reg == IF k = 34 THEN "rsp" ELSE IF k = 35 THEN "rcx" ELSE "r11"
             word == m.regs["rsp"]
  <2>1. instr = Pop(reg)
    BY <1>11, CallStubIs
  <2>2. n = PopRegister(m, reg) /\ Plain(instr)
    <3> HIDE DEF instr, reg
    <3> HIDE <1>1, <1>2, <1>3, <1>4, <1>5
    <3> QED
      BY <2>1, PlainIs
  <2> HIDE DEF n, instr
  <2>3. StillIn(m, ToSet(Saved))
    BY <1>11 DEF StubAt
  <2>4. /\ k = 34 => word = Base - 3 /\ m.mem[word] = UserTop
        /\ k = 35 => word = UserTop
        /\ k = 36 => word = UserTop + 1
    <3>1. k = 34 => word = Base - 16 + (34 - 21) /\ OnStack(m, 13)
      BY DEF StubAt
    <3>2. k \in 35 .. 36 => word = UserTop + (k - 35)
      BY DEF StubAt
    <3> QED
      BY <3>1, <3>2 DEF OnStack
  <2>5. word \in Words
    BY <1>11, <2>4
  <2>6. reg \in {"rsp", "rcx", "r11"} /\ (reg = "rsp" <=> k = 34)
    BY <1>11
  <2> HIDE DEF reg
  <2>7. /\ n \in Machines /\ n.regs[reg] = m.mem[word]
        /\ reg # "rsp" => n.regs["rsp"] = word + 1
        /\ \A other \in Registers \ {reg, "rsp"} : n.regs[other] = m.regs[other]
    <3>1. reg \in Registers
      BY <2>6
    <3> QED
      BY <2>2, <2>5, <3>1, PopIs
  <2>8. n.regs["cs"] = 8
    BY <2>6, <2>7
  <2>9. StillIn(n, ToSet(Saved))
    BY <2>3, <2>6, <2>7, KeptIs DEF StillIn
  <2>10. n.regs["rsp"] = UserTop + (k + 1 - 35)
    <3>1. CASE k = 34
      BY <2>4, <2>6, <2>7, <3>1
    <3>2. CASE k = 35
      BY <2>4, <2>6, <2>7, <3>2
    <3>3. CASE k = 36
      BY <2>4, <2>6, <2>7, <3>3
    <3> QED
      BY <1>11, <3>1, <3>2, <3>3
  <2>11. StubAt(n, k + 1)
    BY <1>11, <2>8, <2>9, <2>10 DEF StubAt
  <2> QED
    BY <2>2, <2>7, <2>11 DEF n, instr
<1> QED
  BY <1>6, <1>7, <1>8, <1>9, <1>10, <1>11

(* What the dispatcher returns, whatever number it is given.               *)
LEMMA ResultIs ==
  ASSUME NEW number, NEW count \in Counts
  PROVE  LET r == syscall_handler(number, <<0, 0, count>>) IN r.value \in Int /\ r.error \in Int
<1>1. <<0, 0, count>>[3] = count /\ count \in Int
  BY SystemCallsAssumption
<1> QED
  BY <1>1 DEF syscall_handler, transfer, SystemCallReturn, SYSCALL_SUCCESS,
              SYSCALL_ERROR_INVALID_ARGS, SYSCALL_ERROR_INVALID_SYSCALL

(* The instruction a stub or a jump is at.                                 *)
LEMMA InstructionIs ==
  ASSUME Typed
  PROVE  /\ running = "stub" => instruction = syscall_entry(operand)[next]
         /\ running = "jump" => instruction = jump_to_usermode(jump)[next]
BY DEF instruction

(* The invariant is about the registers and the stack only.                *)
LEMMA StubHolds ==
  ASSUME StubAt(machine', next'), UNCHANGED <<caller, operand, frame>>
  PROVE  StubAt(machine, next)'
<1>1. UserTop' = UserTop /\ Base' = Base /\ Kept' = Kept
  BY DEF UserTop, Base, Kept
<1>2. \A regs : StillIn(machine', regs) => StillIn(machine, regs)'
  BY <1>1 DEF StillIn
<1>3. \A n : OnStack(machine', n) => OnStack(machine, n)'
  BY <1>1 DEF OnStack
<1> QED
  BY <1>1, <1>2, <1>3 DEF StubAt

LEMMA StillHolds ==
  ASSUME NEW regs, StillIn(machine', regs), UNCHANGED <<caller, operand, frame>>
  PROVE  StillIn(machine, regs)'
BY DEF StillIn, Kept

(* The exceptions have no part in a step of the calls.                     *)
CallsOnly == at = 0 /\ UNCHANGED <<at, vector, before, nested, report>>

LEMMA ApartKeeps ==
  ASSUME Typed, EntryInv, CallsOnly
  PROVE  EntryInv'
BY DEF Typed, EntryInv, CallsOnly, FrameFaithful

LEMMA StepKeeps ==
  ASSUME SystemInv, CallsOnly, Step
  PROVE  SystemInv'
<1>1. /\ Typed /\ EntryInv /\ at = 0 /\ at' = 0
      /\ UNCHANGED <<running, operand, jump, frame, caller, handed>>
      /\ Plain(instruction) /\ machine' = Execute(machine, instruction) /\ next' = next + 1
      /\ running \in {"stub", "jump"} /\ machine \in Machines
  BY DEF SystemInv, CallsOnly, Step, chosen, Typed
<1>2. EntryInv'
  BY <1>1, ApartKeeps
<1>3. CASE running = "stub"
  <2>1. Stubbed /\ UserTop \in UserStack /\ next \in 1 .. 37 /\ StubAt(machine, next)
    BY <1>1, <1>3 DEF SystemInv, CallInv, Stubbed, StubAt
  <2>2. instruction = syscall_entry(operand)[next]
    BY <1>1, <1>3, InstructionIs
  <2>3. next # 20 /\ next # 37
    BY <1>1, <2>2, CallStubIs, PlainIs
  <2>4. machine' \in Machines /\ StubAt(machine', next + 1)
    <3>1. next \in 1 .. 36
      BY <2>1, <2>3
    <3> QED
      BY <1>1, <2>1, <2>2, <2>3, <3>1, StubStepKeeps
  <2>5. StubAt(machine, next)'
    BY <1>1, <2>4, StubHolds
  <2>6. Stubbed'
    <3>1. UserTop' = UserTop
      BY <1>1 DEF UserTop
    <3>2. next' >= 21 => next >= 21
      BY <1>1, <2>1, <2>3
    <3> QED
      BY <1>1, <2>1, <2>5, <3>1, <3>2 DEF Stubbed
  <2>7. machine'.regs["cs"] = 8 /\ next' \in Nat
    BY <1>1, <2>1, <2>4 DEF StubAt
  <2>8. Typed'
    BY <1>1, <2>4, <2>7 DEF Typed, CallsOnly
  <2>9. CallInv'
    BY <1>1, <1>3, <2>6 DEF CallInv
  <2> QED
    BY <1>2, <2>8, <2>9 DEF SystemInv
<1>4. CASE running = "jump"
  <2>1. Jumping
    BY <1>1, <1>4 DEF SystemInv, CallInv
  <2>2. instruction = jump_to_usermode(jump)[next] /\ next \in 1 .. 4
    BY <1>1, <1>4, <2>1, InstructionIs DEF Jumping
  <2>3. next # 4
    BY <1>1, <2>2, JumpIs, PlainIs
  <2>4. /\ jump.function \in Registers /\ jump.stack \in Registers
        /\ jump.stack \notin {"rcx", "r11", "rsp"} /\ {"rcx", "r11", "rsp", "cs"} \subseteq Registers
    BY <1>1, ChosenIs, RegisterNames
  <2>5. \A reg \in Registers : machine.regs[reg] \in Int
    BY <1>1 DEF Machines
  <2>6. /\ machine' \in Machines /\ Jumping'
    <3>1. CASE next = 1
      <4>1. machine' = Set(machine, "rcx", machine.regs[jump.function])
        <5>1. instruction = Move("rcx", jump.function)
          BY <2>2, <3>1, JumpIs
        <5> QED
          BY <1>1, <5>1, MoveDoes
      <4>2. /\ machine' \in Machines /\ machine'.regs["rcx"] = machine.regs[jump.function]
            /\ \A reg \in Registers \ {"rcx"} : machine'.regs[reg] = machine.regs[reg]
        <5> DEFINE value == machine.regs[jump.function]
        <5>1. value \in Int /\ "rcx" \in Registers /\ machine \in Machines
          BY <1>1, <2>4, <2>5
        <5>2. machine' = Set(machine, "rcx", value)
          BY <4>1
        <5> HIDE DEF value
        <5>3. /\ machine' \in Machines /\ machine'.regs["rcx"] = value
              /\ \A reg \in Registers \ {"rcx"} : machine'.regs[reg] = machine.regs[reg]
          <6>1. IsSet(machine', machine, "rcx", value)
            BY <5>1, <5>2, SetIs
          <6> QED
            BY <6>1 DEF IsSet
        <5> QED
          BY <5>3 DEF value
      <4> QED
        BY <1>1, <2>1, <2>4, <3>1, <4>2 DEF Jumping
    <3>2. CASE next = 2
      <4>1. machine' = Set(machine, "rsp", machine.regs[jump.stack])
        <5>1. instruction = Move("rsp", jump.stack)
          BY <2>2, <3>2, JumpIs
        <5> QED
          BY <1>1, <5>1, MoveDoes
      <4>2. /\ machine' \in Machines /\ machine'.regs["rsp"] = machine.regs[jump.stack]
            /\ \A reg \in Registers \ {"rsp"} : machine'.regs[reg] = machine.regs[reg]
        <5> DEFINE value == machine.regs[jump.stack]
        <5>1. value \in Int /\ "rsp" \in Registers /\ machine \in Machines
          BY <1>1, <2>4, <2>5
        <5>2. machine' = Set(machine, "rsp", value)
          BY <4>1
        <5> HIDE DEF value
        <5>3. /\ machine' \in Machines /\ machine'.regs["rsp"] = value
              /\ \A reg \in Registers \ {"rsp"} : machine'.regs[reg] = machine.regs[reg]
          <6>1. IsSet(machine', machine, "rsp", value)
            BY <5>1, <5>2, SetIs
          <6> QED
            BY <6>1 DEF IsSet
        <5> QED
          BY <5>3 DEF value
      <4> QED
        BY <1>1, <2>1, <2>4, <3>2, <4>2 DEF Jumping
    <3>3. CASE next = 3
      <4>1. machine' = Set(machine, "r11", 514)
        <5>1. instruction = MoveConstant("r11", 514)
          BY <2>2, <3>3, JumpIs
        <5> QED
          BY <1>1, <5>1, MoveConstantDoes
      <4>2. /\ machine' \in Machines /\ machine'.regs["r11"] = 514
            /\ \A reg \in Registers \ {"r11"} : machine'.regs[reg] = machine.regs[reg]
        <5>1. 514 \in Int /\ "r11" \in Registers /\ machine \in Machines
          BY <1>1, <2>4
        <5> QED
          <6>1. IsSet(machine', machine, "r11", 514)
            BY <4>1, <5>1, SetIs
          <6> QED
            BY <6>1 DEF IsSet
      <4> QED
        BY <1>1, <2>1, <2>4, <3>3, <4>2 DEF Jumping
    <3> QED
      BY <2>2, <2>3, <3>1, <3>2, <3>3
  <2>7. Typed'
    <3>1. machine'.regs["cs"] = 8 /\ next' \in Nat
      BY <2>6 DEF Jumping
    <3> QED
      BY <1>1, <2>6, <3>1 DEF Typed, CallsOnly
  <2>8. CallInv'
    BY <1>1, <1>4, <2>6 DEF CallInv
  <2> QED
    BY <1>2, <2>7, <2>8 DEF SystemInv
<1> QED
  BY <1>1, <1>3, <1>4

LEMMA HandlingKeeps ==
  ASSUME SystemInv, CallsOnly, CallHandler
  PROVE  SystemInv'
<1>1. /\ Typed /\ EntryInv /\ at = 0 /\ at' = 0 /\ running = "stub" /\ instruction = Call
      /\ UNCHANGED <<running, operand, jump, frame, caller>>
      /\ handed' # <<>> /\ next' = next + 1 /\ machine \in Machines
  BY DEF SystemInv, CallsOnly, CallHandler, chosen, Typed
<1>2. EntryInv'
  BY <1>1, ApartKeeps
<1>3. UserTop \in UserStack /\ next \in 1 .. 37 /\ StubAt(machine, next)
  BY <1>1 DEF SystemInv, CallInv, Stubbed, StubAt
<1>4. next = 20
  <2>1. instruction = syscall_entry(operand)[next]
    BY <1>1, InstructionIs
  <2>2. ~ Plain(instruction) /\ instruction # Sysretq
    BY <1>1, PlainIs
  <2>3. next \in {20, 37}
    BY <1>3, <2>1, <2>2, OthersPlain
  <2>4. next # 37
    BY <2>1, <2>2, CallStubIs
  <2> QED
    BY <2>3, <2>4
<1> DEFINE number == (machine.regs["rdi"] % 2^29) * 2
           Result(r) ==
             [regs |-> [reg \in Registers |->
                          IF reg = "rax" THEN r.value ELSE IF reg = "rdx" THEN r.error
                          ELSE IF reg \in CallerSaved THEN Junk ELSE machine.regs[reg]],
              mem |-> [word \in Words |->
                         IF word < machine.regs["rsp"] THEN Junk ELSE machine.mem[word]]]
<1>5. PICK count \in Counts : machine' = Result(syscall_handler(number, <<0, 0, count>>))
  <2>1. \E r \in {syscall_handler(number, <<0, 0, count>>) : count \in Counts} : machine' = Result(r)
    BY DEF CallHandler
  <2> HIDE DEF number, Result
  <2> QED
    BY <2>1
<1> HIDE DEF number
<1> DEFINE r == syscall_handler(number, <<0, 0, count>>)
<1>6. r.value \in Int /\ r.error \in Int
  BY ResultIs
<1> HIDE DEF r
<1>7. /\ machine' \in Machines /\ machine'.regs["rsp"] = machine.regs["rsp"]
      /\ machine'.regs["cs"] = machine.regs["cs"]
      /\ \A word \in Words : ~ (word < machine.regs["rsp"]) => machine'.mem[word] = machine.mem[word]
  <2>1. machine' = Result(r)
    BY <1>5 DEF r
  <2>2. "rsp" \in Registers /\ "cs" \in Registers
    BY RegisterNames
  <2> QED
    BY <1>1, <1>6, <2>1, <2>2 DEF Machines, CallerSaved, Junk
<1>8. machine.regs["rsp"] = Base - 16 /\ machine.regs["cs"] = 8 /\ OnStack(machine, 13)
  BY <1>3, <1>4 DEF StubAt
<1>9. Base \in Int /\ \A i \in 1 .. 16 : Base - i \in Words
  BY <1>1, <1>3, StubStack
<1>10. OnStack(machine', 13)
  <2>1. \A i \in 1 .. 16 : machine'.mem[Base - i] = machine.mem[Base - i]
    BY <1>7, <1>8, <1>9
  <2>2. ASSUME NEW i \in 1 .. 13, Saved[i] \in Kept
        PROVE  machine'.mem[Base - 3 - i] = caller.regs[Saved[i]]
    <3>1. Base - 3 - i = Base - (3 + i) /\ 3 + i \in 1 .. 16
      BY <1>9
    <3> QED
      BY <1>8, <2>1, <2>2, <3>1 DEF OnStack
  <2>3. machine'.mem[Base - 3] = UserTop
    BY <1>8, <2>1 DEF OnStack
  <2> QED
    BY <2>2, <2>3 DEF OnStack
<1>11. StubAt(machine', 21)
  <2>1. Popped(21 - 21) = {}
    BY DEF Popped
  <2>2. StillIn(machine', Popped(21 - 21))
    BY <2>1 DEF StillIn
  <2>3. machine'.regs["rsp"] = Base - 16 + (21 - 21)
    BY <1>7, <1>8, <1>9
  <2> QED
    BY <1>7, <1>8, <1>10, <2>2, <2>3 DEF StubAt
<1>12. Stubbed'
  <2>1. StubAt(machine, next)'
    BY <1>1, <1>4, <1>11, StubHolds
  <2> QED
    BY <1>1, <1>3, <2>1 DEF Stubbed, UserTop
<1>13. Typed'
  BY <1>1, <1>4, <1>7, <1>8 DEF Typed, CallsOnly
<1>14. CallInv'
  BY <1>1, <1>12 DEF CallInv
<1> QED
  BY <1>2, <1>13, <1>14 DEF SystemInv

LEMMA ReturnKeeps ==
  ASSUME SystemInv, CallsOnly, Return
  PROVE  SystemInv'
<1>1. /\ Typed /\ EntryInv /\ at = 0 /\ at' = 0 /\ instruction = Sysretq
      /\ running \in {"stub", "jump"}
      /\ running' = IF running = "jump" THEN "user" ELSE "caller"
      /\ machine' = InRing3(Set(Set(machine, "rip", machine.regs["rcx"]), "rflags", machine.regs["r11"]))
      /\ UNCHANGED <<next, operand, jump, frame, caller, handed>>
      /\ machine \in Machines
  BY DEF SystemInv, CallsOnly, Return, chosen, Typed
<1>2. EntryInv'
  BY <1>1, ApartKeeps
<1>3. /\ {"rip", "rflags", "rcx", "r11", "rsp", "cs", "ss"} \subseteq Registers
      /\ machine.regs["rcx"] \in Int /\ machine.regs["r11"] \in Int
  BY <1>1, RegisterNames DEF Machines
<1>4. /\ machine' \in Machines /\ machine'.regs["cs"] = 35
      /\ machine'.regs["rip"] = machine.regs["rcx"] /\ machine'.regs["rflags"] = machine.regs["r11"]
      /\ \A reg \in Registers \ {"rip", "rflags", "cs", "ss"} : machine'.regs[reg] = machine.regs[reg]
  <2> DEFINE there == Set(machine, "rip", machine.regs["rcx"])
             whole == Set(there, "rflags", machine.regs["r11"])
  <2>1. /\ there \in Machines /\ there.regs["rip"] = machine.regs["rcx"]
        /\ \A reg \in Registers \ {"rip"} : there.regs[reg] = machine.regs[reg]
    <3>1. IsSet(there, machine, "rip", machine.regs["rcx"])
      BY <1>1, <1>3, SetIs
    <3> QED
      BY <3>1 DEF IsSet
  <2> HIDE DEF there
  <2>2. /\ whole \in Machines /\ whole.regs["rflags"] = machine.regs["r11"]
        /\ \A reg \in Registers \ {"rflags"} : whole.regs[reg] = there.regs[reg]
    <3>1. IsSet(whole, there, "rflags", machine.regs["r11"])
      BY <1>3, <2>1, SetIs
    <3> QED
      BY <3>1 DEF IsSet
  <2> HIDE DEF whole
  <2>3. machine' = InRing3(whole)
    BY <1>1 DEF whole, there
  <2> QED
    BY <1>3, <2>1, <2>2, <2>3, InRingIs
<1>5. CASE running = "stub"
  <2>1. next \in 1 .. 37 /\ StubAt(machine, next) /\ (next >= 21 => handed # <<>>)
    BY <1>1, <1>5 DEF SystemInv, CallInv, Stubbed, StubAt
  <2>2. next = 37
    <3>1. instruction = syscall_entry(operand)[next]
      BY <1>1, <1>5, InstructionIs
    <3>2. ~ Plain(instruction) /\ instruction # Call
      BY <1>1, PlainIs
    <3>3. next \in {20, 37}
      BY <2>1, <3>1, <3>2, OthersPlain
    <3>4. next # 20
      BY <3>1, <3>2, CallStubIs
    <3> QED
      BY <3>3, <3>4
  <2>3. handed # <<>> /\ StillIn(machine, ToSet(Saved))
    BY <2>1, <2>2 DEF StubAt
  <2>4. StillIn(machine', ToSet(Saved))
    BY <1>4, <2>3, KeptIs DEF StillIn
  <2>5. StillIn(machine, ToSet(Saved))'
    BY <1>1, <2>4, StillHolds
  <2>6. running' = "caller" /\ handed' # <<>>
    BY <1>1, <1>5, <2>3
  <2>7. CallInv'
    BY <1>4, <2>5, <2>6 DEF CallInv
  <2>8. Typed'
    BY <1>1, <1>4, <2>6 DEF Typed, CallsOnly
  <2> QED
    BY <1>2, <2>7, <2>8 DEF SystemInv
<1>6. CASE running = "jump"
  <2>1. Jumping /\ handed = <<>>
    BY <1>1, <1>6 DEF SystemInv, CallInv, Typed
  <2>2. next = 4
    <3>1. instruction = jump_to_usermode(jump)[next] /\ next \in 1 .. 4
      BY <1>1, <1>6, <2>1, InstructionIs DEF Jumping
    <3>2. next \notin {1, 2, 3}
      <4>1. ~ Plain(instruction)
        BY <1>1, PlainIs
      <4>2. /\ next = 1 => instruction = Move("rcx", jump.function)
            /\ next = 2 => instruction = Move("rsp", jump.stack)
            /\ next = 3 => instruction = MoveConstant("r11", 514)
        BY <3>1, JumpIs
      <4>3. /\ Plain(Move("rcx", jump.function)) /\ Plain(Move("rsp", jump.stack))
            /\ Plain(MoveConstant("r11", 514))
        BY MoveDoes, MoveConstantDoes
      <4> QED
        BY <4>1, <4>2, <4>3
    <3> QED
      BY <3>1, <3>2
  <2>3. /\ machine.regs["rcx"] = caller.regs[jump.function] /\ machine.regs["r11"] = 514
        /\ machine.regs["rsp"] = caller.regs[jump.stack] /\ caller.regs[jump.stack] \in UserStack
    BY <2>1, <2>2 DEF Jumping
  <2>4. running' = "user" /\ handed' = <<>> /\ machine'.regs["rsp"] = machine.regs["rsp"]
    BY <1>1, <1>3, <1>4, <1>6, <2>1
  <2>5. EntersUser'
    <3>1. 514 = 2^9 + 2 /\ 35 % 4 = 3
      OBVIOUS
    <3> QED
      BY <1>1, <1>4, <2>3, <2>4, <3>1 DEF EntersUser, Ring
  <2>6. CallInv'
    BY <1>4, <2>3, <2>4, <2>5 DEF CallInv
  <2>7. Typed'
    BY <1>1, <1>4, <2>4 DEF Typed, CallsOnly
  <2> QED
    BY <1>2, <2>6, <2>7 DEF SystemInv
<1> QED
  BY <1>1, <1>5, <1>6

LEMMA SyscallKeeps ==
  ASSUME SystemInv, CallsOnly, Syscall
  PROVE  SystemInv'
<1> DEFINE sp == machine.regs["rsp"] - frame
           entered == InRing0(Set(Set(machine, "rcx", Behind), "r11", machine.regs["rflags"]))
           called == IF frame = 0 THEN entered
                     ELSE [Set(entered, "rax", sp) EXCEPT
                             !.mem = [word \in Words |->
                               IF word >= sp /\ word < sp + frame THEN Junk ELSE @[word]]]
<1>1. /\ Typed /\ EntryInv /\ at = 0 /\ at' = 0
      /\ running \in {"user", "caller"} /\ handed = <<>> /\ handed' = <<>>
      /\ running' = "stub" /\ next' = 1 /\ caller' = machine
      /\ machine' = Set(called, operand, sp)
      /\ UNCHANGED <<operand, jump, frame>> /\ machine \in Machines
  BY DEF SystemInv, CallsOnly, Syscall, chosen, Typed
<1>2. EntryInv'
  BY <1>1, ApartKeeps
<1>3. machine.regs["rsp"] \in UserStack
  BY <1>1 DEF SystemInv, CallInv
<1>4. /\ {"rsp", "rcx", "r11", "rax", "cs", "ss", "rflags"} \subseteq Registers
      /\ machine.regs["rflags"] \in Int /\ machine.regs["rsp"] \in Int /\ Behind \in Int
  BY <1>1, RegisterNames DEF Machines, Behind
<1>5. /\ operand \in Registers /\ operand \notin {"rsp", "rip", "rflags", "cs", "ss"}
      /\ frame \in Nat /\ sp \in Int
  BY <1>1, <1>4, ChosenIs
<1>6. /\ entered \in Machines /\ entered.regs["cs"] = 8
      /\ \A reg \in Registers \ {"rcx", "r11", "cs", "ss"} : entered.regs[reg] = machine.regs[reg]
  <2> DEFINE there == Set(machine, "rcx", Behind)
             whole == Set(there, "r11", machine.regs["rflags"])
  <2>1. /\ there \in Machines
        /\ \A reg \in Registers \ {"rcx"} : there.regs[reg] = machine.regs[reg]
    <3>1. IsSet(there, machine, "rcx", Behind)
      BY <1>1, <1>4, SetIs
    <3> QED
      BY <3>1 DEF IsSet
  <2> HIDE DEF there
  <2>2. /\ whole \in Machines
        /\ \A reg \in Registers \ {"r11"} : whole.regs[reg] = there.regs[reg]
    <3>1. IsSet(whole, there, "r11", machine.regs["rflags"])
      BY <1>4, <2>1, SetIs
    <3> QED
      BY <3>1 DEF IsSet
  <2> HIDE DEF whole
  <2>3. entered = InRing0(whole)
    BY DEF whole, there
  <2> HIDE DEF entered
  <2> QED
    BY <2>1, <2>2, <2>3, InRingIs
<1> HIDE DEF entered, sp
<1>7. /\ called \in Machines /\ called.regs["cs"] = 8
      /\ \A reg \in Registers \ {"rcx", "r11", "cs", "ss"} :
           (reg = "rax" => frame = 0) => called.regs[reg] = machine.regs[reg]
  <2>1. CASE frame = 0
    BY <1>6, <2>1
  <2>2. CASE frame # 0
    <3> DEFINE set == Set(entered, "rax", sp)
               mem == [word \in Words |->
                         IF word >= sp /\ word < sp + frame THEN Junk ELSE set.mem[word]]
    <3>1. /\ set \in Machines
          /\ \A reg \in Registers \ {"rax"} : set.regs[reg] = entered.regs[reg]
      <4>1. entered \in Machines /\ "rax" \in Registers /\ sp \in Int
        BY <1>4, <1>5, <1>6
      <4> QED
        <5>1. IsSet(set, entered, "rax", sp)
          BY <4>1, SetIs
        <5> QED
          BY <5>1 DEF IsSet
    <3> HIDE DEF set
    <3>2. called = [set EXCEPT !.mem = mem]
      BY <2>2 DEF set
    <3>3. mem \in [Words -> Int]
      BY <3>1 DEF Machines, Junk
    <3> HIDE DEF mem, called
    <3>4. called \in Machines /\ called.regs = set.regs
      BY <3>1, <3>2, <3>3 DEF Machines
    <3> QED
      BY <1>4, <1>6, <2>2, <3>1, <3>4
  <2> QED
    BY <2>1, <2>2
<1> HIDE DEF called
<1>8. /\ machine' \in Machines /\ machine'.regs[operand] = sp
      /\ \A reg \in Registers \ {operand} : machine'.regs[reg] = called.regs[reg]
  <2>1. IsSet(machine', called, operand, sp)
    BY <1>1, <1>5, <1>7, SetIs
  <2> QED
    BY <2>1 DEF IsSet
<1>9. machine'.regs["rsp"] = machine.regs["rsp"] /\ machine'.regs["cs"] = 8
  BY <1>4, <1>5, <1>7, <1>8
<1>10. \A reg \in ToSet(Saved) \cap Kept : machine'.regs[reg] = machine.regs[reg]
  <2> TAKE reg \in ToSet(Saved) \cap Kept
  <2>1. /\ reg \in Registers \ {"rcx", "r11", "cs", "ss", operand}
        /\ reg = "rax" => frame = 0
    BY KeptIs
  <2> QED
    BY <1>7, <1>8, <2>1
<1>11. UserTop' = machine.regs["rsp"] /\ Kept' = Kept
  BY <1>1 DEF UserTop, Kept
<1>12. StillIn(machine, ToSet(Saved))'
  BY <1>1, <1>10, <1>11 DEF StillIn
<1>13. (machine.regs[operand] = UserTop - frame)'
  BY <1>1, <1>8, <1>11 DEF sp
<1>14. StubAt(machine, next)'
  BY <1>1, <1>9, <1>11, <1>12, <1>13 DEF StubAt
<1>15. Stubbed'
  BY <1>1, <1>3, <1>11, <1>14 DEF Stubbed
<1>16. Typed'
  BY <1>1, <1>8, <1>9 DEF Typed, CallsOnly
<1>17. CallInv'
  BY <1>1, <1>15 DEF CallInv
<1> QED
  BY <1>2, <1>16, <1>17 DEF SystemInv

-----------------------------------------------------------------------------
(* The beginning.                                                          *)

LEMMA InterruptedIs ==
  ASSUME NEW sp \in Int
  PROVE  /\ InterruptedMachine(sp) \in Machines
         /\ InterruptedMachine(sp).regs["rsp"] = sp /\ InterruptedMachine(sp).regs["cs"] = 8
<1> DEFINE value(reg) ==
             CASE reg = "rsp" -> sp
               [] reg \in ToSet(General) -> 100 + (CHOOSE i \in DOMAIN General : General[i] = reg)
               [] reg = "rip" -> 200 [] reg = "cs" -> 8 [] reg = "ss" -> 16
               [] reg = "rflags" -> 201
<1>1. value("rsp") = sp
  BY RegisterNames
<1>2. value("cs") = 8 /\ value("ss") = 16 /\ value("rip") = 200 /\ value("rflags") = 201
  BY RegisterNames
<1>3. ASSUME NEW reg \in ToSet(General) PROVE value(reg) \in Int
  <2> DEFINE i == CHOOSE j \in DOMAIN General : General[j] = reg
  <2>1. i \in DOMAIN General
    BY GeneralNames DEF ToSet
  <2>2. value(reg) = 100 + i
    BY RegisterNames
  <2> HIDE DEF i
  <2> QED
    BY <2>1, <2>2, GeneralNames
<1> HIDE DEF value
<1>4. \A reg \in Registers : value(reg) \in Int
  BY <1>1, <1>2, <1>3, RegisterNames
<1>5. InterruptedMachine(sp) =
        [regs |-> [reg \in Registers |-> value(reg)], mem |-> [word \in Words |-> 0]]
  BY DEF InterruptedMachine, value
<1> QED
  BY <1>1, <1>2, <1>4, <1>5, RegisterNames DEF Machines

LEMMA CallerMachineIs ==
  ASSUME NEW sp \in Int, NEW number \in Int, NEW count \in Int
  PROVE  LET m == CallerMachine(sp, number, count)
         IN  m \in Machines /\ m.regs["rsp"] = sp /\ m.regs["cs"] = 35
<1> DEFINE m0 == InterruptedMachine(sp)
           regs == [m0.regs EXCEPT !["rax"] = number, !["rdx"] = count, !["rip"] = Behind]
           mem == [word \in Words |-> Left(word)]
           m1 == [m0 EXCEPT !.regs["rax"] = number, !.regs["rdx"] = count,
                            !.regs["rip"] = Behind, !.mem = mem]
<1>1. m0 \in Machines /\ m0.regs["rsp"] = sp
  BY InterruptedIs
<1> HIDE DEF m0
<1>2. m1 = [regs |-> regs, mem |-> mem]
  <2> HIDE DEF mem
  <2>1. m0 = [regs |-> m0.regs, mem |-> m0.mem]
    BY <1>1 DEF Machines
  <2>2. m1 = [[regs |-> m0.regs, mem |-> m0.mem] EXCEPT
                !.regs["rax"] = number, !.regs["rdx"] = count, !.regs["rip"] = Behind, !.mem = mem]
    BY <2>1, Zenon
  <2> HIDE DEF m1
  <2> QED
    BY <2>2
<1>3. regs \in [Registers -> Int] /\ regs["rsp"] = sp
  BY <1>1, RegisterNames DEF Machines, Behind
<1>4. mem \in [Words -> Int]
  BY EntryAssumption DEF Left
<1> HIDE DEF regs, mem, m1
<1>5. m1 \in Machines /\ m1.regs["rsp"] = sp
  BY <1>2, <1>3, <1>4 DEF Machines
<1>6. CallerMachine(sp, number, count) = InRing3(m1)
  BY DEF CallerMachine, m1, m0, mem
<1> QED
  BY <1>5, <1>6, InRingIs, RegisterNames

LEMMA JumpMachineIs ==
  ASSUME NEW sp \in Int, NEW stack \in Int, NEW pair,
         pair.function \in ToSet(General), pair.stack \in ToSet(General)
  PROVE  LET m == JumpMachine(sp, pair, stack)
         IN  /\ m \in Machines /\ m.regs["rsp"] = sp /\ m.regs["cs"] = 8
             /\ m.regs[pair.stack] = stack
<1> DEFINE m0 == InterruptedMachine(sp)
           f == pair.function
           s == pair.stack
           regs == [m0.regs EXCEPT ![f] = Entry, ![s] = stack]
           m1 == [m0 EXCEPT !.regs[f] = Entry, !.regs[s] = stack]
<1>1. m0 \in Machines /\ m0.regs["rsp"] = sp /\ m0.regs["cs"] = 8
  BY InterruptedIs
<1>2. /\ {f, s, "rsp", "cs"} \subseteq Registers
      /\ f \notin {"rsp", "cs"} /\ s \notin {"rsp", "cs"}
  BY RegisterNames
<1>3. JumpMachine(sp, pair, stack) = m1
  BY DEF JumpMachine
<1> HIDE DEF m0, f, s
<1>4. m1 = [regs |-> regs, mem |-> m0.mem]
  <2>1. m0 = [regs |-> m0.regs, mem |-> m0.mem]
    BY <1>1 DEF Machines
  <2>2. m1 = [[regs |-> m0.regs, mem |-> m0.mem] EXCEPT !.regs[f] = Entry, !.regs[s] = stack]
    BY <2>1, Zenon
  <2> HIDE DEF m1
  <2> QED
    BY <2>2
<1>5. /\ regs \in [Registers -> Int] /\ regs["rsp"] = sp /\ regs["cs"] = 8 /\ regs[s] = stack
  BY <1>1, <1>2 DEF Machines, Entry
<1>6. m0.mem \in [Words -> Int]
  BY <1>1 DEF Machines
<1> HIDE DEF regs, m1
<1>7. m1 \in Machines /\ m1.regs = regs
  BY <1>4, <1>5, <1>6 DEF Machines
<1> QED
  BY <1>3, <1>5, <1>7 DEF s

LEMMA Begins ==
  ASSUME Init
  PROVE  SystemInv
<1>1. /\ jump \in JumpOperands /\ operand \in OperandRegisters /\ frame \in FrameWords
      /\ next = 1 /\ caller = machine /\ handed = <<>>
  BY DEF Init
<1>2. \/ running = "kernel" /\ \E sp \in StackPointers : EntryFrom(InterruptedMachine(sp))
      \/ /\ running = "caller"
         /\ \E sp \in UserStack, number \in Numbers, count \in Counts :
              EntryFrom(CallerMachine(sp, number, count))
      \/ /\ running = "jump"
         /\ \E sp \in StackPointers, stack \in UserStack : EntryFrom(JumpMachine(sp, jump, stack))
  BY DEF Init, EntryInit
<1>3. StackPointers \subseteq Int /\ UserStack \subseteq Int /\ Numbers \subseteq Int
      /\ Counts \subseteq Int /\ 0 \in 0 .. MaxNested
  BY EntryAssumption, SystemCallsAssumption
<1> DEFINE Begun ==
             /\ machine \in Machines /\ machine.regs["cs"] \in {8, 35} /\ before = machine
             /\ at = 0 /\ vector = 0 /\ nested = 0 /\ report = <<>>
             /\ running \in {"kernel", "jump", "caller"}
             /\ running = "kernel" => machine.regs["rsp"] \in StackPointers /\ machine.regs["cs"] = 8
             /\ running = "caller" => machine.regs["rsp"] \in UserStack /\ machine.regs["cs"] = 35
             /\ running = "jump" => /\ machine.regs["rsp"] \in StackPointers /\ machine.regs["cs"] = 8
                                    /\ machine.regs[jump.stack] \in UserStack
<1>4. Begun
  <2>1. ASSUME running = "kernel", NEW sp \in StackPointers, EntryFrom(InterruptedMachine(sp))
        PROVE  Begun
    <3>1. /\ InterruptedMachine(sp) \in Machines
          /\ InterruptedMachine(sp).regs["rsp"] = sp /\ InterruptedMachine(sp).regs["cs"] = 8
      BY <1>3, InterruptedIs
    <3> QED
      BY <2>1, <3>1 DEF EntryFrom
  <2>2. ASSUME running = "caller", NEW sp \in UserStack, NEW number \in Numbers,
               NEW count \in Counts, EntryFrom(CallerMachine(sp, number, count))
        PROVE  Begun
    <3> DEFINE m == CallerMachine(sp, number, count)
    <3>1. m \in Machines /\ m.regs["rsp"] = sp /\ m.regs["cs"] = 35
      BY <1>3, CallerMachineIs
    <3> QED
      BY <2>2, <3>1 DEF EntryFrom
  <2>3. ASSUME running = "jump", NEW sp \in StackPointers, NEW stack \in UserStack,
               EntryFrom(JumpMachine(sp, jump, stack))
        PROVE  Begun
    <3> DEFINE m == JumpMachine(sp, jump, stack)
    <3>1. {jump.function, jump.stack} \subseteq ToSet(General)
      BY <1>1, SystemCallsAssumption
    <3>2. /\ m \in Machines /\ m.regs["rsp"] = sp /\ m.regs["cs"] = 8
          /\ m.regs[jump.stack] = stack
      BY <1>3, <3>1, JumpMachineIs
    <3> QED
      BY <2>3, <3>2 DEF EntryFrom
  <2> QED
    BY <1>2, <2>1, <2>2, <2>3
<1>5. Typed
  BY <1>1, <1>3, <1>4 DEF Typed
<1>6. EntryInv
  BY <1>4 DEF EntryInv, FrameFaithful
<1>7. CallInv
  BY <1>1, <1>4 DEF CallInv, Jumping
<1> QED
  BY <1>5, <1>6, <1>7 DEF SystemInv

-----------------------------------------------------------------------------
(* Whatever the exceptions, the system calls and the registers that the    *)
(* compiler chooses, the stubs keep the invariant: the words that they     *)
(* have pushed so far are those of the interrupted code, and the values    *)
(* still in registers are as well.                                         *)
THEOREM StubsFollowed == Spec => []SystemInv
<1>1. Init => SystemInv
  BY Begins
<1>2. SystemInv /\ [Next]_vars => SystemInv'
  <2> SUFFICES ASSUME SystemInv, [Next]_vars PROVE SystemInv'
    OBVIOUS
  <2>1. CASE CallsOnly /\ Syscall
    BY <2>1, SyscallKeeps
  <2>2. CASE CallsOnly /\ Step
    BY <2>2, StepKeeps
  <2>3. CASE CallsOnly /\ CallHandler
    BY <2>3, HandlingKeeps
  <2>4. CASE CallsOnly /\ Return
    BY <2>4, ReturnKeeps
  <2>5. CASE Interrupt
    BY <2>5, InterruptKeeps
  <2>6. CASE UNCHANGED vars
    BY <2>6 DEF vars, entryVars, stubVars, chosen, SystemInv, Typed, EntryInv, FrameFaithful,
                CallInv, Entered, Room, Depth, Top, StackOf, Place, Pushed, Jumping, EntersUser,
                Stubbed, StubAt, StillIn, OnStack, Kept, UserTop, Base
  <2> QED
    BY <2>1, <2>2, <2>3, <2>4, <2>5, <2>6 DEF Next, CallsOnly
<1> QED
  BY <1>1, <1>2, PTL DEF Spec

(* A panic prints the registers of the code that the exception came to,    *)
(* and the number and error code of that exception (interrupts.asm and     *)
(* isr_handler), also when it came out of a user's code, in a stub, or in  *)
(* the panic of another.                                                   *)
THEOREM FrameIsFaithful == Spec => []FrameFaithful
<1>1. SystemInv => FrameFaithful
  BY DEF SystemInv, EntryInv
<1> QED
  BY <1>1, StubsFollowed, PTL

(* isr_handler is called with the alignment that its compiler relies on,   *)
(* wherever the stack was.                                                 *)
THEOREM StackIsAligned == Spec => []StackAligned
<1>1. SystemInv => StackAligned
  BY AlignedThere DEF SystemInv
<1> QED
  BY <1>1, StubsFollowed, PTL

(* After a system call the registers that syscall_entry saves, but for     *)
(* those of the result and those it overwrites first, are as they were,    *)
(* whatever the dispatcher leaves in them and below the stack.             *)
THEOREM SavedRegistersKept == Spec => []RegistersKept
<1>1. SystemInv => RegistersKept
  <2> SUFFICES ASSUME SystemInv, Returned, NEW reg \in ToSet(Saved) \ {"rax", "rdx", "r10", operand}
               PROVE  machine.regs[reg] = caller.regs[reg]
    BY DEF RegistersKept
  <2>1. StillIn(machine, ToSet(Saved))
    BY DEF SystemInv, CallInv, Returned
  <2>2. reg \in ToSet(Saved) \cap Kept
    BY DEF Kept
  <2> QED
    BY <2>1, <2>2 DEF StillIn
<1> QED
  BY <1>1, StubsFollowed, PTL

(* jump_to_usermode enters the function it is given, in ring 3 and on the  *)
(* stack it is given, for every two registers the compiler may hold them   *)
(* in.                                                                     *)
THEOREM UserIsEntered == Spec => []EntersUser
<1>1. SystemInv => EntersUser
  BY DEF SystemInv, CallInv, EntersUser
<1> QED
  BY <1>1, StubsFollowed, PTL
=============================================================================
