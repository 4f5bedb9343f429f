------------------------------ MODULE RunProofs ------------------------------
(***************************************************************************)
(* Code of the shape Run asks for keeps the calling convention, for code   *)
(* of any length, any number and depth of calls, any frames and inputs.    *)
(*                                                                         *)
(* The state of a run says nothing of the calls it has made, so the        *)
(* invariant supplies them: a chain of frames, one per call in progress,   *)
(* that holds what each function found and must give back.                 *)
(***************************************************************************)
EXTENDS Run, TLAPS

(* The functions of a code, one per place that starts one.                  *)
Functions(code) == {FunctionAt(code, e) : e \in Starts(code)}

(* Address x of the stack was written, and holds v.                         *)
Cell(c, x, v) == x \in DOMAIN c.stk /\ c.stk[x] = v

(* A processor has the registers the model gives it: their values are left  *)
(* open.                                                                    *)
IsCpu(c) ==
    /\ DOMAIN c = {"pc", "regs", "rsp", "rbp", "cmp", "stk", "mem", "trap"}
    /\ DOMAIN c.regs = Scratch \cup CalleeSaved

(* Where a frame keeps the i-th register its function saves.                *)
SaveCell(f, i) == f.base - 8 + SaveDisp(i - 1)

(* A frame is [fn, base, rbp, ret, kept]: the function that runs in it,     *)
(* where the return address lies, what rbp was on entry, where it returns   *)
(* to, and what the registers of the callee held on entry.  The caller's    *)
(* push leaves the base eight off the alignment.                            *)
IsFrame(code, f) ==
    /\ f.fn \in Functions(code)
    /\ f.base \in Int /\ f.base % 16 = 8

(* A frame f whose function has called the one of g holds what f saved; the *)
(* frame of g begins right below, and g returns to an open place of f's     *)
(* code with what f itself must keep.                                       *)
Suspended(code, c, f, g) ==
    /\ Cell(c, f.base, f.ret) /\ Cell(c, f.base - 8, f.rbp)
    /\ \A i \in 1 .. NumSaves(f.fn) : Cell(c, SaveCell(f, i), f.kept[f.fn.saves[i]])
    /\ g.base = f.base - 16 - f.fn.frame
    /\ g.rbp = f.base - 8
    /\ Open(code, f.fn, g.ret)
    /\ \A r \in CalleeSaved \ Free(f.fn) : g.kept[r] = f.kept[r]

(* Where rsp is while the function of a frame is at p: at the base at its   *)
(* entry and at a return, at the saved rbp around, below the frame in       *)
(* between.                                                                 *)
RspAt(code, f, p) ==
    IF p = f.fn.entry \/ code[p].i = "ret" THEN f.base
    ELSE IF p < f.fn.entry + 3 \/ code[p].i = "pop_rbp" THEN f.base - 8
    ELSE f.base - 8 - f.fn.frame

(* And where rbp is.                                                        *)
RbpAt(code, f, p) ==
    IF p < f.fn.entry + 2 \/ code[p].i = "ret" THEN f.rbp ELSE f.base - 8

(* Inside an epilogue the registers whose loads lie behind are as they were *)
(* on entry.                                                                *)
Restored(code, c, f) ==
    \A q \in BodyOf(f.fn) : \A i \in 1 .. NumSaves(f.fn) :
        /\ code[q].i = "ret"
        /\ c.pc \in q - 2 - NumSaves(f.fn) + i .. q
        => c.regs[f.fn.saves[i]] = f.kept[f.fn.saves[i]]

(* The frame whose function the processor is in: what the prologue saved so *)
(* far is there, rsp and rbp are in place, a register the function does not *)
(* save, or has no chance to write yet, is as it was on entry, and so are   *)
(* those an epilogue has restored.                                          *)
Top(code, c, f) ==
    /\ c.pc \in f.fn.entry .. f.fn.last
    /\ Cell(c, f.base, f.ret)
    /\ c.pc > f.fn.entry => Cell(c, f.base - 8, f.rbp)
    /\ \A i \in 1 .. NumSaves(f.fn) :
          c.pc > f.fn.entry + 2 + i => Cell(c, SaveCell(f, i), f.kept[f.fn.saves[i]])
    /\ c.rsp = RspAt(code, f, c.pc) /\ c.rbp = RbpAt(code, f, c.pc)
    /\ \A r \in CalleeSaved :
          r \notin Free(f.fn) \/ c.pc < f.fn.body => c.regs[r] = f.kept[r]
    /\ Restored(code, c, f)
    /\ code[c.pc].i = "call" => c.regs["RAX"] \in Starts(code)

(* The first frame is the one of the function the C++ caller called: j      *)
(* stands for what the caller had in its registers.                         *)
Bottom(f, j) ==
    /\ f.base = CallerRsp - 8 /\ f.rbp = 0 /\ f.ret = Halt
    /\ \A r \in CalleeSaved : f.kept[r] = j

(* The frames of the d calls in progress, one below the other, all but the  *)
(* last suspended.                                                          *)
Chain(code, c, fs, d, j) ==
    /\ d \in Nat \ {0}
    /\ \A i \in 1 .. d : IsFrame(code, fs[i])
    /\ \A i, k \in 1 .. d : i < k => fs[k].base + 16 + fs[i].fn.frame <= fs[i].base
    /\ \A i \in 1 .. d - 1 : Suspended(code, c, fs[i], fs[i + 1])
    /\ Bottom(fs[1], j)

(* The processor is in the last of the frames.                              *)
Running(code, c, fs, d, j) == Chain(code, c, fs, d, j) /\ Top(code, c, fs[d])

(* The processor is back at its caller, everything the caller may rely on   *)
(* kept.                                                                    *)
Finished(c, j) ==
    /\ c.pc = Halt
    /\ \A r \in CalleeSaved : c.regs[r] = j
    /\ c.rsp = CallerRsp /\ c.rbp = 0

-----------------------------------------------------------------------------
(* One instruction. *)

(* From c to n only registers change that the body of f may write.          *)
Quiet(c, n, f) ==
    /\ IsCpu(n) /\ n.rsp = c.rsp /\ n.rbp = c.rbp /\ n.stk = c.stk
    /\ \A r \in CalleeSaved \ Free(f) : n.regs[r] = c.regs[r]

(* RAX and RDX are no registers a callee keeps. *)
LEMMA ScratchIsNotSaved ==
    /\ Scratch \cap CalleeSaved = {}
    /\ {"RAX", "RCX", "RDX"} \subseteq Scratch
    /\ \A i \in 0 .. 3 : ArgRegs[i + 1] \in Scratch
  <1>1. CalleeSaved \subseteq {"RBX", "RSI", "RDI", "R12", "R13", "R14", "R15"}
    BY DEF CalleeSaved, AllocRegs, Range
  <1> QED
    BY <1>1 DEF Scratch, ArgRegs

(* The registers a body may write are scratch or of the callee.             *)
LEMMA FreeIsRegisters ==
    ASSUME NEW f, \A i \in 1 .. NumSaves(f) : f.saves[i] \in CalleeSaved
    PROVE  Free(f) \subseteq Scratch \cup CalleeSaved
  BY DEF Free

(* Writing a register of the function leaves the others alone. *)
LEMMA SetRegIsQuiet ==
    ASSUME NEW c, IsCpu(c), NEW f, NEW d \in Free(f), NEW v
    PROVE  Quiet(c, SetReg(c, d, v), f) /\ SetReg(c, d, v).pc = c.pc
  BY DEF IsCpu, Quiet, SetReg

(* So does arithmetic.                                                      *)
LEMMA AluIsQuiet ==
    ASSUME NEW c, IsCpu(c), NEW f, NEW d \in Free(f), NEW k, NEW b
    PROVE  Quiet(c, AluStep(c, k, d, b), f) /\ AluStep(c, k, d, b).pc = c.pc
  <1>1. CASE k = "Cmp"
    BY <1>1 DEF IsCpu, Quiet, AluStep
  <1>2. CASE k # "Cmp"
    <2> DEFINE v == Calc(k, c.regs[d], b)
               s == SetReg(c, d, v)
    <2>1. AluStep(c, k, d, b) = [s EXCEPT !.cmp = <<v, 0>>]
      BY <1>2 DEF AluStep
    <2>2. Quiet(c, s, f) /\ s.pc = c.pc
      BY SetRegIsQuiet
    <2> QED
      BY <2>1, <2>2 DEF IsCpu, Quiet
  <1> QED
    BY <1>1, <1>2

(* And so do the one-operand instructions: a division writes RAX and RDX,   *)
(* which every function may write.                                          *)
LEMMA UnaryIsQuiet ==
    ASSUME NEW c, IsCpu(c), NEW f, NEW d \in Free(f), NEW k \in UnaryOps
    PROVE  Quiet(c, UnaryStep(c, k, d), f) /\ UnaryStep(c, k, d).pc = c.pc
  <1>0. "RAX" \in Free(f) /\ "RDX" \in Free(f)
    BY ScratchIsNotSaved DEF Free
  <1>1. CASE k = "neg"
    BY <1>1, SetRegIsQuiet DEF UnaryStep
  <1>2. CASE k = "not"
    BY <1>2, SetRegIsQuiet DEF UnaryStep
  <1>3. CASE k = "idiv"
    <2> DEFINE big == c.regs["RDX"] * 2 ^ Word + (c.regs["RAX"] % 2 ^ Word)
               q == Quotient(big, c.regs[d])
               rem == Remainder(big, c.regs[d])
               n == [c EXCEPT !.regs["RAX"] = q, !.regs["RDX"] = rem]
    <2>1. UnaryStep(c, k, d) \in {Trap(c), n}
      BY <1>3 DEF UnaryStep, IDiv
    <2>2. Quiet(c, Trap(c), f) /\ Trap(c).pc = c.pc
      BY DEF Trap, IsCpu, Quiet
    <2>3. Quiet(c, n, f) /\ n.pc = c.pc
      <3> HIDE DEF q, rem
      <3> QED
        BY <1>0 DEF IsCpu, Quiet
    <2> HIDE DEF n
    <2> QED
      BY <2>1, <2>2, <2>3
  <1>4. CASE k = "cqo"
    <2> DEFINE v == IF c.regs["RAX"] < 0 THEN -1 ELSE 0
    <2>1. UnaryStep(c, k, d) = SetReg(c, "RDX", v)
      BY <1>4 DEF UnaryStep
    <2> HIDE DEF v
    <2>2. Quiet(c, SetReg(c, "RDX", v), f) /\ SetReg(c, "RDX", v).pc = c.pc
      BY <1>0, SetRegIsQuiet
    <2> QED
      BY <2>1, <2>2
  <1>5. CASE k = "Shl"
    BY <1>5, SetRegIsQuiet DEF UnaryStep
  <1>6. CASE k = "AShr"
    BY <1>6, SetRegIsQuiet DEF UnaryStep
  <1>7. CASE k = "LShr"
    BY <1>7, SetRegIsQuiet DEF UnaryStep
  <1> QED
    BY <1>1, <1>2, <1>3, <1>4, <1>5, <1>6, <1>7 DEF UnaryOps

(* What only writes registers of its function moves on to the next place. *)
LEMMA RegisterStep ==
    ASSUME NEW c, IsCpu(c), NEW f, NEW in, WritesRegisters(f, in), NEW j
    PROVE  Quiet(c, Execute(c, in, j), f) /\ Execute(c, in, j).pc = c.pc + 1
  <1> DEFINE s == Straight(c, in, j)
  <1>1. Quiet(c, s, f) /\ s.pc = c.pc
    <2>0. Quiet(c, c, f)
      BY DEF Quiet
    <2>1. CASE in.i = "mov_ri" /\ in.d \in Free(f)
      BY <2>1, SetRegIsQuiet DEF Straight
    <2>2. CASE in.i = "mov_rr" /\ in.d \in Free(f)
      BY <2>2, SetRegIsQuiet DEF Straight
    <2>3. CASE in.i = "load" /\ in.d \in Free(f)
      BY <2>3, SetRegIsQuiet DEF Straight
    <2>4. CASE in.i = "alu" /\ in.d \in Free(f)
      BY <2>4, AluIsQuiet DEF Straight
    <2>5. CASE in.i = "alu_rm" /\ in.d \in Free(f)
      BY <2>5, AluIsQuiet DEF Straight
    <2>6. CASE in.i = "alu_ri" /\ in.d \in Free(f)
      BY <2>6, AluIsQuiet DEF Straight
    <2>7. CASE in.i = "movsx" /\ in.d \in Free(f)
      BY <2>7, SetRegIsQuiet DEF Straight
    <2>8. CASE in.i = "cmovcc" /\ in.d \in Free(f)
      BY <2>8, <2>0, SetRegIsQuiet DEF Straight
    <2>9. CASE in.i = "mov_from_mem" /\ in.d \in Free(f)
      <3>1. s = Access(c, in)
        BY <2>9 DEF Straight
      <3>2. Quiet(c, Trap(c), f) /\ Trap(c).pc = c.pc
        BY DEF Trap, IsCpu, Quiet
      <3>3. s = Trap(c) \/ s = SetReg(c, in.d, c.mem[c.regs[in.s]])
        BY <3>1, <2>9 DEF Access
      <3> QED
        BY <3>2, <3>3, <2>9, SetRegIsQuiet
    <2>10. CASE in.i = "unary" /\ in.k \in UnaryOps /\ in.d \in Free(f)
      BY <2>10, UnaryIsQuiet DEF Straight
    <2>11. CASE in.i = "test_rr"
      BY <2>11 DEF Straight, IsCpu, Quiet
    <2>12. CASE in.i = "setcc"
      <3> DEFINE v == IF Holds(in.k, c.cmp[1], c.cmp[2]) THEN 1 ELSE 0
      <3>1. s = SetReg(c, "RAX", v)
        BY <2>12 DEF Straight
      <3> HIDE DEF v
      <3>2. "RAX" \in Free(f)
        BY ScratchIsNotSaved DEF Free
      <3>3. Quiet(c, SetReg(c, "RAX", v), f) /\ SetReg(c, "RAX", v).pc = c.pc
        BY <3>2, SetRegIsQuiet
      <3> QED
        BY <3>1, <3>3
    <2>13. CASE in.i = "mov_to_mem"
      <3>1. s = Access(c, in)
        BY <2>13 DEF Straight
      <3>2. \E a, v : s \in {Trap(c), [c EXCEPT !.mem[a] = v]}
        BY <3>1, <2>13 DEF Access
      <3> QED
        BY <3>2 DEF Trap, IsCpu, Quiet
    <2> HIDE DEF s
    <2> QED
      BY <2>1, <2>2, <2>3, <2>4, <2>5, <2>6, <2>7, <2>8, <2>9, <2>10, <2>11, <2>12, <2>13
      DEF WritesRegisters, RegisterOps
  <1>2. Execute(c, in, j) = [s EXCEPT !.pc = @ + 1]
    BY DEF Execute, WritesRegisters, RegisterOps
  <1> HIDE DEF s
  <1> QED
    BY <1>1, <1>2 DEF Quiet, IsCpu

(* From c to n the stack changes by a write of v to x.                      *)
Writes(c, n, x, v) ==
    n.stk = [y \in DOMAIN c.stk \cup {x} |-> IF y = x THEN v ELSE c.stk[y]]

(* A write to the stack changes one cell. *)
LEMMA WriteChangesOne ==
    ASSUME NEW c, NEW n, NEW x, NEW v, Writes(c, n, x, v)
    PROVE  /\ Cell(n, x, v)
           /\ \A y, w : y # x /\ Cell(c, y, w) => Cell(n, y, w)
  BY DEF Writes, Cell

(* From c to n no general register changes.                                 *)
SameRegs(c, n) == IsCpu(n) /\ n.regs = c.regs

(* A poke is a write that leaves registers and place alone.                 *)
LEMMA PokeWrites ==
    ASSUME NEW c, IsCpu(c), NEW x, NEW v
    PROVE  /\ SameRegs(c, Poke(c, x, v)) /\ Writes(c, Poke(c, x, v), x, v)
           /\ Poke(c, x, v).pc = c.pc /\ Poke(c, x, v).rsp = c.rsp /\ Poke(c, x, v).rbp = c.rbp
  BY DEF Poke, IsCpu, SameRegs, Writes

(* What the instructions of prologue, body and epilogue do to the stack and *)
(* its registers: the push of rbp,                                          *)
LEMMA PushStep ==
    ASSUME NEW c, IsCpu(c), NEW in, in.i = "push_rbp", NEW j
    PROVE  LET n == Execute(c, in, j)
           IN  /\ SameRegs(c, n) /\ Writes(c, n, c.rsp - 8, c.rbp)
               /\ n.pc = c.pc + 1 /\ n.rsp = c.rsp - 8 /\ n.rbp = c.rbp
  <1> DEFINE p == Poke(c, c.rsp - 8, c.rbp)
  <1>1. Execute(c, in, j) = [[p EXCEPT !.rsp = @ - 8] EXCEPT !.pc = @ + 1]
    BY DEF Execute, Straight
  <1>2. /\ SameRegs(c, p) /\ Writes(c, p, c.rsp - 8, c.rbp)
        /\ p.pc = c.pc /\ p.rsp = c.rsp /\ p.rbp = c.rbp
    BY PokeWrites
  <1> HIDE DEF p
  <1> QED
    BY <1>1, <1>2 DEF SameRegs, Writes, IsCpu

(* a store relative to rbp or rsp,                                          *)
LEMMA StoreStep ==
    ASSUME NEW c, IsCpu(c), NEW in, in.i \in {"store", "store_rsp"}, NEW j,
           NEW x, x = (IF in.i = "store" THEN c.rbp ELSE c.rsp) + in.n
    PROVE  LET n == Execute(c, in, j)
           IN  /\ SameRegs(c, n) /\ Writes(c, n, x, c.regs[in.s])
               /\ n.pc = c.pc + 1 /\ n.rsp = c.rsp /\ n.rbp = c.rbp
  <1> DEFINE p == Poke(c, x, c.regs[in.s])
  <1>1. Execute(c, in, j) = [p EXCEPT !.pc = @ + 1]
    BY DEF Execute, Straight
  <1>2. /\ SameRegs(c, p) /\ Writes(c, p, x, c.regs[in.s])
        /\ p.pc = c.pc /\ p.rsp = c.rsp /\ p.rbp = c.rbp
    BY PokeWrites
  <1> HIDE DEF p
  <1> QED
    BY <1>1, <1>2 DEF SameRegs, Writes, IsCpu

(* a call,                                                                  *)
LEMMA CallStep ==
    ASSUME NEW c, IsCpu(c), NEW in, in.i = "call", NEW j
    PROVE  LET n == Execute(c, in, j)
           IN  /\ SameRegs(c, n) /\ Writes(c, n, c.rsp - 8, c.pc + 1)
               /\ n.pc = c.regs["RAX"] /\ n.rsp = c.rsp - 8 /\ n.rbp = c.rbp
  <1> DEFINE p == Poke(c, c.rsp - 8, c.pc + 1)
  <1>1. Execute(c, in, j) = [p EXCEPT !.rsp = @ - 8, !.pc = c.regs["RAX"]]
    BY DEF Execute, Control
  <1>2. /\ SameRegs(c, p) /\ Writes(c, p, c.rsp - 8, c.pc + 1)
        /\ p.pc = c.pc /\ p.rsp = c.rsp /\ p.rbp = c.rbp
    BY PokeWrites
  <1> HIDE DEF p
  <1> QED
    BY <1>1, <1>2 DEF SameRegs, Writes, IsCpu

(* the moves between rsp and rbp and the pop of rbp,                        *)
LEMMA MoveStep ==
    ASSUME NEW c, IsCpu(c), NEW in, NEW j,
           in.i \in {"mov_rbp_rsp", "mov_rsp_rbp", "sub_rsp", "pop_rbp"}
    PROVE  LET n == Execute(c, in, j)
           IN  /\ SameRegs(c, n) /\ n.stk = c.stk /\ n.pc = c.pc + 1
               /\ in.i = "mov_rbp_rsp" => n.rsp = c.rsp /\ n.rbp = c.rsp
               /\ in.i = "mov_rsp_rbp" => n.rsp = c.rbp /\ n.rbp = c.rbp
               /\ in.i = "sub_rsp" => n.rsp = c.rsp - in.n /\ n.rbp = c.rbp
               /\ in.i = "pop_rbp" =>
                     n.rsp = c.rsp + 8 /\ n.rbp = StackCell(c, c.rsp, j)
  <1>1. CASE in.i = "mov_rbp_rsp"
    BY <1>1 DEF Execute, Straight, IsCpu, SameRegs
  <1>2. CASE in.i = "mov_rsp_rbp"
    BY <1>2 DEF Execute, Straight, IsCpu, SameRegs
  <1>3. CASE in.i = "sub_rsp"
    BY <1>3 DEF Execute, Straight, IsCpu, SameRegs
  <1>4. CASE in.i = "pop_rbp"
    <2> DEFINE v == StackCell(c, c.rsp, j)
    <2>1. Execute(c, in, j) = [[c EXCEPT !.rbp = v, !.rsp = @ + 8] EXCEPT !.pc = @ + 1]
      BY <1>4 DEF Execute, Straight
    <2> HIDE DEF v
    <2>2. LET n == Execute(c, in, j)
          IN  SameRegs(c, n) /\ n.stk = c.stk /\ n.pc = c.pc + 1 /\ n.rsp = c.rsp + 8 /\ n.rbp = v
      BY <2>1 DEF IsCpu, SameRegs
    <2> QED
      BY <2>2, <1>4 DEF v
  <1> QED
    BY <1>1, <1>2, <1>3, <1>4

(* a jump, taken or not,                                                    *)
LEMMA JumpStep ==
    ASSUME NEW c, IsCpu(c), NEW in, in.i \in {"jmp", "jcc"}, NEW j
    PROVE  LET n == Execute(c, in, j)
           IN  /\ SameRegs(c, n) /\ n.stk = c.stk /\ n.rsp = c.rsp /\ n.rbp = c.rbp
               /\ \/ n.pc = c.pc + in.n
                  \/ in.i = "jcc" /\ n.pc = c.pc + 1
  <1>1. CASE in.i = "jmp"
    BY <1>1 DEF Execute, Control, IsCpu, SameRegs
  <1>2. CASE in.i = "jcc"
    <2> DEFINE o == IF Holds(in.k, c.cmp[1], c.cmp[2]) THEN in.n ELSE 1
    <2>1. Execute(c, in, j) = [c EXCEPT !.pc = @ + o]
      BY <1>2 DEF Execute, Control
    <2>2. o = in.n \/ o = 1
      OBVIOUS
    <2> HIDE DEF o
    <2> QED
      BY <2>1, <2>2, <1>2 DEF IsCpu, SameRegs
  <1> QED
    BY <1>1, <1>2

(* and a return.                                                            *)
LEMMA RetStep ==
    ASSUME NEW c, IsCpu(c), NEW in, in.i = "ret", NEW j
    PROVE  LET n == Execute(c, in, j)
           IN  /\ SameRegs(c, n) /\ n.stk = c.stk /\ n.pc = StackCell(c, c.rsp, j)
               /\ n.rsp = c.rsp + 8 /\ n.rbp = c.rbp
  <1> DEFINE v == StackCell(c, c.rsp, j)
  <1>1. Execute(c, in, j) = [c EXCEPT !.pc = v, !.rsp = @ + 8]
    BY DEF Execute, Control
  <1> HIDE DEF v
  <1>2. LET n == Execute(c, in, j)
        IN  SameRegs(c, n) /\ n.stk = c.stk /\ n.pc = v /\ n.rsp = c.rsp + 8 /\ n.rbp = c.rbp
    BY <1>1 DEF IsCpu, SameRegs
  <1> QED
    BY <1>2 DEF v

-----------------------------------------------------------------------------
(* The places of a function. *)

(* The function found at a start begins there.                              *)
LEMMA FunctionStarts ==
    ASSUME NEW code, NEW e, Shaped(code, e), NEW s \in Starts(code)
    PROVE  /\ FunctionAt(code, s) \in Functions(code)
           /\ FunctionAt(code, s).entry = s
  BY DEF Functions, FunctionAt

(* In shaped code every function has its shape, however many registers it   *)
(* saves.                                                                   *)
LEMMA FunctionsAreShaped ==
    ASSUME NEW code, NEW e, Shaped(code, e), NEW f \in Functions(code)
    PROVE  IsFunction(code, f) /\ f.entry \in Starts(code) /\ NumSaves(f) \in Nat
  <1>1. PICK s \in Starts(code) : f = FunctionAt(code, s)
    BY DEF Functions
  <1>2. IsFunction(code, f) /\ f.entry = s
    BY <1>1, FunctionStarts DEF Shaped
  <1>3. NumSaves(f) \in Nat
    BY <1>2 DEF IsFunction, NumSaves
  <1> QED
    BY <1>1, <1>2, <1>3

(* What an instruction of a body tells of the places it leads to.           *)
LEMMA BodyInstruction ==
    ASSUME NEW code, NEW f, IsFunction(code, f), NEW p \in BodyOf(f)
    PROVE  /\ p \in Nat /\ p <= f.last
           /\ code[p].i = "mov_rsp_rbp" => p + 2 \in BodyOf(f) /\ code[p + 2].i = "ret"
           /\ code[p].i = "pop_rbp" => p + 1 \in BodyOf(f) /\ code[p + 1].i = "ret"
           /\ code[p].i = "ret" => HasEpilogue(code, f, p)
           /\ code[p].i = "call" =>
                 /\ p > f.body
                 /\ code[p - 1].i = "mov_ri" /\ code[p - 1].d = "RAX" /\ code[p - 1].n \in Starts(code)
           /\ code[p].i \in {"jmp", "jcc"} => Open(code, f, p + code[p].n)
           /\ code[p].i \notin {"jmp", "ret"} => p + 1 \in BodyOf(f)
  <1>1. p \in Nat /\ p <= f.last /\ f.body <= p
    BY DEF IsFunction, BodyOf
  <1>2. code[p].i \notin {"jmp", "ret"} => p + 1 \in BodyOf(f)
    BY <1>1 DEF IsFunction, HasBody, BodyOf
  <1>3. WritesRegisters(f, code[p]) => code[p].i \notin {"mov_rsp_rbp", "pop_rbp", "ret", "call", "jmp", "jcc"}
    BY DEF WritesRegisters, RegisterOps
  <1>4. WritesFrame(f, code[p]) => code[p].i \notin {"mov_rsp_rbp", "pop_rbp", "ret", "call", "jmp", "jcc"}
    BY DEF WritesFrame
  <1>5. \/ WritesRegisters(f, code[p]) \/ WritesFrame(f, code[p])
        \/ Goes(code, f, p) \/ Leaves(code, f, p)
    BY DEF IsFunction, HasBody
  <1> QED
    BY <1>1, <1>2, <1>3, <1>4, <1>5 DEF Goes, Leaves

(* An open place is no return, no pop and no call, and lies in no epilogue. *)
LEMMA OpenPlace ==
    ASSUME NEW code, NEW f, IsFunction(code, f), NumSaves(f) \in Nat, NEW p, Open(code, f, p)
    PROVE  /\ p \in BodyOf(f) /\ code[p].i \notin {"ret", "pop_rbp", "call"}
           /\ \A q \in BodyOf(f), i \in 1 .. NumSaves(f) :
                 code[q].i = "ret" => p \notin q - 2 - NumSaves(f) + i .. q
  <1>1. p \in BodyOf(f) /\ p \in Nat
    BY DEF Open, IsFunction, BodyOf
  <1>2. code[p].i # "ret"
    BY <1>1 DEF Open
  <1>3. code[p].i # "pop_rbp"
    BY <1>1, BodyInstruction DEF Open
  <1>4. ASSUME NEW q \in BodyOf(f), NEW i \in 1 .. NumSaves(f), code[q].i = "ret"
        PROVE  p \notin q - 2 - NumSaves(f) + i .. q
    <2>1. q \in Nat
      BY DEF IsFunction, BodyOf
    <2> QED
      BY <1>1, <1>4, <2>1 DEF Open
  <1> QED
    BY <1>1, <1>2, <1>3, <1>4 DEF Open

(* What comes right before a place inside an epilogue is the load of that   *)
(* epilogue before it: the epilogue cannot be entered in the middle.        *)
LEMMA BeforeInside ==
    ASSUME NEW code, NEW f, IsFunction(code, f), NumSaves(f) \in Nat,
           NEW p \in BodyOf(f), code[p].i \notin {"mov_rsp_rbp", "pop_rbp"},
           NEW q \in BodyOf(f), code[q].i = "ret", NEW i \in 1 .. NumSaves(f),
           p + 1 \in q - 2 - NumSaves(f) + i .. q
    PROVE  LET m == p - (q - 3 - NumSaves(f))
           IN  /\ m \in i .. NumSaves(f)
               /\ code[p].i = "load" /\ code[p].d = f.saves[m] /\ code[p].n = SaveDisp(m - 1)
               /\ m # i => p \in q - 2 - NumSaves(f) + i .. q
  <1> DEFINE k == NumSaves(f)
             m == p - (q - 3 - k)
  <1>1. p \in Nat /\ q \in Nat /\ k \in Nat /\ i \in 1 .. k
    BY DEF IsFunction, BodyOf
  <1>2. HasEpilogue(code, f, q)
    BY BodyInstruction
  <1>3. p # q - 1 /\ p # q - 2
    BY <1>1, <1>2 DEF HasEpilogue
  <1>4. p + 1 \in q - 2 - k + i .. q
    OBVIOUS
  <1>5. m \in i .. k /\ m \in 1 .. k /\ q - 3 - k + m = p /\ (m # i => p \in q - 2 - k + i .. q)
    <2> HIDE DEF k
    <2> QED
      BY <1>1, <1>3, <1>4
  <1>6. LET in == code[q - 3 - k + m]
        IN  in.i = "load" /\ in.d = f.saves[m] /\ in.n = SaveDisp(m - 1)
    BY <1>2, <1>5 DEF HasEpilogue
  <1> QED
    BY <1>5, <1>6

(* What falls through stays in the body, and reaches a call only from the   *)
(* move of its target.                                                      *)
LEMMA FallsThrough ==
    ASSUME NEW code, NEW f, IsFunction(code, f), NumSaves(f) \in Nat, NEW p \in BodyOf(f),
           code[p].i \notin {"jmp", "ret", "mov_rsp_rbp", "pop_rbp"}
    PROVE  /\ p + 1 \in BodyOf(f) /\ code[p + 1].i \notin {"ret", "pop_rbp"}
           /\ code[p + 1].i = "call" =>
                 code[p].i = "mov_ri" /\ code[p].d = "RAX" /\ code[p].n \in Starts(code)
  <1>1. p + 1 \in BodyOf(f) /\ p \in Nat
    BY BodyInstruction
  <1>2. (p + 1) - 1 = p /\ (p + 2) - 1 = p + 1 /\ (p + 2) - 2 = p /\ (p + 1) + 1 = p + 2
    BY <1>1
  <1>3. code[p + 1].i # "ret"
    <2> SUFFICES ASSUME code[p + 1].i = "ret" PROVE FALSE
      OBVIOUS
    <2>1. HasEpilogue(code, f, p + 1)
      BY <1>1, BodyInstruction
    <2> QED
      BY <2>1, <1>2 DEF HasEpilogue
  <1>4. code[p + 1].i # "pop_rbp"
    <2> SUFFICES ASSUME code[p + 1].i = "pop_rbp" PROVE FALSE
      OBVIOUS
    <2>1. p + 2 \in BodyOf(f) /\ code[p + 2].i = "ret"
      BY <1>1, <1>2, BodyInstruction
    <2>2. HasEpilogue(code, f, p + 2)
      BY <2>1, BodyInstruction
    <2> QED
      BY <2>2, <1>2 DEF HasEpilogue
  <1>5. ASSUME code[p + 1].i = "call"
        PROVE  code[p].i = "mov_ri" /\ code[p].d = "RAX" /\ code[p].n \in Starts(code)
    <2> DEFINE r == p + 1
    <2>1. /\ code[r - 1].i = "mov_ri" /\ code[r - 1].d = "RAX" /\ code[r - 1].n \in Starts(code)
      <3> HIDE DEF r
      <3>1. r \in BodyOf(f) /\ code[r].i = "call"
        BY <1>1, <1>5 DEF r
      <3> QED
        BY <3>1, BodyInstruction
    <2> QED
      BY <2>1, <1>2
  <1> QED
    BY <1>1, <1>3, <1>4, <1>5

-----------------------------------------------------------------------------
(* What a step keeps of the frames. *)

(* A chain of frames stays if no cell above the base of its last changes.   *)
LEMMA ChainKeeps ==
    ASSUME NEW code, NEW e, Shaped(code, e), NEW c, NEW n, NEW fs, NEW d, NEW j,
           Chain(code, c, fs, d, j),
           \A x, v : x \in Int /\ x > fs[d].base /\ Cell(c, x, v) => Cell(n, x, v)
    PROVE  Chain(code, n, fs, d, j)
  <1>1. ASSUME NEW i \in 1 .. d - 1
        PROVE  Suspended(code, n, fs[i], fs[i + 1])
    <2> DEFINE f == fs[i]
               g == fs[i + 1]
               k == NumSaves(f.fn)
    <2>1. Suspended(code, c, f, g)
      BY DEF Chain
    <2>2. d \in Nat /\ i \in 1 .. d /\ d \in 1 .. d /\ i < d
      BY DEF Chain
    <2>3. f.base \in Int /\ fs[d].base \in Int /\ f.fn \in Functions(code)
      BY <2>2 DEF Chain, IsFrame
    <2>4. k \in Nat /\ f.fn.frame \in Nat /\ 8 * k <= f.fn.frame
      BY <2>3, FunctionsAreShaped DEF IsFunction, HasPrologue
    <2>5. fs[d].base + 16 + f.fn.frame <= f.base
      BY <2>2 DEF Chain
    <2>6. f.base > fs[d].base /\ f.base - 8 > fs[d].base
      BY <2>3, <2>4, <2>5
    <2>7. ASSUME NEW s \in 1 .. k
          PROVE  SaveCell(f, s) \in Int /\ SaveCell(f, s) > fs[d].base
      <3>1. SaveCell(f, s) = f.base - 8 - 8 * s
        BY <2>3, <2>4 DEF SaveCell, SaveDisp
      <3> HIDE DEF f, k
      <3> QED
        BY <3>1, <2>3, <2>4, <2>5
    <2>8. Cell(n, f.base, f.ret) /\ Cell(n, f.base - 8, f.rbp)
      BY <2>1, <2>3, <2>6 DEF Suspended
    <2>9. \A s \in 1 .. k : Cell(n, SaveCell(f, s), f.kept[f.fn.saves[s]])
      BY <2>1, <2>7 DEF Suspended
    <2> QED
      BY <2>1, <2>8, <2>9 DEF Suspended
  <1> QED
    BY <1>1 DEF Chain

(* And its last frame stays if the cells from its saved registers upwards,  *)
(* rsp, rbp and the registers the function does not save are kept.          *)
LEMMA TopKeeps ==
    ASSUME NEW code, NEW e, Shaped(code, e), NEW c, NEW n, NEW f,
           IsFrame(code, f), Top(code, c, f),
           c.pc \in BodyOf(f.fn), code[c.pc].i \notin {"ret", "pop_rbp", "mov_rsp_rbp"},
           n.rsp = c.rsp, n.rbp = c.rbp,
           \A x, v : x \in Int /\ x >= SaveCell(f, NumSaves(f.fn)) /\ Cell(c, x, v) => Cell(n, x, v),
           \A r \in CalleeSaved \ Free(f.fn) : n.regs[r] = c.regs[r],
           n.pc \in BodyOf(f.fn), code[n.pc].i \notin {"ret", "pop_rbp"},
           Restored(code, n, f),
           code[n.pc].i = "call" => n.regs["RAX"] \in Starts(code)
    PROVE  Top(code, n, f)
  <1> DEFINE k == NumSaves(f.fn)
  <1>1. IsFunction(code, f.fn) /\ k \in Nat /\ f.base \in Int
    BY FunctionsAreShaped DEF IsFrame
  <1>2. /\ f.fn.entry \in Nat /\ f.fn.body \in Nat /\ f.fn.last \in Nat
        /\ f.fn.entry + 3 <= f.fn.body /\ f.fn.body = f.fn.entry + 3 + k
    BY <1>1 DEF IsFunction, NumSaves
  <1>3. c.pc \in Nat /\ c.pc >= f.fn.body /\ n.pc \in Nat /\ n.pc >= f.fn.body /\ n.pc <= f.fn.last
    BY <1>2 DEF BodyOf
  <1>4. SaveCell(f, k) = f.base - 8 - 8 * k
    BY <1>1 DEF SaveCell, SaveDisp
  <1>5. n.pc \in f.fn.entry .. f.fn.last
    BY <1>2, <1>3
  <1>6. Cell(n, f.base, f.ret) /\ Cell(n, f.base - 8, f.rbp)
    <2>1. Cell(c, f.base, f.ret) /\ Cell(c, f.base - 8, f.rbp)
      BY <1>2, <1>3 DEF Top
    <2>2. f.base >= SaveCell(f, k) /\ f.base - 8 >= SaveCell(f, k)
      BY <1>1, <1>4
    <2> QED
      BY <1>1, <2>1, <2>2
  <1>7. ASSUME NEW i \in 1 .. k
        PROVE  Cell(n, SaveCell(f, i), f.kept[f.fn.saves[i]])
    <2>1. Cell(c, SaveCell(f, i), f.kept[f.fn.saves[i]])
      <3>1. c.pc > f.fn.entry + 2 + i
        <4> HIDE DEF k
        <4> QED
          BY <1>1, <1>2, <1>3
      <3> QED
        BY <3>1 DEF Top
    <2>2. SaveCell(f, i) = f.base - 8 - 8 * i
      BY <1>1 DEF SaveCell, SaveDisp
    <2>3. SaveCell(f, i) \in Int /\ SaveCell(f, i) >= SaveCell(f, k)
      <3> HIDE DEF k
      <3> QED
        BY <1>1, <1>4, <2>2
    <2> QED
      BY <2>1, <2>3
  <1>8. RspAt(code, f, n.pc) = RspAt(code, f, c.pc) /\ RbpAt(code, f, n.pc) = RbpAt(code, f, c.pc)
    BY <1>2, <1>3 DEF RspAt, RbpAt
  <1>9. ASSUME NEW r \in CalleeSaved, r \notin Free(f.fn) \/ n.pc < f.fn.body
        PROVE  n.regs[r] = f.kept[r]
    BY <1>9, <1>2, <1>3 DEF Top
  <1>10. n.rsp = RspAt(code, f, n.pc) /\ n.rbp = RbpAt(code, f, n.pc)
    BY <1>8 DEF Top
  <1> QED
    BY <1>5, <1>6, <1>7, <1>9, <1>10 DEF Top

(* A load writes its register from the frame,                               *)
LEMMA LoadStep ==
    ASSUME NEW c, IsCpu(c), NEW in, in.i = "load", in.d \in Scratch \cup CalleeSaved, NEW j
    PROVE  LET n == Execute(c, in, j)
           IN  /\ n.regs[in.d] = StackCell(c, c.rbp + in.n, j)
               /\ \A r \in CalleeSaved : r # in.d => n.regs[r] = c.regs[r]
  <1> DEFINE v == StackCell(c, c.rbp + in.n, j)
  <1>1. Execute(c, in, j) = [[c EXCEPT !.regs[in.d] = v] EXCEPT !.pc = @ + 1]
    BY DEF Execute, Straight, SetReg
  <1> HIDE DEF v
  <1>2. LET n == Execute(c, in, j)
        IN  n.regs[in.d] = v /\ \A r \in CalleeSaved : r # in.d => n.regs[r] = c.regs[r]
    BY <1>1 DEF IsCpu
  <1> QED
    BY <1>2 DEF v

(* and a move of a constant its register from the instruction.              *)
LEMMA MovRIStep ==
    ASSUME NEW c, IsCpu(c), NEW in, in.i = "mov_ri", in.d = "RAX", NEW j
    PROVE  Execute(c, in, j).regs["RAX"] = in.n
  BY ScratchIsNotSaved DEF Execute, Straight, SetReg, IsCpu

(* The invariant of the processor while it is inside the code.              *)
Here(code, c, fs, d, j) ==
    IsCpu(c) /\ Running(code, c, fs, d, j)

(* What the other lemmas use of the processor being inside the code.        *)
LEMMA HereFacts ==
    ASSUME NEW code, NEW e, Shaped(code, e), NEW c, NEW fs, NEW d, NEW j, Here(code, c, fs, d, j)
    PROVE  LET f == fs[d] IN
           /\ IsCpu(c) /\ Chain(code, c, fs, d, j) /\ Top(code, c, f)
           /\ IsFrame(code, f) /\ IsFunction(code, f.fn) /\ NumSaves(f.fn) \in Nat
           /\ f.base \in Int /\ f.fn.frame \in Nat /\ 8 * NumSaves(f.fn) <= f.fn.frame
           /\ f.fn.entry \in Nat /\ f.fn.body \in Nat /\ f.fn.last \in Nat
           /\ f.fn.entry + 3 <= f.fn.body /\ f.fn.body = f.fn.entry + 3 + NumSaves(f.fn)
           /\ f.fn.body <= f.fn.last
           /\ SaveCell(f, NumSaves(f.fn)) = f.base - 8 - 8 * NumSaves(f.fn)
           /\ d \in Nat \ {0}
  <1> DEFINE f == fs[d]
  <1>1. IsCpu(c) /\ Chain(code, c, fs, d, j) /\ Top(code, c, f) /\ d \in Nat \ {0}
    BY DEF Here, Running, Chain
  <1>2. IsFrame(code, f)
    <2>1. d \in 1 .. d
      BY <1>1
    <2> QED
      BY <1>1, <2>1 DEF Chain
  <1>3. IsFunction(code, f.fn) /\ NumSaves(f.fn) \in Nat /\ f.base \in Int
    BY <1>2, FunctionsAreShaped DEF IsFrame
  <1>4. f.fn.frame \in Nat /\ 8 * NumSaves(f.fn) <= f.fn.frame
    BY <1>3 DEF IsFunction, HasPrologue
  <1>5. /\ f.fn.entry \in Nat /\ f.fn.body \in Nat /\ f.fn.last \in Nat
        /\ f.fn.entry + 3 <= f.fn.body /\ f.fn.body = f.fn.entry + 3 + NumSaves(f.fn)
        /\ f.fn.body <= f.fn.last
    BY <1>3 DEF IsFunction, NumSaves
  <1>6. SaveCell(f, NumSaves(f.fn)) = f.base - 8 - 8 * NumSaves(f.fn)
    BY <1>3 DEF SaveCell, SaveDisp
  <1> QED
    BY <1>1, <1>2, <1>3, <1>4, <1>5, <1>6

(* One step of an epilogue restores one more register, and none is lost.    *)
LEMMA StaysRestored ==
    ASSUME NEW code, NEW f, IsFunction(code, f.fn), NumSaves(f.fn) \in Nat,
           NEW c, IsCpu(c), NEW j, NEW n, n = Execute(c, code[c.pc], j),
           Top(code, c, f), c.pc \in BodyOf(f.fn), n.pc = c.pc + 1,
           code[c.pc].i \notin {"ret", "pop_rbp", "mov_rsp_rbp"}
    PROVE  Restored(code, n, f)
  <1> DEFINE k == NumSaves(f.fn)
             p == c.pc
  <1> SUFFICES ASSUME NEW q \in BodyOf(f.fn), NEW i \in 1 .. k, code[q].i = "ret",
                      p + 1 \in q - 2 - k + i .. q
               PROVE  n.regs[f.fn.saves[i]] = f.kept[f.fn.saves[i]]
    BY DEF Restored
  <1> DEFINE m == p - (q - 3 - k)
  <1>1. /\ m \in i .. k
        /\ code[p].i = "load" /\ code[p].d = f.fn.saves[m] /\ code[p].n = SaveDisp(m - 1)
        /\ m # i => p \in q - 2 - k + i .. q
    BY BeforeInside
  <1> HIDE DEF m
  <1>2. m \in 1 .. k
    BY <1>1
  <1>3. \A s \in 1 .. k : f.fn.saves[s] \in CalleeSaved
    BY DEF IsFunction, HasPrologue, SavesRegister
  <1>4. /\ f.fn.entry \in Nat /\ f.fn.body \in Nat /\ p \in Nat /\ p >= f.fn.body
        /\ f.fn.body = f.fn.entry + 3 + k /\ k \in Nat
    BY DEF IsFunction, BodyOf, NumSaves
  <1>5. c.rbp = f.base - 8
    BY <1>4 DEF Top, RbpAt
  <1>6. Cell(c, SaveCell(f, m), f.kept[f.fn.saves[m]])
    <2>1. p > f.fn.entry + 2 + m
      <3> HIDE DEF k, p
      <3> QED
        BY <1>2, <1>4
    <2> QED
      BY <1>2, <2>1 DEF Top
  <1>7. n.regs[f.fn.saves[m]] = f.kept[f.fn.saves[m]]
    <2>1. n.regs[f.fn.saves[m]] = StackCell(c, c.rbp + SaveDisp(m - 1), j)
      BY <1>1, <1>2, <1>3, LoadStep
    <2> QED
      BY <2>1, <1>5, <1>6 DEF StackCell, Cell, SaveCell
  <1>8. CASE f.fn.saves[i] = f.fn.saves[m]
    BY <1>7, <1>8
  <1>9. CASE f.fn.saves[i] # f.fn.saves[m]
    <2>1. p \in q - 2 - k + i .. q
      BY <1>1, <1>9
    <2>2. c.regs[f.fn.saves[i]] = f.kept[f.fn.saves[i]]
      BY <2>1 DEF Top, Restored
    <2>3. n.regs[f.fn.saves[i]] = c.regs[f.fn.saves[i]]
      BY <1>1, <1>2, <1>3, <1>9, LoadStep
    <2> QED
      BY <2>2, <2>3
  <1> QED
    BY <1>8, <1>9

-----------------------------------------------------------------------------
(* A step from each kind of place. *)

(* A register may be written: all frames are kept,                          *)
LEMMA RegisterKeeps ==
    ASSUME NEW code, NEW e, Shaped(code, e), NEW c, NEW fs, NEW d, NEW j, Here(code, c, fs, d, j),
           c.pc \in BodyOf(fs[d].fn), WritesRegisters(fs[d].fn, code[c.pc])
    PROVE  Here(code, Execute(c, code[c.pc], j), fs, d, j)
  <1> DEFINE f == fs[d]
             n == Execute(c, code[c.pc], j)
             p == c.pc
  <1>1. /\ IsCpu(c) /\ Chain(code, c, fs, d, j) /\ Top(code, c, f)
        /\ IsFrame(code, f) /\ IsFunction(code, f.fn) /\ NumSaves(f.fn) \in Nat
    BY HereFacts
  <1>2. Quiet(c, n, f.fn) /\ n.pc = p + 1
    BY <1>1, RegisterStep
  <1>3. code[p].i \notin {"ret", "pop_rbp", "mov_rsp_rbp", "jmp"}
    BY DEF WritesRegisters, RegisterOps
  <1>4. /\ p + 1 \in BodyOf(f.fn) /\ code[p + 1].i \notin {"ret", "pop_rbp"}
        /\ code[p + 1].i = "call" =>
              code[p].i = "mov_ri" /\ code[p].d = "RAX" /\ code[p].n \in Starts(code)
    BY <1>1, <1>3, FallsThrough
  <1>5. Restored(code, n, f)
    BY <1>1, <1>2, <1>3, StaysRestored
  <1>6. code[n.pc].i = "call" => n.regs["RAX"] \in Starts(code)
    BY <1>1, <1>2, <1>4, MovRIStep
  <1>7. \A x, v : Cell(c, x, v) => Cell(n, x, v)
    BY <1>2 DEF Quiet, Cell
  <1>8. IsCpu(n) /\ n.rsp = c.rsp /\ n.rbp = c.rbp /\ \A r \in CalleeSaved \ Free(f.fn) : n.regs[r] = c.regs[r]
    BY <1>2 DEF Quiet
  <1> HIDE DEF n, f
  <1>9. Chain(code, n, fs, d, j)
    BY <1>1, <1>7, ChainKeeps
  <1>10. Top(code, n, f)
    BY <1>1, <1>2, <1>3, <1>4, <1>5, <1>6, <1>7, <1>8, TopKeeps DEF f
  <1> QED
    BY <1>8, <1>9, <1>10 DEF Here, Running, f, n

(* a jump taken,                                                            *)
LEMMA JumpKeeps ==
    ASSUME NEW code, NEW e, Shaped(code, e), NEW c, NEW fs, NEW d, NEW j, Here(code, c, fs, d, j),
           c.pc \in BodyOf(fs[d].fn), code[c.pc].i \in {"jmp", "jcc"}
    PROVE  Here(code, Execute(c, code[c.pc], j), fs, d, j)
  <1> DEFINE f == fs[d]
             n == Execute(c, code[c.pc], j)
             p == c.pc
  <1>1. /\ IsCpu(c) /\ Chain(code, c, fs, d, j) /\ Top(code, c, f)
        /\ IsFrame(code, f) /\ IsFunction(code, f.fn) /\ NumSaves(f.fn) \in Nat
    BY HereFacts
  <1>2. /\ SameRegs(c, n) /\ n.stk = c.stk /\ n.rsp = c.rsp /\ n.rbp = c.rbp
        /\ \/ n.pc = p + code[p].n
           \/ code[p].i = "jcc" /\ n.pc = p + 1
    BY <1>1, JumpStep
  <1>3. /\ n.pc \in BodyOf(f.fn) /\ code[n.pc].i \notin {"ret", "pop_rbp", "call"}
        /\ Restored(code, n, f)
    <2>1. CASE n.pc = p + code[p].n
      <3>1. Open(code, f.fn, n.pc)
        BY <1>1, <2>1, BodyInstruction
      <3> QED
        BY <1>1, <3>1, OpenPlace DEF Restored
    <2>2. CASE code[p].i = "jcc" /\ n.pc = p + 1
      <3>1. /\ p + 1 \in BodyOf(f.fn) /\ code[p + 1].i \notin {"ret", "pop_rbp"}
            /\ code[p + 1].i # "call"
        BY <1>1, <2>2, FallsThrough
      <3>2. Restored(code, n, f)
        BY <1>1, <2>2, StaysRestored
      <3> QED
        BY <2>2, <3>1, <3>2
    <2> QED
      BY <1>2, <2>1, <2>2
  <1>4. IsCpu(n) /\ \A r \in CalleeSaved \ Free(f.fn) : n.regs[r] = c.regs[r]
    BY <1>2 DEF SameRegs
  <1>5. \A x, v : Cell(c, x, v) => Cell(n, x, v)
    BY <1>2 DEF Cell
  <1> HIDE DEF n, f
  <1>6. Chain(code, n, fs, d, j)
    BY <1>1, <1>5, ChainKeeps
  <1>7. Top(code, n, f)
    BY <1>1, <1>2, <1>3, <1>4, <1>5, TopKeeps DEF f
  <1> QED
    BY <1>4, <1>6, <1>7 DEF Here, Running, f, n

(* and a slot or an outgoing argument stored, below what the frame keeps    *)
(* and not below rsp.                                                       *)
LEMMA WriteKeeps ==
    ASSUME NEW code, NEW e, Shaped(code, e), NEW c, NEW fs, NEW d, NEW j, Here(code, c, fs, d, j),
           c.pc \in BodyOf(fs[d].fn), WritesFrame(fs[d].fn, code[c.pc])
    PROVE  LET n == Execute(c, code[c.pc], j)
           IN  /\ Here(code, n, fs, d, j)
               /\ \E x, v : Writes(c, n, x, v) /\ n.rsp <= x /\ x < c.rbp
  <1> DEFINE f == fs[d]
             n == Execute(c, code[c.pc], j)
             p == c.pc
             k == NumSaves(f.fn)
             x == (IF code[p].i = "store" THEN c.rbp ELSE c.rsp) + code[p].n
             v == c.regs[code[p].s]
  <1>1. /\ IsCpu(c) /\ Chain(code, c, fs, d, j) /\ Top(code, c, f)
        /\ IsFrame(code, f) /\ IsFunction(code, f.fn) /\ k \in Nat
        /\ f.base \in Int /\ f.fn.frame \in Nat /\ 8 * k <= f.fn.frame
        /\ f.fn.entry \in Nat /\ f.fn.body \in Nat /\ f.fn.entry + 3 <= f.fn.body
        /\ SaveCell(f, k) = f.base - 8 - 8 * k
    BY HereFacts
  <1>2. code[p].i \in {"store", "store_rsp"}
    BY DEF WritesFrame
  <1>3. SameRegs(c, n) /\ Writes(c, n, x, v) /\ n.pc = p + 1 /\ n.rsp = c.rsp /\ n.rbp = c.rbp
    BY <1>1, <1>2, StoreStep
  <1>4. /\ p + 1 \in BodyOf(f.fn) /\ code[p + 1].i \notin {"ret", "pop_rbp", "call"}
    BY <1>1, <1>2, FallsThrough
  <1>5. Restored(code, n, f)
    BY <1>1, <1>2, <1>3, StaysRestored
  <1>6. c.rbp = f.base - 8 /\ c.rsp = f.base - 8 - f.fn.frame
    <2>1. p \in Nat /\ p >= f.fn.body
      BY <1>1 DEF BodyOf
    <2> QED
      BY <1>1, <1>2, <2>1 DEF Top, RspAt, RbpAt
  <1>7. x \in Int /\ x < SaveCell(f, k) /\ c.rsp <= x
    <2>1. CASE code[p].i = "store"
      <3>1. code[p].n \in -f.fn.frame .. SaveDisp(k) /\ x = c.rbp + code[p].n
        BY <2>1 DEF WritesFrame
      <3> HIDE DEF x, f, k
      <3> QED
        BY <3>1, <1>1, <1>6 DEF SaveDisp
    <2>2. CASE code[p].i = "store_rsp"
      <3>1. code[p].n \in 0 .. f.fn.frame + SaveDisp(k) /\ x = c.rsp + code[p].n
        BY <2>2 DEF WritesFrame
      <3> HIDE DEF x, f, k
      <3> QED
        BY <3>1, <1>1, <1>6 DEF SaveDisp
    <2> QED
      BY <1>2, <2>1, <2>2
  <1>8. IsCpu(n) /\ \A r \in CalleeSaved \ Free(f.fn) : n.regs[r] = c.regs[r]
    BY <1>3 DEF SameRegs
  <1> HIDE DEF x, v
  <1>9. \A y, w : y # x /\ Cell(c, y, w) => Cell(n, y, w)
    BY <1>3, WriteChangesOne
  <1> HIDE DEF n, f, k
  <1>10. \A y, w : y \in Int /\ y >= SaveCell(f, k) /\ Cell(c, y, w) => Cell(n, y, w)
    BY <1>1, <1>7, <1>9
  <1>11. \A y, w : y \in Int /\ y > f.base /\ Cell(c, y, w) => Cell(n, y, w)
    BY <1>1, <1>10
  <1>12. Chain(code, n, fs, d, j)
    BY <1>1, <1>11, ChainKeeps DEF f
  <1>13. Top(code, n, f)
    <2>1. code[p].i \notin {"ret", "pop_rbp", "mov_rsp_rbp"}
      BY <1>2
    <2> QED
      BY <1>1, <1>3, <1>4, <1>5, <1>8, <1>10, <2>1, TopKeeps DEF f, k
  <1>14. Writes(c, n, x, v) /\ n.rsp <= x /\ x < c.rbp
    BY <1>1, <1>3, <1>6, <1>7
  <1> QED
    BY <1>8, <1>12, <1>13, <1>14 DEF Here, Running, f, n

(* The last instructions of an epilogue find the frame as the prologue left *)
(* it,                                                                      *)
LEMMA LeaveKeeps ==
    ASSUME NEW code, NEW e, Shaped(code, e), NEW c, NEW fs, NEW d, NEW j, Here(code, c, fs, d, j),
           c.pc \in BodyOf(fs[d].fn), code[c.pc].i \in {"mov_rsp_rbp", "pop_rbp"}
    PROVE  LET n == Execute(c, code[c.pc], j)
           IN  Here(code, n, fs, d, j) /\ n.stk = c.stk
  <1> DEFINE f == fs[d]
             n == Execute(c, code[c.pc], j)
             p == c.pc
             k == NumSaves(f.fn)
  <1>1. /\ IsCpu(c) /\ Chain(code, c, fs, d, j) /\ Top(code, c, f)
        /\ IsFrame(code, f) /\ IsFunction(code, f.fn) /\ k \in Nat
        /\ f.base \in Int /\ f.fn.frame \in Nat
        /\ f.fn.entry \in Nat /\ f.fn.body \in Nat /\ f.fn.last \in Nat
        /\ f.fn.entry + 3 <= f.fn.body
    BY HereFacts
  <1>2. SameRegs(c, n) /\ n.stk = c.stk /\ n.pc = p + 1
    BY <1>1, MoveStep
  <1>3. p \in Nat /\ p >= f.fn.body /\ p + 1 \in BodyOf(f.fn) /\ (p + 2) - 1 = p + 1
    BY <1>1, BodyInstruction DEF BodyOf
  <1>4. n.rsp = RspAt(code, f, p + 1) /\ n.rbp = RbpAt(code, f, p + 1) /\ code[p + 1].i # "call"
    <2>1. CASE code[p].i = "mov_rsp_rbp"
      <3>1. p + 2 \in BodyOf(f.fn) /\ code[p + 2].i = "ret"
        BY <1>1, <2>1, BodyInstruction
      <3>2. code[p + 1].i = "pop_rbp"
        BY <1>1, <1>3, <3>1, BodyInstruction DEF HasEpilogue
      <3>3. c.rbp = f.base - 8
        BY <1>1, <1>3, <2>1 DEF Top, RbpAt
      <3>4. n.rsp = c.rbp /\ n.rbp = c.rbp
        BY <1>1, <2>1, MoveStep
      <3> QED
        BY <1>1, <1>3, <3>2, <3>3, <3>4 DEF RspAt, RbpAt
    <2>2. CASE code[p].i = "pop_rbp"
      <3>1. code[p + 1].i = "ret"
        BY <1>1, <2>2, BodyInstruction
      <3>2. c.rsp = f.base - 8 /\ Cell(c, f.base - 8, f.rbp)
        BY <1>1, <1>3, <2>2 DEF Top, RspAt
      <3>3. n.rsp = c.rsp + 8 /\ n.rbp = f.rbp
        BY <1>1, <2>2, <3>2, MoveStep DEF StackCell, Cell
      <3> QED
        BY <1>1, <1>3, <3>1, <3>2, <3>3 DEF RspAt, RbpAt
    <2> QED
      BY <2>1, <2>2
  <1>5. Restored(code, n, f)
    <2> SUFFICES ASSUME NEW q \in BodyOf(f.fn), NEW i \in 1 .. k, code[q].i = "ret",
                        p + 1 \in q - 2 - k + i .. q
                 PROVE  n.regs[f.fn.saves[i]] = f.kept[f.fn.saves[i]]
      BY <1>2 DEF Restored
    <2>1. q \in Nat
      BY <1>1 DEF BodyOf
    <2>2. p # q - 3 - k + i
      <3>1. code[q - 3 - k + i].i = "load"
        BY <1>1, BodyInstruction DEF HasEpilogue
      <3> QED
        BY <3>1
    <2>3. p \in q - 2 - k + i .. q
      <3> HIDE DEF p, k
      <3> QED
        BY <1>1, <1>3, <2>1, <2>2
    <2> QED
      BY <1>1, <1>2, <2>3 DEF Top, Restored, SameRegs
  <1>6. \A x, v : Cell(c, x, v) => Cell(n, x, v)
    BY <1>2 DEF Cell
  <1>7. Top(code, n, f)
    <2>1. p + 1 \in f.fn.entry .. f.fn.last /\ ~(p + 1 < f.fn.body)
      BY <1>1, <1>3 DEF BodyOf
    <2>2. Cell(n, f.base, f.ret) /\ Cell(n, f.base - 8, f.rbp)
      BY <1>1, <1>3, <1>6 DEF Top
    <2>3. ASSUME NEW i \in 1 .. k
          PROVE  Cell(n, SaveCell(f, i), f.kept[f.fn.saves[i]])
      <3>1. p > f.fn.entry + 2 + i
        <4>1. f.fn.body = f.fn.entry + 3 + k
          BY <1>1 DEF NumSaves
        <4> HIDE DEF k, p
        <4> QED
          BY <4>1, <1>1, <1>3
      <3> QED
        BY <1>1, <1>6, <3>1 DEF Top
    <2>4. \A r \in CalleeSaved : r \notin Free(f.fn) => n.regs[r] = f.kept[r]
      BY <1>1, <1>2 DEF Top, SameRegs
    <2> QED
      BY <1>2, <1>4, <1>5, <2>1, <2>2, <2>3, <2>4 DEF Top
  <1> HIDE DEF n, f
  <1>8. Chain(code, n, fs, d, j)
    BY <1>1, <1>6, ChainKeeps
  <1> QED
    BY <1>2, <1>7, <1>8 DEF Here, Running, f, n, SameRegs

(* so that a return is one to the frame above, as its suspension foresaw,   *)
(* or to the C++ caller.                                                    *)
LEMMA ReturnKeeps ==
    ASSUME NEW code, NEW e, Shaped(code, e), NEW c, NEW fs, NEW d, NEW j, Here(code, c, fs, d, j),
           c.pc \in BodyOf(fs[d].fn), code[c.pc].i = "ret"
    PROVE  LET n == Execute(c, code[c.pc], j)
           IN  /\ n.stk = c.stk
               /\ \/ d = 1 /\ IsCpu(n) /\ Finished(n, j)
                  \/ d > 1 /\ Here(code, n, fs, d - 1, j)
  <1> DEFINE f == fs[d]
             n == Execute(c, code[c.pc], j)
             p == c.pc
             k == NumSaves(f.fn)
  <1>1. /\ IsCpu(c) /\ Chain(code, c, fs, d, j) /\ Top(code, c, f)
        /\ IsFrame(code, f) /\ IsFunction(code, f.fn) /\ k \in Nat
        /\ f.base \in Int /\ f.fn.frame \in Nat
        /\ f.fn.entry \in Nat /\ f.fn.body \in Nat /\ f.fn.entry + 3 <= f.fn.body
        /\ d \in Nat \ {0}
    BY HereFacts
  <1>2. /\ SameRegs(c, n) /\ n.stk = c.stk /\ n.pc = StackCell(c, c.rsp, j)
        /\ n.rsp = c.rsp + 8 /\ n.rbp = c.rbp
    BY <1>1, RetStep
  <1>3. p \in Nat /\ p >= f.fn.body
    BY <1>1, BodyInstruction DEF BodyOf
  <1>4. n.pc = f.ret /\ n.rsp = f.base + 8 /\ n.rbp = f.rbp
    <2>1. c.rsp = f.base /\ c.rbp = f.rbp /\ Cell(c, f.base, f.ret)
      BY <1>1 DEF Top, RspAt, RbpAt
    <2> QED
      BY <1>2, <2>1 DEF StackCell, Cell
  <1>5. ASSUME NEW r \in CalleeSaved
        PROVE  n.regs[r] = f.kept[r]
    <2>1. CASE r \notin Free(f.fn)
      BY <1>1, <1>2, <2>1 DEF Top, SameRegs
    <2>2. CASE r \in Free(f.fn)
      <3>1. PICK i \in 1 .. k : r = f.fn.saves[i]
        BY <2>2, ScratchIsNotSaved DEF Free
      <3>2. p \in p - 2 - k + i .. p
        <4> HIDE DEF p, k
        <4> QED
          BY <1>1, <1>3
      <3> QED
        BY <1>1, <1>2, <3>1, <3>2 DEF Top, Restored, SameRegs
    <2> QED
      BY <2>1, <2>2
  <1>6. IsCpu(n)
    BY <1>2 DEF SameRegs
  <1> HIDE DEF n
  <1>7. CASE d = 1
    <2>1. Bottom(f, j)
      BY <1>1, <1>7 DEF Chain
    <2> QED
      BY <1>2, <1>4, <1>5, <1>6, <1>7, <2>1 DEF Bottom, Finished, CallerRsp, n
  <1>8. CASE d # 1
    <2> DEFINE g == fs[d - 1]
               b == d - 1
    <2>1. b \in Nat \ {0} /\ b \in 1 .. d - 1 /\ b \in 1 .. d /\ b + 1 = d /\ 1 .. b \subseteq 1 .. d
          /\ 1 .. b - 1 \subseteq 1 .. d - 1
      BY <1>1, <1>8
    <2>2. Suspended(code, c, g, f) /\ IsFrame(code, g)
      <3> HIDE DEF b
      <3>1. Suspended(code, c, fs[b], fs[b + 1]) /\ IsFrame(code, fs[b])
        BY <1>1, <2>1 DEF Chain
      <3> QED
        BY <3>1, <2>1 DEF b
    <2>3. \A x, v : Cell(c, x, v) => Cell(n, x, v)
      BY <1>2 DEF Cell
    <2>4. Chain(code, n, fs, b, j)
      <3>1. Chain(code, n, fs, d, j)
        <4> HIDE DEF f
        <4> QED
          BY <1>1, <2>3, ChainKeeps
      <3> HIDE DEF b, f
      <3> QED
        BY <3>1, <2>1 DEF Chain
    <2>5. /\ IsFunction(code, g.fn) /\ NumSaves(g.fn) \in Nat /\ g.base \in Int
          /\ g.fn.entry \in Nat /\ g.fn.body \in Nat /\ g.fn.last \in Nat /\ g.fn.frame \in Nat
          /\ g.fn.entry + 3 <= g.fn.body /\ g.fn.body <= g.fn.last
      <3>1. IsFunction(code, g.fn) /\ NumSaves(g.fn) \in Nat /\ g.base \in Int
        BY <2>2, FunctionsAreShaped DEF IsFrame
      <3> QED
        BY <3>1 DEF IsFunction, HasPrologue
    <2>6. Open(code, g.fn, n.pc)
      BY <1>4, <2>2 DEF Suspended
    <2>7. n.pc \in BodyOf(g.fn) /\ code[n.pc].i \notin {"ret", "pop_rbp", "call"} /\ Restored(code, n, g)
      BY <2>5, <2>6, OpenPlace DEF Restored
    <2>8. n.pc \in Nat /\ n.pc >= g.fn.body /\ n.pc <= g.fn.last /\ n.pc \in g.fn.entry .. g.fn.last
      BY <2>5, <2>7 DEF BodyOf
    <2>9. n.rsp = RspAt(code, g, n.pc) /\ n.rbp = RbpAt(code, g, n.pc)
      <3>1. f.base = g.base - 16 - g.fn.frame /\ f.rbp = g.base - 8
        BY <2>2 DEF Suspended
      <3> QED
        BY <1>4, <2>5, <2>7, <2>8, <3>1 DEF RspAt, RbpAt
    <2>10. \A r \in CalleeSaved : r \notin Free(g.fn) => n.regs[r] = g.kept[r]
      BY <1>5, <2>2 DEF Suspended
    <2>11. /\ Cell(n, g.base, g.ret) /\ Cell(n, g.base - 8, g.rbp)
           /\ \A i \in 1 .. NumSaves(g.fn) : Cell(n, SaveCell(g, i), g.kept[g.fn.saves[i]])
      BY <2>2, <2>3 DEF Suspended
    <2>12. Top(code, n, g)
      <3> HIDE DEF g
      <3> QED
        BY <2>5, <2>7, <2>8, <2>9, <2>10, <2>11 DEF Top
    <2> QED
      BY <1>1, <1>2, <1>6, <1>8, <2>4, <2>12 DEF Here, Running, n
  <1> QED
    BY <1>7, <1>8

(* A call is followed by an open place.                                     *)
LEMMA ReturnPlace ==
    ASSUME NEW code, NEW f, IsFunction(code, f), NumSaves(f) \in Nat, NEW p \in BodyOf(f),
           code[p].i = "call"
    PROVE  Open(code, f, p + 1)
  <1> DEFINE k == NumSaves(f)
  <1>1. p \in Nat /\ p + 1 \in BodyOf(f) /\ code[p + 1].i # "call"
    BY FallsThrough, BodyInstruction
  <1>2. ASSUME NEW q \in BodyOf(f), code[q].i = "ret", p + 1 \in q - 1 - k .. q
        PROVE  FALSE
    <2>1. HasEpilogue(code, f, q) /\ q \in Nat /\ k \in Nat
      BY <1>2, BodyInstruction
    <2>2. p # q - 1 /\ p # q - 2
      BY <2>1 DEF HasEpilogue
    <2> DEFINE m == p - (q - 3 - k)
    <2>3. m \in 1 .. k /\ q - 3 - k + m = p
      <3> HIDE DEF k
      <3> QED
        BY <1>1, <1>2, <2>1, <2>2
    <2>4. code[q - 3 - k + m].i = "load"
      <3> HIDE DEF m
      <3> QED
        BY <2>1, <2>3 DEF HasEpilogue
    <2> QED
      BY <2>3, <2>4
  <1> QED
    BY <1>1, <1>2 DEF Open

(* A call suspends the frame and begins one right below.                    *)
LEMMA ChainGrows ==
    ASSUME NEW code, NEW c, NEW fs, NEW d, NEW j, Chain(code, c, fs, d, j),
           NEW g, IsFrame(code, g), Suspended(code, c, fs[d], g), fs[d].fn.frame \in Nat,
           \A i \in 1 .. d : fs[i].fn.frame \in Nat
    PROVE  Chain(code, c, [i \in 1 .. d + 1 |-> IF i = d + 1 THEN g ELSE fs[i]], d + 1, j)
  <1> DEFINE gs == [i \in 1 .. d + 1 |-> IF i = d + 1 THEN g ELSE fs[i]]
  <1>1. d \in Nat \ {0} /\ d + 1 \in Nat \ {0} /\ d + 1 \in 1 .. d + 1 /\ 1 .. d \subseteq 1 .. d + 1
        /\ d \in 1 .. d /\ (d + 1) - 1 = d
    BY DEF Chain
  <1>2. gs[d + 1] = g /\ \A i \in 1 .. d : gs[i] = fs[i]
    BY <1>1
  <1> HIDE DEF gs
  <1>3. \A i \in 1 .. d : IsFrame(code, fs[i])
    BY DEF Chain
  <1>4. ASSUME NEW i \in 1 .. d + 1
        PROVE  IsFrame(code, gs[i])
    BY <1>1, <1>2, <1>3
  <1>5. ASSUME NEW i \in 1 .. d + 1, NEW k \in 1 .. d + 1, i < k
        PROVE  gs[k].base + 16 + gs[i].fn.frame <= gs[i].base
    <2>1. CASE k \in 1 .. d
      <3>1. i \in 1 .. d
        BY <1>5, <2>1, <1>1
      <3> QED
        BY <3>1, <2>1, <1>2, <1>5 DEF Chain
    <2>2. CASE k = d + 1
      <3>1. i \in 1 .. d
        BY <1>5, <2>2, <1>1
      <3>2. g.base = fs[d].base - 16 - fs[d].fn.frame
        BY DEF Suspended
      <3>3. fs[d].base \in Int /\ fs[i].base \in Int /\ fs[d].fn.frame \in Nat /\ fs[i].fn.frame \in Nat
        BY <1>1, <1>3, <3>1 DEF IsFrame
      <3>4. i = d \/ fs[d].base + 16 + fs[i].fn.frame <= fs[i].base
        BY <1>1, <3>1 DEF Chain
      <3>5. g.base + 16 + fs[i].fn.frame <= fs[i].base
        BY <3>2, <3>3, <3>4
      <3> QED
        BY <3>1, <3>5, <2>2, <1>2
    <2> QED
      BY <1>1, <2>1, <2>2
  <1>6. ASSUME NEW i \in 1 .. d
        PROVE  Suspended(code, c, gs[i], gs[i + 1])
    <2>1. CASE i = d
      BY <2>1, <1>1, <1>2
    <2>2. CASE i # d
      <3>1. i \in 1 .. d - 1 /\ i + 1 \in 1 .. d
        BY <1>1, <2>2
      <3> QED
        BY <3>1, <1>2 DEF Chain
    <2> QED
      BY <2>1, <2>2
  <1>7. Bottom(gs[1], j)
    <2>1. 1 \in 1 .. d
      BY <1>1
    <2> QED
      BY <2>1, <1>2 DEF Chain
  <1> QED
    BY <1>1, <1>4, <1>5, <1>6, <1>7 DEF Chain, gs

(* The new frame is in place at the entry of its function.                  *)
LEMMA TopAtEntry ==
    ASSUME NEW code, NEW e, Shaped(code, e), NEW c, NEW f,
           IsFrame(code, f), c.pc = f.fn.entry, Cell(c, f.base, f.ret),
           c.rsp = f.base, c.rbp = f.rbp, \A r \in CalleeSaved : c.regs[r] = f.kept[r]
    PROVE  Top(code, c, f)
  <1> DEFINE k == NumSaves(f.fn)
  <1>1. IsFunction(code, f.fn) /\ k \in Nat
    BY FunctionsAreShaped DEF IsFrame
  <1>2. /\ f.fn.entry \in Nat /\ f.fn.body \in Nat /\ f.fn.last \in Nat
        /\ f.fn.entry + 3 <= f.fn.body /\ f.fn.body <= f.fn.last
        /\ code[f.fn.entry].i = "push_rbp"
    BY <1>1 DEF IsFunction, HasPrologue
  <1>3. ASSUME NEW q \in BodyOf(f.fn), NEW i \in 1 .. k, code[q].i = "ret",
               c.pc \in q - 2 - k + i .. q
        PROVE  FALSE
    <2>1. f.fn.body <= q - 2 - k /\ q \in Nat
      BY <1>1, <1>3, BodyInstruction DEF HasEpilogue
    <2> HIDE DEF k
    <2> QED
      BY <1>1, <1>2, <1>3, <2>1
  <1>4. Restored(code, c, f)
    BY <1>3 DEF Restored
  <1>5. \A i \in 1 .. k : ~(c.pc > f.fn.entry + 2 + i)
    BY <1>1, <1>2
  <1>6. c.rsp = RspAt(code, f, c.pc) /\ c.rbp = RbpAt(code, f, c.pc)
    BY <1>2 DEF RspAt, RbpAt
  <1>7. c.pc \in f.fn.entry .. f.fn.last /\ ~(c.pc > f.fn.entry) /\ code[c.pc].i # "call"
    BY <1>2
  <1> QED
    BY <1>4, <1>5, <1>6, <1>7 DEF Top

(* With a frame of whole sixteens the stack is aligned at a call, and the   *)
(* frame called begins eight off again.                                     *)
LEMMA StackStaysAligned ==
    ASSUME NEW b \in Int, b % 16 = 8, NEW m \in Nat, m % 16 = 0
    PROVE  /\ b - 8 - m \in Int /\ (b - 8 - m) % 16 = 0
           /\ ((b - 8 - m) - 8) % 16 = 8
  OBVIOUS

(* A call keeps the frames and adds one, on an aligned stack.               *)
LEMMA CallKeeps ==
    ASSUME NEW code, NEW e, Shaped(code, e), NEW c, NEW fs, NEW d, NEW j, Here(code, c, fs, d, j),
           c.pc \in BodyOf(fs[d].fn), code[c.pc].i = "call"
    PROVE  LET n == Execute(c, code[c.pc], j)
           IN  /\ \E gs : Here(code, n, gs, d + 1, j)
               /\ c.rsp \in Int /\ c.rsp % 16 = 0
               /\ n.rsp = c.rsp - 8 /\ Writes(c, n, n.rsp, c.pc + 1)
  <1> DEFINE f == fs[d]
             n == Execute(c, code[c.pc], j)
             p == c.pc
             k == NumSaves(f.fn)
             s == c.regs["RAX"]
             g == [fn |-> FunctionAt(code, s), base |-> c.rsp - 8, rbp |-> c.rbp, ret |-> p + 1,
                   kept |-> [r \in CalleeSaved |-> c.regs[r]]]
             gs == [i \in 1 .. d + 1 |-> IF i = d + 1 THEN g ELSE fs[i]]
  <1>1. /\ IsCpu(c) /\ Chain(code, c, fs, d, j) /\ Top(code, c, f)
        /\ IsFrame(code, f) /\ IsFunction(code, f.fn) /\ k \in Nat
        /\ f.base \in Int /\ f.fn.frame \in Nat /\ 8 * k <= f.fn.frame
        /\ f.fn.entry \in Nat /\ f.fn.body \in Nat /\ f.fn.entry + 3 <= f.fn.body
        /\ d \in Nat \ {0}
    BY HereFacts
  <1>2. /\ SameRegs(c, n) /\ Writes(c, n, c.rsp - 8, p + 1)
        /\ n.pc = s /\ n.rsp = c.rsp - 8 /\ n.rbp = c.rbp
    BY <1>1, CallStep
  <1>3. p \in Nat /\ p >= f.fn.body
    BY <1>1, BodyInstruction DEF BodyOf
  <1>4. c.rsp = f.base - 8 - f.fn.frame /\ c.rbp = f.base - 8 /\ s \in Starts(code)
    BY <1>1, <1>3 DEF Top, RspAt, RbpAt
  <1>5. f.base % 16 = 8 /\ f.fn.frame % 16 = 0
    BY <1>1 DEF IsFrame, IsFunction, HasPrologue
  <1>6. c.rsp \in Int /\ c.rsp % 16 = 0 /\ (c.rsp - 8) % 16 = 8
    BY <1>1, <1>4, <1>5, StackStaysAligned
  <1>7. IsFrame(code, g) /\ g.fn.entry = s
    <2>1. FunctionAt(code, s) \in Functions(code) /\ FunctionAt(code, s).entry = s
      BY <1>4, FunctionStarts
    <2> QED
      BY <1>6, <2>1 DEF IsFrame
  <1>8. \A y, w : y # c.rsp - 8 /\ Cell(c, y, w) => Cell(n, y, w)
    BY <1>2, WriteChangesOne
  <1>9. Cell(n, c.rsp - 8, p + 1)
    BY <1>2, WriteChangesOne
  <1>10. IsCpu(n) /\ \A r \in CalleeSaved : n.regs[r] = c.regs[r]
    BY <1>2 DEF SameRegs
  <1> DEFINE low == c.rsp - 8
  <1>11. low \in Int /\ low = f.base - 16 - f.fn.frame /\ low < f.base - 8 - 8 * k
    <2> HIDE DEF f, k
    <2> QED
      BY <1>1, <1>4, <1>6
  <1> HIDE DEF n, low
  <1>12. Chain(code, n, fs, d, j)
    <2> HIDE DEF g
    <2>1. \A x, v : x \in Int /\ x > f.base /\ Cell(c, x, v) => Cell(n, x, v)
      BY <1>1, <1>8, <1>11 DEF low
    <2> HIDE DEF f
    <2> QED
      BY <1>1, <2>1, ChainKeeps DEF f
  <1>13. Suspended(code, n, f, g)
    <2>1. Cell(c, f.base, f.ret) /\ Cell(c, f.base - 8, f.rbp)
      BY <1>1, <1>3 DEF Top
    <2>2. f.base # low /\ f.base - 8 # low
      BY <1>1, <1>11
    <2>3. ASSUME NEW i \in 1 .. k
          PROVE  Cell(n, SaveCell(f, i), f.kept[f.fn.saves[i]])
      <3>1. p > f.fn.entry + 2 + i
        <4>1. f.fn.body = f.fn.entry + 3 + k
          BY <1>1 DEF NumSaves
        <4> HIDE DEF k, p
        <4> QED
          BY <4>1, <1>1, <1>3
      <3>2. Cell(c, SaveCell(f, i), f.kept[f.fn.saves[i]])
        BY <1>1, <3>1 DEF Top
      <3>3. SaveCell(f, i) = f.base - 8 - 8 * i
        BY <1>1 DEF SaveCell, SaveDisp
      <3>4. SaveCell(f, i) # low
        <4> HIDE DEF k, f
        <4> QED
          BY <1>1, <1>11, <3>3
      <3> QED
        BY <1>8, <3>2, <3>4 DEF low
    <2>4. g.base = f.base - 16 - f.fn.frame /\ g.rbp = f.base - 8
      BY <1>4, <1>11 DEF low
    <2>5. Open(code, f.fn, g.ret)
      BY <1>1, ReturnPlace
    <2>6. \A r \in CalleeSaved \ Free(f.fn) : g.kept[r] = f.kept[r]
      BY <1>1 DEF Top
    <2> QED
      BY <1>8, <2>1, <2>2, <2>3, <2>4, <2>5, <2>6 DEF Suspended, low
  <1>14. Chain(code, n, gs, d + 1, j)
    <2>1. \A i \in 1 .. d : fs[i].fn.frame \in Nat
      BY <1>1, FunctionsAreShaped DEF Chain, IsFrame, IsFunction, HasPrologue
    <2> HIDE DEF g
    <2> QED
      BY <1>1, <1>7, <1>12, <1>13, <2>1, ChainGrows
  <1>15. gs[d + 1] = g
    <2> HIDE DEF g
    <2> QED
      BY <1>1
  <1>16. Top(code, n, g)
    <2>1. n.pc = g.fn.entry /\ Cell(n, g.base, g.ret) /\ n.rsp = g.base /\ n.rbp = g.rbp
      BY <1>2, <1>7, <1>9
    <2>2. \A r \in CalleeSaved : n.regs[r] = g.kept[r]
      BY <1>10
    <2> HIDE DEF g
    <2> QED
      BY <1>7, <2>1, <2>2, TopAtEntry
  <1>17. Here(code, n, gs, d + 1, j)
    <2> HIDE DEF g, gs
    <2> QED
      BY <1>10, <1>14, <1>15, <1>16 DEF Here, Running
  <1> HIDE DEF gs
  <1> QED
    BY <1>2, <1>6, <1>17 DEF n

(* A prologue has no return, pop or call and is no part of an epilogue.     *)
LEMMA ProloguePlace ==
    ASSUME NEW code, NEW f, IsFunction(code, f), NumSaves(f) \in Nat,
           NEW p \in f.entry .. f.body
    PROVE  /\ code[p].i \notin {"ret", "pop_rbp", "call"}
           /\ \A q \in BodyOf(f), i \in 1 .. NumSaves(f) :
                 code[q].i = "ret" => p \notin q - 2 - NumSaves(f) + i .. q
  <1> DEFINE k == NumSaves(f)
  <1>1. /\ f.entry \in Nat /\ f.body \in Nat /\ f.last \in Nat /\ p \in Nat /\ k \in Nat
        /\ f.entry + 3 <= f.body /\ f.body <= f.last /\ f.body = f.entry + 3 + k
        /\ HasPrologue(code, f)
    BY DEF IsFunction, NumSaves
  <1>2. ASSUME NEW q \in BodyOf(f), NEW i \in 1 .. k, code[q].i = "ret", p \in q - 2 - k + i .. q
        PROVE  FALSE
    <2>1. f.body <= q - 2 - k /\ q \in Nat
      BY <1>1, <1>2, BodyInstruction DEF HasEpilogue
    <2> HIDE DEF k
    <2> QED
      BY <1>1, <1>2, <2>1
  <1> SUFFICES code[p].i \notin {"ret", "pop_rbp", "call"}
    BY <1>2
  <1>3. CASE p = f.entry
    BY <1>1, <1>3 DEF HasPrologue
  <1>4. CASE p = f.entry + 1
    BY <1>1, <1>4 DEF HasPrologue
  <1>5. CASE p = f.entry + 2
    BY <1>1, <1>5 DEF HasPrologue
  <1>6. CASE p >= f.entry + 3 /\ p < f.body
    <2> DEFINE i == p - (f.entry + 2)
    <2>1. i \in 1 .. k /\ f.entry + 2 + i = p
      <3> HIDE DEF k
      <3> QED
        BY <1>1, <1>6
    <2> HIDE DEF i
    <2> QED
      BY <1>1, <2>1 DEF HasPrologue, SavesRegister
  <1>7. CASE p = f.body
    <2>1. p \in BodyOf(f)
      BY <1>1, <1>7 DEF BodyOf
    <2>2. code[p].i # "call"
      BY <1>1, <1>7, <2>1, BodyInstruction
    <2>3. code[p].i # "ret"
      BY <1>1, <1>7, <2>1, BodyInstruction DEF HasEpilogue
    <2>4. code[p].i # "pop_rbp"
      <3> SUFFICES ASSUME code[p].i = "pop_rbp" PROVE FALSE
        OBVIOUS
      <3>1. p + 1 \in BodyOf(f) /\ HasEpilogue(code, f, p + 1)
        BY <2>1, BodyInstruction
      <3> QED
        BY <1>1, <1>7, <3>1 DEF HasEpilogue
    <2> QED
      BY <2>2, <2>3, <2>4
  <1>8. \/ p \in {f.entry, f.entry + 1, f.entry + 2}
        \/ p >= f.entry + 3 /\ p < f.body
        \/ p = f.body
    BY <1>1
  <1> QED
    BY <1>3, <1>4, <1>5, <1>6, <1>7, <1>8

(* A step of the prologue brings its frame one instruction further.         *)
LEMMA TopInPrologue ==
    ASSUME NEW code, NEW e, Shaped(code, e), NEW c, NEW n, NEW f,
           IsFrame(code, f), Top(code, c, f),
           c.pc >= f.fn.entry, c.pc < f.fn.body, n.pc = c.pc + 1,
           Cell(n, f.base, f.ret), Cell(n, f.base - 8, f.rbp),
           \A i \in 1 .. NumSaves(f.fn) :
              n.pc > f.fn.entry + 2 + i => Cell(n, SaveCell(f, i), f.kept[f.fn.saves[i]]),
           n.rsp = (IF c.pc < f.fn.entry + 2 THEN f.base - 8 ELSE f.base - 8 - f.fn.frame),
           n.rbp = (IF c.pc < f.fn.entry + 1 THEN f.rbp ELSE f.base - 8),
           \A r \in CalleeSaved : n.regs[r] = c.regs[r]
    PROVE  Top(code, n, f)
  <1> DEFINE k == NumSaves(f.fn)
  <1>1. IsFunction(code, f.fn) /\ k \in Nat
    BY FunctionsAreShaped DEF IsFrame
  <1>2. /\ f.fn.entry \in Nat /\ f.fn.body \in Nat /\ f.fn.last \in Nat
        /\ f.fn.entry + 3 <= f.fn.body /\ f.fn.body <= f.fn.last
    BY <1>1 DEF IsFunction
  <1>3. c.pc \in Nat
    BY <1>2 DEF Top
  <1>4. n.pc \in f.fn.entry .. f.fn.body /\ n.pc \in f.fn.entry .. f.fn.last
    BY <1>2, <1>3
  <1>5. Restored(code, n, f) /\ code[n.pc].i \notin {"ret", "pop_rbp", "call"}
    BY <1>1, <1>4, ProloguePlace DEF Restored
  <1>6. \A r \in CalleeSaved : n.regs[r] = f.kept[r]
    BY DEF Top
  <1>7. n.rsp = RspAt(code, f, n.pc) /\ n.rbp = RbpAt(code, f, n.pc)
    BY <1>2, <1>3, <1>5 DEF RspAt, RbpAt
  <1> QED
    BY <1>4, <1>5, <1>6, <1>7 DEF Top

(* A step writes the cell below rsp or a cell of the frame, if any.         *)
OwnWrite(c, n) ==
    \/ n.stk = c.stk
    \/ \E x, v : /\ Writes(c, n, x, v)
                /\ \/ n.rsp = x /\ x < c.rsp
                   \/ n.rsp <= x /\ x < c.rbp

(* The prologue writes to its own frame and keeps all frames.               *)
LEMMA PrologueKeeps ==
    ASSUME NEW code, NEW e, Shaped(code, e), NEW c, NEW fs, NEW d, NEW j, Here(code, c, fs, d, j),
           c.pc < fs[d].fn.body
    PROVE  LET n == Execute(c, code[c.pc], j)
           IN  Here(code, n, fs, d, j) /\ OwnWrite(c, n)
  <1> DEFINE f == fs[d]
             n == Execute(c, code[c.pc], j)
             p == c.pc
             k == NumSaves(f.fn)
  <1>1. /\ IsCpu(c) /\ Chain(code, c, fs, d, j) /\ Top(code, c, f)
        /\ IsFrame(code, f) /\ IsFunction(code, f.fn) /\ k \in Nat
        /\ f.base \in Int /\ f.fn.frame \in Nat /\ 8 * k <= f.fn.frame
        /\ f.fn.entry \in Nat /\ f.fn.body \in Nat /\ f.fn.last \in Nat
        /\ f.fn.entry + 3 <= f.fn.body /\ f.fn.body = f.fn.entry + 3 + k
        /\ HasPrologue(code, f.fn)
    BY HereFacts DEF IsFunction
  <1>2. p \in Nat /\ p >= f.fn.entry /\ p < f.fn.body
    BY <1>1 DEF Top
  <1>3. code[p].i \notin {"ret", "pop_rbp", "call"}
    <2>1. p \in f.fn.entry .. f.fn.body
      BY <1>1, <1>2
    <2> QED
      BY <1>1, <2>1, ProloguePlace
  <1>4. /\ c.rsp = (IF p = f.fn.entry THEN f.base ELSE IF p < f.fn.entry + 3 THEN f.base - 8
                    ELSE f.base - 8 - f.fn.frame)
        /\ c.rbp = (IF p < f.fn.entry + 2 THEN f.rbp ELSE f.base - 8)
    BY <1>1, <1>3 DEF Top, RspAt, RbpAt
  <1>5. Cell(c, f.base, f.ret) /\ (p > f.fn.entry => Cell(c, f.base - 8, f.rbp))
    BY <1>1 DEF Top
  <1>6. \A i \in 1 .. k : p > f.fn.entry + 2 + i => Cell(c, SaveCell(f, i), f.kept[f.fn.saves[i]])
    BY <1>1 DEF Top
  <1>7. \A i \in 1 .. k : SaveCell(f, i) = f.base - 8 - 8 * i
    BY <1>1 DEF SaveCell, SaveDisp
  <1>8. SUFFICES /\ SameRegs(c, n) /\ n.pc = p + 1 /\ OwnWrite(c, n)
                 /\ \A x, v : x \in Int /\ x > f.base /\ Cell(c, x, v) => Cell(n, x, v)
                 /\ Cell(n, f.base, f.ret) /\ Cell(n, f.base - 8, f.rbp)
                 /\ \A i \in 1 .. k :
                       n.pc > f.fn.entry + 2 + i => Cell(n, SaveCell(f, i), f.kept[f.fn.saves[i]])
                 /\ n.rsp = (IF p < f.fn.entry + 2 THEN f.base - 8 ELSE f.base - 8 - f.fn.frame)
                 /\ n.rbp = (IF p < f.fn.entry + 1 THEN f.rbp ELSE f.base - 8)
    <2>1. IsCpu(n) /\ \A r \in CalleeSaved : n.regs[r] = c.regs[r]
      BY <1>8 DEF SameRegs
    <2> HIDE DEF n, f
    <2>2. Chain(code, n, fs, d, j)
      BY <1>1, <1>8, ChainKeeps DEF f
    <2>3. Top(code, n, f)
      BY <1>1, <1>2, <1>8, <2>1, TopInPrologue
    <2> QED
      BY <1>8, <2>1, <2>2, <2>3 DEF Here, Running, f, n
  <1>9. CASE p = f.fn.entry
    <2>1. code[p].i = "push_rbp"
      BY <1>1, <1>9 DEF HasPrologue
    <2>2. /\ SameRegs(c, n) /\ Writes(c, n, c.rsp - 8, c.rbp)
          /\ n.pc = p + 1 /\ n.rsp = c.rsp - 8 /\ n.rbp = c.rbp
      BY <1>1, <2>1, PushStep
    <2>3. c.rsp = f.base /\ c.rbp = f.rbp
      BY <1>1, <1>4, <1>9
    <2>4. /\ Cell(n, c.rsp - 8, c.rbp)
          /\ \A y, w : y # c.rsp - 8 /\ Cell(c, y, w) => Cell(n, y, w)
      BY <2>2, WriteChangesOne
    <2>5. \A i \in 1 .. k : ~(p + 1 > f.fn.entry + 2 + i)
      <3> HIDE DEF k
      <3> QED
        BY <1>1, <1>9
    <2>6. OwnWrite(c, n)
      BY <1>1, <2>2, <2>3 DEF OwnWrite
    <2> HIDE DEF n
    <2>7. \A x, v : x \in Int /\ x > f.base /\ Cell(c, x, v) => Cell(n, x, v)
      BY <1>1, <2>3, <2>4
    <2>8. Cell(n, f.base, f.ret) /\ Cell(n, f.base - 8, f.rbp)
      BY <1>1, <1>5, <2>3, <2>4
    <2>9. /\ n.rsp = (IF p < f.fn.entry + 2 THEN f.base - 8 ELSE f.base - 8 - f.fn.frame)
          /\ n.rbp = (IF p < f.fn.entry + 1 THEN f.rbp ELSE f.base - 8)
      BY <1>1, <1>9, <2>2, <2>3
    <2> QED
      BY <2>2, <2>5, <2>6, <2>7, <2>8, <2>9
  <1>10. CASE p = f.fn.entry + 1
    <2>1. code[p].i = "mov_rbp_rsp"
      BY <1>1, <1>10 DEF HasPrologue
    <2>2. SameRegs(c, n) /\ n.stk = c.stk /\ n.pc = p + 1 /\ n.rsp = c.rsp /\ n.rbp = c.rsp
      BY <1>1, <2>1, MoveStep
    <2>3. \A i \in 1 .. k : ~(p + 1 > f.fn.entry + 2 + i)
      <3> HIDE DEF k
      <3> QED
        BY <1>1, <1>10
    <2>4. OwnWrite(c, n) /\ \A x, v : Cell(c, x, v) => Cell(n, x, v)
      BY <2>2 DEF OwnWrite, Cell
    <2> HIDE DEF n
    <2>5. /\ n.rsp = (IF p < f.fn.entry + 2 THEN f.base - 8 ELSE f.base - 8 - f.fn.frame)
          /\ n.rbp = (IF p < f.fn.entry + 1 THEN f.rbp ELSE f.base - 8)
      BY <1>1, <1>4, <1>10, <2>2
    <2> QED
      BY <1>1, <1>5, <1>10, <2>2, <2>3, <2>4, <2>5
  <1>11. CASE p = f.fn.entry + 2
    <2>1. code[p].i = "sub_rsp" /\ code[p].n = f.fn.frame
      BY <1>1, <1>11 DEF HasPrologue
    <2>2. /\ SameRegs(c, n) /\ n.stk = c.stk /\ n.pc = p + 1
          /\ n.rsp = c.rsp - f.fn.frame /\ n.rbp = c.rbp
      BY <1>1, <2>1, MoveStep
    <2>3. \A i \in 1 .. k : ~(p + 1 > f.fn.entry + 2 + i)
      <3> HIDE DEF k
      <3> QED
        BY <1>1, <1>11
    <2>4. OwnWrite(c, n) /\ \A x, v : Cell(c, x, v) => Cell(n, x, v)
      BY <2>2 DEF OwnWrite, Cell
    <2> HIDE DEF n
    <2>5. /\ n.rsp = (IF p < f.fn.entry + 2 THEN f.base - 8 ELSE f.base - 8 - f.fn.frame)
          /\ n.rbp = (IF p < f.fn.entry + 1 THEN f.rbp ELSE f.base - 8)
      BY <1>1, <1>4, <1>11, <2>2
    <2> QED
      BY <1>1, <1>5, <1>11, <2>2, <2>3, <2>4, <2>5
  <1>12. CASE p > f.fn.entry + 2
    <2> DEFINE i == p - (f.fn.entry + 2)
               x == SaveCell(f, i)
               v == f.kept[f.fn.saves[i]]
    <2>1. i \in 1 .. k /\ f.fn.entry + 2 + i = p
      <3> HIDE DEF k
      <3> QED
        BY <1>1, <1>2, <1>12
    <2> HIDE DEF i
    <2>2. /\ code[p].i = "store" /\ code[p].s = f.fn.saves[i] /\ code[p].n = SaveDisp(i - 1)
          /\ f.fn.saves[i] \in CalleeSaved
      BY <1>1, <2>1 DEF HasPrologue, SavesRegister
    <2>3. c.rbp = f.base - 8 /\ c.rsp = f.base - 8 - f.fn.frame
      BY <1>1, <1>2, <1>4, <1>12
    <2>4. x = c.rbp + code[p].n
      BY <2>2, <2>3 DEF SaveCell
    <2>5. c.regs[code[p].s] = v
      BY <1>1, <1>2, <2>2 DEF Top
    <2>6. SameRegs(c, n) /\ Writes(c, n, x, v) /\ n.pc = p + 1 /\ n.rsp = c.rsp /\ n.rbp = c.rbp
      BY <1>1, <2>2, <2>4, <2>5, StoreStep
    <2>7. Cell(n, x, v) /\ \A y, w : y # x /\ Cell(c, y, w) => Cell(n, y, w)
      BY <2>6, WriteChangesOne
    <2>8. x = f.base - 8 - 8 * i
      BY <1>7, <2>1
    <2>9. x \in Int /\ x < f.base - 8 /\ c.rsp <= x /\ x < c.rbp
      <3> HIDE DEF x, k, f
      <3> QED
        BY <1>1, <2>1, <2>3, <2>8
    <2>10. OwnWrite(c, n)
      BY <2>6, <2>9 DEF OwnWrite
    <2>11. ASSUME NEW m \in 1 .. k, p + 1 > f.fn.entry + 2 + m
           PROVE  Cell(n, SaveCell(f, m), f.kept[f.fn.saves[m]])
      <3>1. CASE m = i
        BY <3>1, <2>7
      <3>2. CASE m # i
        <4>1. SaveCell(f, m) # x
          <5>1. SaveCell(f, m) = f.base - 8 - 8 * m
            BY <1>7
          <5> HIDE DEF x, k, f
          <5> QED
            BY <1>1, <2>1, <2>8, <3>2, <5>1
        <4>2. p > f.fn.entry + 2 + m
          <5> HIDE DEF k, p, f
          <5> QED
            BY <1>1, <1>2, <2>1, <2>11, <3>2
        <4> QED
          BY <1>6, <2>7, <4>1, <4>2
      <3> QED
        BY <3>1, <3>2
    <2> HIDE DEF n, x, v
    <2>12. \A y, w : y \in Int /\ y > f.base /\ Cell(c, y, w) => Cell(n, y, w)
      BY <1>1, <2>7, <2>9
    <2>13. Cell(n, f.base, f.ret) /\ Cell(n, f.base - 8, f.rbp)
      BY <1>1, <1>2, <1>5, <1>12, <2>7, <2>9
    <2>14. /\ n.rsp = (IF p < f.fn.entry + 2 THEN f.base - 8 ELSE f.base - 8 - f.fn.frame)
           /\ n.rbp = (IF p < f.fn.entry + 1 THEN f.rbp ELSE f.base - 8)
      BY <1>1, <1>2, <1>12, <2>3, <2>6
    <2> QED
      BY <2>6, <2>10, <2>11, <2>12, <2>13, <2>14
  <1>13. p = f.fn.entry \/ p = f.fn.entry + 1 \/ p = f.fn.entry + 2 \/ p > f.fn.entry + 2
    <2> DEFINE b == f.fn.entry
    <2>1. p \in Nat /\ b \in Nat /\ p >= b
      BY <1>1, <1>2
    <2> HIDE DEF p, b
    <2>2. p = b \/ p = b + 1 \/ p = b + 2 \/ p > b + 2
      BY <2>1
    <2> QED
      BY <2>2 DEF b
  <1> QED
    BY <1>9, <1>10, <1>11, <1>12, <1>13

(* Every instruction keeps the frames, or finishes the run.                 *)
LEMMA StepKeeps ==
    ASSUME NEW code, NEW e, Shaped(code, e), NEW c, NEW fs, NEW d, NEW j, Here(code, c, fs, d, j)
    PROVE  LET n == Execute(c, code[c.pc], j)
           IN  /\ OwnWrite(c, n)
               /\ \/ IsCpu(n) /\ Finished(n, j)
                  \/ \E gs, b : Here(code, n, gs, b, j)
               /\ code[c.pc].i = "call" => c.rsp % 16 = 0
  <1> DEFINE f == fs[d]
             n == Execute(c, code[c.pc], j)
             p == c.pc
  <1>1. /\ IsCpu(c) /\ Top(code, c, f) /\ IsFunction(code, f.fn) /\ NumSaves(f.fn) \in Nat
        /\ f.fn.entry \in Nat /\ f.fn.body \in Nat /\ f.fn.last \in Nat
    BY HereFacts
  <1>2. p \in Nat /\ p >= f.fn.entry /\ p <= f.fn.last
    BY <1>1 DEF Top
  <1>3. CASE p < f.fn.body
    <2>1. Here(code, n, fs, d, j) /\ OwnWrite(c, n)
      BY <1>3, PrologueKeeps
    <2>2. code[p].i # "call"
      <3>1. p \in f.fn.entry .. f.fn.body
        BY <1>1, <1>2, <1>3
      <3> QED
        BY <1>1, <3>1, ProloguePlace
    <2> QED
      BY <2>1, <2>2
  <1>4. CASE p \in BodyOf(f.fn)
    <2>1. CASE WritesRegisters(f.fn, code[p])
      <3>1. Here(code, n, fs, d, j)
        BY <1>4, <2>1, RegisterKeeps
      <3>2. n.stk = c.stk
        BY <1>1, <2>1, RegisterStep DEF Quiet
      <3>3. code[p].i # "call"
        BY <2>1 DEF WritesRegisters, RegisterOps
      <3> QED
        BY <3>1, <3>2, <3>3 DEF OwnWrite
    <2>2. CASE WritesFrame(f.fn, code[p])
      <3>1. Here(code, n, fs, d, j) /\ \E x, v : Writes(c, n, x, v) /\ n.rsp <= x /\ x < c.rbp
        BY <1>4, <2>2, WriteKeeps
      <3>2. code[p].i # "call"
        BY <2>2 DEF WritesFrame
      <3> QED
        BY <3>1, <3>2 DEF OwnWrite
    <2>3. CASE code[p].i \in {"jmp", "jcc"}
      <3>1. Here(code, n, fs, d, j) /\ n.stk = c.stk
        BY <1>1, <1>4, <2>3, JumpKeeps, JumpStep
      <3> QED
        BY <2>3, <3>1 DEF OwnWrite
    <2>4. CASE code[p].i = "call"
      <3>1. /\ \E gs : Here(code, n, gs, d + 1, j)
            /\ c.rsp \in Int /\ c.rsp % 16 = 0
            /\ n.rsp = c.rsp - 8 /\ Writes(c, n, n.rsp, c.pc + 1)
        BY <1>4, <2>4, CallKeeps
      <3>2. n.rsp < c.rsp
        BY <3>1
      <3> QED
        BY <3>1, <3>2 DEF OwnWrite
    <2>5. CASE code[p].i \in {"mov_rsp_rbp", "pop_rbp"}
      <3>1. Here(code, n, fs, d, j) /\ n.stk = c.stk
        BY <1>4, <2>5, LeaveKeeps
      <3> QED
        BY <2>5, <3>1 DEF OwnWrite
    <2>6. CASE code[p].i = "ret"
      <3>1. /\ n.stk = c.stk
            /\ \/ IsCpu(n) /\ Finished(n, j)
               \/ Here(code, n, fs, d - 1, j)
        BY <1>4, <2>6, ReturnKeeps
      <3> QED
        BY <2>6, <3>1 DEF OwnWrite
    <2>7. \/ WritesRegisters(f.fn, code[p]) \/ WritesFrame(f.fn, code[p])
          \/ code[p].i \in {"jmp", "jcc", "call", "mov_rsp_rbp", "pop_rbp", "ret"}
      BY <1>1, <1>4 DEF IsFunction, HasBody, Goes, Leaves
    <2> HIDE DEF n
    <2> QED
      BY <2>1, <2>2, <2>3, <2>4, <2>5, <2>6, <2>7
  <1> QED
    BY <1>1, <1>2, <1>3, <1>4 DEF BodyOf

(* The frame of the function called begins where the ABI wants it. *)
LEMMA FirstFrameAligned ==
    ASSUME NEW b \in Int, b + 72 = 0 PROVE b % 16 = 8
  OBVIOUS

(* A run begins in the frame of the function called. *)
LEMMA RunBegins ==
    ASSUME NEW code, NEW e, Shaped(code, e), NEW args, NEW mem, NEW j
    PROVE  LET c == EnterCode(e, args, mem, j)
           IN  \E fs, d : Here(code, c, fs, d, j)
  <1> DEFINE c == EnterCode(e, args, mem, j)
             f == [fn |-> FunctionAt(code, e), base |-> CallerRsp - 8, rbp |-> 0, ret |-> Halt,
                   kept |-> [r \in CalleeSaved |-> j]]
             fs == [i \in {1} |-> f]
  <1>1. FunctionAt(code, e) \in Functions(code) /\ FunctionAt(code, e).entry = e
    BY FunctionStarts DEF Shaped
  <1>2. IsFrame(code, f) /\ f.fn.entry = e
    <2>1. CallerRsp - 8 \in Int /\ (CallerRsp - 8) % 16 = 8
      <3>1. CallerRsp - 8 \in Int /\ (CallerRsp - 8) + 72 = 0
        BY DEF CallerRsp
      <3> QED
        BY <3>1, FirstFrameAligned
    <2> QED
      BY <1>1, <2>1 DEF IsFrame
  <1>3. IsCpu(c) /\ c.pc = e /\ c.rsp = CallerRsp - 8 /\ c.rbp = 0
    BY DEF EnterCode, IsCpu
  <1>4. Cell(c, CallerRsp - 8, Halt)
    BY DEF EnterCode, Cell
  <1>5. ASSUME NEW r \in CalleeSaved
        PROVE  c.regs[r] = j
    <2>1. ~ \E i \in 0 .. 3 : r = ArgRegs[i + 1]
      BY ScratchIsNotSaved
    <2> QED
      BY <2>1 DEF EnterCode
  <1> HIDE DEF c
  <1>6. Top(code, c, f)
    <2>1. /\ c.pc = f.fn.entry /\ Cell(c, f.base, f.ret) /\ c.rsp = f.base /\ c.rbp = f.rbp
          /\ \A r \in CalleeSaved : c.regs[r] = f.kept[r]
      BY <1>2, <1>3, <1>4, <1>5
    <2> HIDE DEF f
    <2> QED
      BY <1>2, <2>1, TopAtEntry
  <1>7. Bottom(f, j)
    BY DEF Bottom
  <1>8. fs[1] = f /\ 1 .. 1 = {1} /\ 1 .. 1 - 1 = {}
    OBVIOUS
  <1> HIDE DEF f, fs
  <1>9. Chain(code, c, fs, 1, j)
    BY <1>2, <1>7, <1>8 DEF Chain
  <1>10. Here(code, c, fs, 1, j)
    BY <1>3, <1>6, <1>8, <1>9 DEF Here, Running
  <1> QED
    BY <1>10 DEF c

-----------------------------------------------------------------------------
(* At any time of a run there are frames the processor is in, or it is      *)
(* done.                                                                    *)
InFrames ==
    \/ Finished(cpu, junk)
    \/ \E fs, d : Here(image, cpu, fs, d, junk)

(* The inductive invariant: the code has its shape from the moment it is    *)
(* handed over, and the processor is in a chain of frames.  That chain is a *)
(* history no variable records.                                             *)
RInv ==
    /\ stage \in {"ready", "run"} => Shaped(image, entry)
    /\ stage = "run" => InFrames
    /\ stage = "done" /\ steps > 0 => Finished(cpu, junk)

(* Here the processor is inside the code. *)
LEMMA HereIsNotHalted ==
    ASSUME NEW code, NEW e, Shaped(code, e), NEW c, NEW fs, NEW d, NEW j, Here(code, c, fs, d, j)
    PROVE  c.pc # Halt
  <1>1. Top(code, c, fs[d]) /\ IsFunction(code, fs[d].fn)
    BY HereFacts
  <1> QED
    BY <1>1 DEF Top, IsFunction, Halt

(* That is what is promised of every step. *)
LEMMA OwnWriteIsInFrame ==
    ASSUME NEW c, NEW n, OwnWrite(c, n), NEW x \in DOMAIN n.stk
    PROVE  \/ x \in DOMAIN c.stk /\ n.stk[x] = c.stk[x]
           \/ n.rsp = x /\ x < c.rsp
           \/ n.rsp <= x /\ x < c.rbp
  <1>1. CASE n.stk = c.stk
    BY <1>1
  <1>2. ASSUME NEW y, NEW v, Writes(c, n, y, v),
               \/ n.rsp = y /\ y < c.rsp
               \/ n.rsp <= y /\ y < c.rbp
        PROVE  \/ x \in DOMAIN c.stk /\ n.stk[x] = c.stk[x]
               \/ n.rsp = x /\ x < c.rsp
               \/ n.rsp <= x /\ x < c.rbp
    <2>1. CASE x = y
      BY <1>2, <2>1
    <2>2. CASE x # y
      BY <1>2, <2>2 DEF Writes
    <2> QED
      BY <2>1, <2>2
  <1> QED
    BY <1>1, <1>2 DEF OwnWrite

(* Every step of a run keeps the invariant, and writes within its frame.    *)
LEMMA RInvStep == RInv /\ [RunNext]_run_vars => RInv' /\ OwnFrameOnly
  <1> SUFFICES ASSUME RInv, [RunNext]_run_vars PROVE RInv' /\ OwnFrameOnly
    OBVIOUS
  <1>0. cpu' = cpu => OwnFrameOnly
    BY DEF OwnFrameOnly
  <1>1. CASE Prepare
    BY <1>0, <1>1 DEF Prepare, RInv
  <1>2. CASE Start
    <2>1. Shaped(image, entry)
      BY <1>2 DEF Start, RInv
    <2>2. \E fs, d : Here(image, cpu', fs, d, junk')
      BY <1>2, <2>1, RunBegins DEF Start
    <2>3. image' = image /\ entry' = entry /\ stage' = "run" /\ stage = "ready"
      BY <1>2 DEF Start
    <2> QED
      BY <2>1, <2>2, <2>3 DEF RInv, InFrames, OwnFrameOnly
  <1>3. CASE Step
    <2>1. /\ Shaped(image, entry) /\ image' = image /\ entry' = entry /\ junk' = junk
          /\ cpu' = Execute(cpu, image[cpu.pc], junk) /\ stage' \in {"trapped", "run"}
      BY <1>3 DEF Step, RInv
    <2>2. PICK fs, d : Here(image, cpu, fs, d, junk)
      BY <1>3 DEF Step, RInv, InFrames, Finished
    <2>3. /\ OwnWrite(cpu, cpu')
          /\ \/ Finished(cpu', junk)
             \/ \E gs, b : Here(image, cpu', gs, b, junk)
      BY <2>1, <2>2, StepKeeps
    <2>4. InFrames'
      BY <2>1, <2>3 DEF InFrames
    <2>5. OwnFrameOnly
      BY <2>3, OwnWriteIsInFrame DEF OwnFrameOnly
    <2> QED
      BY <2>1, <2>4, <2>5 DEF RInv
  <1>4. CASE Return
    <2>1. /\ Shaped(image, entry) /\ cpu.pc = Halt /\ UNCHANGED <<cpu, junk>>
          /\ stage' = "done" /\ InFrames
      BY <1>4 DEF Return, RInv
    <2>2. Finished(cpu, junk)
      BY <2>1, HereIsNotHalted DEF InFrames
    <2> QED
      BY <1>0, <2>1, <2>2 DEF RInv, Finished
  <1>5. CASE UNCHANGED run_vars
    BY <1>0, <1>5 DEF run_vars, running, RInv, InFrames
  <1> QED
    BY <1>1, <1>2, <1>3, <1>4, <1>5 DEF RunNext

(* Whatever code of the shape is called, the frames are a chain at all      *)
(* times.                                                                   *)
THEOREM RunInvariance == RunSpec => []RInv
  <1>1. RunInit => RInv
    BY DEF RunInit, RInv
  <1> QED
    BY <1>1, RInvStep, PTL DEF RunSpec

(* JitModule::call returns to its caller with the registers a callee must   *)
(* keep, rbp and rsp as they were: however deep the calls went, whatever    *)
(* the arguments, memory and junk were, for code of any length.             *)
THEOREM CallingConventionKept == RunSpec => []CallerKept
  <1>1. RInv => CallerKept
    BY DEF RInv, Finished, CallerKept
  <1> QED
    BY <1>1, RunInvariance, PTL

(* Every call is made with the stack aligned to sixteen bytes.              *)
THEOREM StackAlignedAtCalls == RunSpec => []CallsAligned
  <1>1. RInv => CallsAligned
    <2> SUFFICES ASSUME RInv, stage = "run", cpu.pc # Halt, image[cpu.pc].i = "call"
                 PROVE  cpu.rsp % 16 = 0
      BY DEF CallsAligned
    <2>1. PICK fs, d : Here(image, cpu, fs, d, junk)
      BY DEF RInv, InFrames, Finished
    <2>2. Shaped(image, entry)
      BY DEF RInv
    <2> QED
      BY <2>1, <2>2, StepKeeps
  <1> QED
    BY <1>1, RunInvariance, PTL

(* No step changes a cell of the stack that belongs to a caller: it writes  *)
(* at the top it pushes to, or between rsp and the rbp of its own frame.    *)
THEOREM FramesAreKept == RunSpec => WritesOwnFrameOnly
  <1>1. RInv /\ [RunNext]_run_vars => [OwnFrameOnly]_run_vars
    BY RInvStep
  <1> QED
    BY <1>1, RunInvariance, PTL DEF RunSpec, WritesOwnFrameOnly
=============================================================================
