-------------------------------- MODULE Machine --------------------------------
(***************************************************************************)
(* The x86-64 instructions of x64.hpp: the assembler that collects them,   *)
(* and a processor that executes them.  An instruction is a record and     *)
(* takes one place of the code; its bytes are left out.                    *)
(*                                                                         *)
(* Words have Word bits and the word operations work on signed values.     *)
(* rsp, rbp and code addresses are never operands of arithmetic and are    *)
(* kept as plain integers.  The stack is a memory of its own, in bytes.    *)
(***************************************************************************)
EXTENDS Semantics, Layout, SequencesExt

Scratch == {"RAX", "RCX", "RDX", "R8", "R9"}
ArgRegs == <<"RCX", "RDX", "R8", "R9">>
AllocRegs == <<"RBX", "RSI", "RDI", "R12", "R13", "R14", "R15">>
CalleeSaved == Range(AllocRegs)

-----------------------------------------------------------------------------
(* The assembler: [code, labels, relocs]; labels[l] is the place label l is *)
(* bound to, 0 while it is not.                                             *)
EmptyAsm == [code |-> <<>>, labels |-> <<>>, relocs |-> <<>>]

Ins(i) == [i |-> i, d |-> "", s |-> "", k |-> "", n |-> 0]

Asm(a, in) == [a EXCEPT !.code = Append(@, in)]
AsmAll(a, ins) == [a EXCEPT !.code = @ \o ins]

MovRI(a, d, n) == Asm(a, [Ins("mov_ri") EXCEPT !.d = d, !.n = n])
MovRR(a, d, s) == Asm(a, [Ins("mov_rr") EXCEPT !.d = d, !.s = s])
LoadRbp(a, d, disp) == Asm(a, [Ins("load") EXCEPT !.d = d, !.n = disp])
StoreRbp(a, disp, s) == Asm(a, [Ins("store") EXCEPT !.s = s, !.n = disp])
StoreRsp(a, disp, s) == Asm(a, [Ins("store_rsp") EXCEPT !.s = s, !.n = disp])
Alu(a, k, d, s) == Asm(a, [Ins("alu") EXCEPT !.k = k, !.d = d, !.s = s])
AluRM(a, k, d, disp) == Asm(a, [Ins("alu_rm") EXCEPT !.k = k, !.d = d, !.n = disp])
AluRI(a, k, d, n) == Asm(a, [Ins("alu_ri") EXCEPT !.k = k, !.d = d, !.n = n])
Unary(a, k, d) == Asm(a, [Ins("unary") EXCEPT !.k = k, !.d = d])
MovSX(a, d) == Asm(a, [Ins("movsx") EXCEPT !.d = d])
TestRR(a, d) == Asm(a, [Ins("test_rr") EXCEPT !.d = d])
MovFromMem(a, d, s) == Asm(a, [Ins("mov_from_mem") EXCEPT !.d = d, !.s = s])
MovToMem(a, d, s) == Asm(a, [Ins("mov_to_mem") EXCEPT !.d = d, !.s = s])
CMov(a, cc, d, s) == Asm(a, [Ins("cmovcc") EXCEPT !.k = cc, !.d = d, !.s = s])
Jump(a, l) == Asm(a, [Ins("jmp") EXCEPT !.n = l])
JCC(a, cc, l) == Asm(a, [Ins("jcc") EXCEPT !.k = cc, !.n = l])
SetCC(a, cc) == Asm(a, [Ins("setcc") EXCEPT !.k = cc])
SubRsp(a, n) == Asm(a, [Ins("sub_rsp") EXCEPT !.n = n])

NewLabels(a, n) == [a EXCEPT !.labels = @ \o [i \in 1 .. n |-> 0]]
BindLabel(a, l) == [a EXCEPT !.labels[l] = Len(a.code) + 1]

(* Jumps are relative to the place they stand at. *)
Finalize(a) ==
    [i \in DOMAIN a.code |->
        IF a.code[i].i \in {"jmp", "jcc"}
        THEN [a.code[i] EXCEPT !.n = a.labels[a.code[i].n] - i] ELSE a.code[i]]

-----------------------------------------------------------------------------
(* The processor: a record c of                                             *)
(*   pc, regs, rsp, rbp                                                     *)
(*   cmp          the two numbers last compared,                            *)
(*   stk, mem     the stack by address, and the rest of memory,             *)
(*   trap         it stopped on an error.                                   *)
(* Registers and stack hold junk where nothing was written.                 *)
StackCell(c, addr, junk) == IF addr \in DOMAIN c.stk THEN c.stk[addr] ELSE junk

SetReg(c, d, v) == [c EXCEPT !.regs[d] = v]
Poke(c, addr, v) ==
    [c EXCEPT !.stk = [x \in DOMAIN c.stk \cup {addr} |-> IF x = addr THEN v ELSE c.stk[x]]]
Trap(c) == [c EXCEPT !.trap = TRUE]

(* An operation with its flags. *)
AluStep(c, k, d, b) ==
    IF k = "Cmp" THEN [c EXCEPT !.cmp = <<c.regs[d], b>>]
    ELSE LET v == Calc(k, c.regs[d], b)
         IN  [SetReg(c, d, v) EXCEPT !.cmp = <<v, 0>>]

(* RDX:RAX divided by s: it traps unless the quotient fits a register. *)
IDiv(c, s) ==
    LET dividend == c.regs["RDX"] * 2 ^ Word + (c.regs["RAX"] % 2 ^ Word)
        b == c.regs[s]
    IN  IF b = 0 \/ Quotient(dividend, b) \notin Int64 THEN Trap(c)
        ELSE [c EXCEPT !.regs["RAX"] = Quotient(dividend, b),
                       !.regs["RDX"] = Remainder(dividend, b)]

UnaryStep(c, k, d) ==
    CASE k = "neg" -> SetReg(c, d, Wrap(-c.regs[d], Word))
      [] k = "not" -> SetReg(c, d, -c.regs[d] - 1)
      [] k = "idiv" -> IDiv(c, d)
      [] k = "cqo" -> SetReg(c, "RDX", IF c.regs["RAX"] < 0 THEN -1 ELSE 0)
      [] k = "Shl" -> SetReg(c, d, Calc("Shl", c.regs[d], c.regs["RCX"]))
      [] k = "AShr" -> SetReg(c, d, Calc("AShr", c.regs[d], c.regs["RCX"]))
      [] k = "LShr" -> SetReg(c, d, Calc("LShr", c.regs[d], c.regs["RCX"]))

Access(c, in) ==
    LET addr == c.regs[IF in.i = "mov_from_mem" THEN in.s ELSE in.d]
    IN  IF addr \notin DOMAIN c.mem THEN Trap(c)
        ELSE IF in.i = "mov_from_mem" THEN SetReg(c, in.d, c.mem[addr])
        ELSE [c EXCEPT !.mem[addr] = c.regs[in.s]]

Control(c, in, junk) ==
    CASE in.i = "jmp" -> [c EXCEPT !.pc = @ + in.n]
      [] in.i = "jcc" ->
            [c EXCEPT !.pc = @ + (IF Holds(in.k, c.cmp[1], c.cmp[2]) THEN in.n ELSE 1)]
      [] in.i = "call" ->
            [Poke(c, c.rsp - 8, c.pc + 1) EXCEPT !.rsp = @ - 8, !.pc = c.regs["RAX"]]
      [] in.i = "ret" -> [c EXCEPT !.pc = StackCell(c, c.rsp, junk), !.rsp = @ + 8]

Straight(c, in, junk) ==
    CASE in.i = "push_rbp" -> [Poke(c, c.rsp - 8, c.rbp) EXCEPT !.rsp = @ - 8]
      [] in.i = "pop_rbp" -> [c EXCEPT !.rbp = StackCell(c, c.rsp, junk), !.rsp = @ + 8]
      [] in.i = "mov_rbp_rsp" -> [c EXCEPT !.rbp = c.rsp]
      [] in.i = "mov_rsp_rbp" -> [c EXCEPT !.rsp = c.rbp]
      [] in.i = "sub_rsp" -> [c EXCEPT !.rsp = @ - in.n]
      [] in.i = "mov_ri" -> SetReg(c, in.d, in.n)
      [] in.i = "mov_rr" -> SetReg(c, in.d, c.regs[in.s])
      [] in.i = "load" -> SetReg(c, in.d, StackCell(c, c.rbp + in.n, junk))
      [] in.i = "store" -> Poke(c, c.rbp + in.n, c.regs[in.s])
      [] in.i = "store_rsp" -> Poke(c, c.rsp + in.n, c.regs[in.s])
      [] in.i = "alu" -> AluStep(c, in.k, in.d, c.regs[in.s])
      [] in.i = "alu_rm" -> AluStep(c, in.k, in.d, StackCell(c, c.rbp + in.n, junk))
      [] in.i = "alu_ri" -> AluStep(c, in.k, in.d, in.n)
      [] in.i = "unary" -> UnaryStep(c, in.k, in.d)
      [] in.i = "movsx" -> SetReg(c, in.d, Wrap(c.regs[in.d], Narrow))
      [] in.i = "test_rr" -> [c EXCEPT !.cmp = <<c.regs[in.d], 0>>]
      [] in.i = "setcc" -> SetReg(c, "RAX", IF Holds(in.k, c.cmp[1], c.cmp[2]) THEN 1 ELSE 0)
      [] in.i = "cmovcc" ->
            IF Holds(in.k, c.cmp[1], c.cmp[2]) THEN SetReg(c, in.d, c.regs[in.s]) ELSE c
      [] in.i \in {"mov_from_mem", "mov_to_mem"} -> Access(c, in)

(* One instruction. *)
Execute(c, in, junk) ==
    IF in.i \in {"jmp", "jcc", "call", "ret"} THEN Control(c, in, junk)
    ELSE [Straight(c, in, junk) EXCEPT !.pc = @ + 1]

(* A call from outside, as JitModule::call makes it: eight arguments, of    *)
(* which a function ignores those it has no parameter for.                  *)
Halt == 0
CallerRsp == -64

EnterCode(entry, args, mem, junk) ==
    LET arg(i) == IF i < Len(args) THEN args[i + 1] ELSE 0
        rsp == CallerRsp
    IN  [pc |-> entry, rsp |-> rsp - 8, rbp |-> 0, cmp |-> <<0, 0>>,
         regs |-> [r \in Scratch \cup CalleeSaved |->
                      IF \E i \in 0 .. 3 : r = ArgRegs[i + 1]
                      THEN arg(CHOOSE i \in 0 .. 3 : r = ArgRegs[i + 1]) ELSE junk],
         stk |-> [x \in {rsp - 8} \cup {rsp + OutDisp(i) : i \in 4 .. 7} |->
                     IF x = rsp - 8 THEN Halt ELSE arg(4 + (x - rsp - 32) \div 8)],
         mem |-> mem, trap |-> FALSE]
===============================================================================
