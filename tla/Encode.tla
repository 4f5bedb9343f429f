-------------------------------- MODULE Encode --------------------------------
(***************************************************************************)
(* FnEncoder of backend2.cpp: from the VCode of a function and the         *)
(* registers and spill slots its vregs were given to machine code.         *)
(*                                                                         *)
(* al is the allocation [reg, spill, num_spills, reg_used] over vregs; a   *)
(* is the assembler.  RAX, RCX and RDX hold values only within the code of *)
(* one VCode instruction.                                                  *)
(***************************************************************************)
EXTENDS Machine

(* saved_regs: the registers in use, by number. *)
Saved(al) ==
    FlattenSeq([i \in DOMAIN AllocRegs |-> IF i - 1 \in al.reg_used THEN <<i - 1>> ELSE <<>>])

Home(al, v) == AllocRegs[al.reg[v] + 1]
InReg(al, v) == al.reg[v] >= 0
SpillAt(al, v) == SpillDisp(Len(Saved(al)), al.spill[v])

(* get() and put(): a vreg's value into a register, and back to its home. *)
Fetch(a, al, v, r) ==
    IF ~InReg(al, v) THEN LoadRbp(a, r, SpillAt(al, v))
    ELSE IF Home(al, v) = r THEN a ELSE MovRR(a, r, Home(al, v))

PutBack(a, al, v, r) ==
    IF ~InReg(al, v) THEN StoreRbp(a, SpillAt(al, v), r)
    ELSE IF Home(al, v) = r THEN a ELSE MovRR(a, Home(al, v), r)

(* Mutant: values of narrow types keep what does not fit. *)
NarrowedNever(a, r, t) == a

(* narrow(): truth values are not narrowed. *)
Narrowed(a, r, t) == IF t = "narrow" THEN MovSX(a, r) ELSE a

(* The register a result is computed in: its home, or RAX. *)
Target(al, v) == IF InReg(al, v) THEN Home(al, v) ELSE "RAX"

(* The end of an instruction that computed dst in its target. *)
Settled(a, al, in) ==
    LET b == Narrowed(a, Target(al, in.dst), in.type)
    IN  IF InReg(al, in.dst) THEN b ELSE StoreRbp(b, SpillAt(al, in.dst), "RAX")

AluOf == [Add |-> "Add", Sub |-> "Sub", And |-> "And", Or |-> "Or", Xor |-> "Xor", Mul |-> "Mul"]
ShiftOf == [Shl |-> "Shl", Sar |-> "AShr", Shr |-> "LShr"]

(* alu_v() *)
AluV(a, al, k, r, v) ==
    IF InReg(al, v) THEN Alu(a, k, r, Home(al, v)) ELSE AluRM(a, k, r, SpillAt(al, v))

EncodeBinary(a, al, in) ==
    LET t == Target(al, in.dst)
        got == Fetch(a, al, in.a, t)
    IN  Settled(IF in.b_imm THEN AluRI(got, AluOf[in.op], t, in.imm)
                ELSE AluV(got, al, AluOf[in.op], t, in.b), al, in)

(* The count is an immediate or in CL. *)
EncodeShift(a, al, in) ==
    LET t == Target(al, in.dst)
        got == Fetch(a, al, in.a, t)
    IN  Settled(IF in.b_imm THEN AluRI(got, ShiftOf[in.op], t, in.imm)
                ELSE Unary(Fetch(got, al, in.b, "RCX"), ShiftOf[in.op], t), al, in)

EncodeUnary(a, al, in) ==
    LET t == Target(al, in.dst)
    IN  Settled(Unary(Fetch(a, al, in.a, t), IF in.op = "Neg" THEN "neg" ELSE "not", t), al, in)

(* Mutant: no way round the division for the least number by -1. *)
EncodeDivNoOverflow(a, al, in) ==
    LET zero == Len(a.labels) + 1
        done == zero + 1
        ops == Fetch(Fetch(NewLabels(a, 2), al, in.a, "RAX"), al, in.b, "RCX")
        div == Unary(Unary(JCC(TestRR(ops, "RCX"), "CmpEq", zero), "cqo", "RDX"), "idiv", "RCX")
        quot == IF in.op = "Div" THEN div ELSE MovRR(div, "RAX", "RDX")
        put == Jump(PutBack(Narrowed(quot, "RAX", in.type), al, in.dst, "RAX"), done)
    IN  BindLabel(PutBack(MovRI(BindLabel(put, zero), "RAX", 0), al, in.dst, "RAX"), done)

(* Division by zero gives 0, the least number by -1 itself, remainder 0. *)
EncodeDiv(a, al, in) ==
    LET zero == Len(a.labels) + 1
        over == zero + 1
        div == zero + 2
        done == zero + 3
        answer(b) == PutBack(b, al, in.dst, "RAX")
        ops == Fetch(Fetch(NewLabels(a, 4), al, in.a, "RAX"), al, in.b, "RCX")
        one == Alu(MovRI(JCC(TestRR(ops, "RCX"), "CmpEq", zero), "RDX", -1), "Cmp", "RCX", "RDX")
        least == Alu(MovRI(JCC(one, "CmpNe", div), "RDX", MinWord), "Cmp", "RAX", "RDX")
        guarded == BindLabel(Jump(JCC(least, "CmpNe", div), over), div)
        idiv == Unary(Unary(guarded, "cqo", "RDX"), "idiv", "RCX")
        quot == IF in.op = "Div" THEN idiv ELSE MovRR(idiv, "RAX", "RDX")
        atZero == BindLabel(Jump(answer(Narrowed(quot, "RAX", in.type)), done), zero)
        atOver == BindLabel(Jump(answer(MovRI(atZero, "RAX", 0)), done), over)
    IN  BindLabel(answer(IF in.op = "Div" THEN Narrowed(atOver, "RAX", in.type)
                         ELSE MovRI(atOver, "RAX", 0)), done)

EncodeSetCmp(a, al, in) ==
    LET got == Fetch(a, al, in.a, "RAX")
        cmp == IF in.b_imm THEN AluRI(got, "Cmp", "RAX", in.imm) ELSE AluV(got, al, "Cmp", "RAX", in.b)
    IN  PutBack(SetCC(cmp, in.cc), al, in.dst, "RAX")

EncodeSel(a, al, in) ==
    LET got == Fetch(Fetch(Fetch(a, al, in.b, "RAX"), al, in.a, "RCX"), al, in.c, "RDX")
    IN  PutBack(Narrowed(CMov(TestRR(got, "RDX"), "CmpNe", "RAX", "RCX"), "RAX", in.type),
                al, in.dst, "RAX")

(* Mutant: an argument on the stack is looked for one place too low. *)
EncodeMovArgLow(a, al, in) ==
    LET src == IF in.imm < 4 THEN ArgRegs[in.imm + 1] ELSE "RAX"
        got == IF in.imm < 4 THEN a ELSE LoadRbp(a, "RAX", InDisp(in.imm - 1))
    IN  PutBack(Narrowed(got, src, in.type), al, in.dst, src)

EncodeMovArg(a, al, in) ==
    LET src == IF in.imm < 4 THEN ArgRegs[in.imm + 1] ELSE "RAX"
        got == IF in.imm < 4 THEN a ELSE LoadRbp(a, "RAX", InDisp(in.imm))
    IN  PutBack(Narrowed(got, src, in.type), al, in.dst, src)

(* MovImm and Mov do not narrow. *)
EncodeMov(a, al, in) ==
    LET t == Target(al, in.dst)
        got == IF in.op = "MovImm" THEN MovRI(a, t, in.imm) ELSE Fetch(a, al, in.a, t)
    IN  IF InReg(al, in.dst) THEN got ELSE StoreRbp(got, SpillAt(al, in.dst), "RAX")

(* Mutant: the value to be stored overwrites the address. *)
EncodeMemoryClash(a, al, in) ==
    LET at == Fetch(a, al, in.a, "RAX")
    IN  IF in.op = "Load" THEN Settled(MovFromMem(at, Target(al, in.dst), "RAX"), al, in)
        ELSE MovToMem(Fetch(at, al, in.b, "RAX"), "RAX", "RAX")

EncodeMemory(a, al, in) ==
    LET at == Fetch(a, al, in.a, "RAX")
    IN  IF in.op = "Load" THEN Settled(MovFromMem(at, Target(al, in.dst), "RAX"), al, in)
        ELSE MovToMem(Fetch(at, al, in.b, "RCX"), "RAX", "RCX")

(* The arguments of index 4 and up go to the stack, the others to registers. *)
PassArgs(a, al, args) ==
    LET onStack(i) == StoreRsp(Fetch(EmptyAsm, al, args[i], "RAX"), OutDisp(i - 1), "RAX").code
        inReg(i) == Fetch(EmptyAsm, al, args[i], ArgRegs[i]).code
    IN  AsmAll(AsmAll(a, FlattenSeq([i \in DOMAIN args |-> IF i > 4 THEN onStack(i) ELSE <<>>])),
               FlattenSeq([i \in DOMAIN args |-> IF i > 4 THEN <<>> ELSE inReg(i)]))

(* The callee's address is left open: a relocation. *)
EncodeCall(a, al, in) ==
    LET passed == PassArgs(a, al, in.args)
        open == [MovRI(passed, "RAX", 0) EXCEPT
                    !.relocs = Append(@, [at |-> Len(passed.code) + 1, target |-> in.imm])]
    IN  PutBack(Asm(open, Ins("call")), al, in.dst, "RAX")

LeaveFrame(a) == Asm(Asm(Asm(a, Ins("mov_rsp_rbp")), Ins("pop_rbp")), Ins("ret"))

Epilogue(a, al) ==
    LET restore(i) == [Ins("load") EXCEPT !.d = AllocRegs[Saved(al)[i] + 1], !.n = SaveDisp(i - 1)]
    IN  LeaveFrame(AsmAll(a, [i \in DOMAIN Saved(al) |-> restore(i)]))

(* Labels 1 .. n are those of the n blocks. *)
EncodeInst(a, al, in) ==
    CASE in.op = "MovArg" -> EncodeMovArg(a, al, in)
      [] in.op \in {"MovImm", "Mov"} -> EncodeMov(a, al, in)
      [] in.op \in DOMAIN AluOf -> EncodeBinary(a, al, in)
      [] in.op \in DOMAIN ShiftOf -> EncodeShift(a, al, in)
      [] in.op \in {"Neg", "Not"} -> EncodeUnary(a, al, in)
      [] in.op \in {"Div", "Rem"} -> EncodeDiv(a, al, in)
      [] in.op = "SetCmp" -> EncodeSetCmp(a, al, in)
      [] in.op = "Sel" -> EncodeSel(a, al, in)
      [] in.op \in {"Load", "Store"} -> EncodeMemory(a, al, in)
      [] in.op = "Call" -> EncodeCall(a, al, in)
      [] in.op = "Ret" -> Epilogue(Fetch(a, al, in.a, "RAX"), al)
      [] in.op = "Jmp" -> Jump(a, in.target)
      [] in.op = "Br" ->
            Jump(JCC(TestRR(Fetch(a, al, in.a, "RAX"), "RAX"), "CmpNe", in.target), in.target2)

(* The most arguments a call of the function passes on the stack. *)
MaxStackArgs(blocks) ==
    Max({0} \cup {Len(in.args) - 4 :
                  in \in {i \in UNION {Range(blocks[b]) : b \in DOMAIN blocks} : i.op = "Call"}})

Prologue(a, al, stack_args) ==
    LET frame == FrameSize(Len(Saved(al)) + al.num_spills, stack_args)
        save(i) == [Ins("store") EXCEPT !.s = AllocRegs[Saved(al)[i] + 1], !.n = SaveDisp(i - 1)]
    IN  AsmAll(SubRsp(Asm(Asm(a, Ins("push_rbp")), Ins("mov_rbp_rsp")), frame),
               [i \in DOMAIN Saved(al) |-> save(i)])

(* run() takes the blocks in order and each one's instructions in order.  A *)
(* state e of it is [a, block, inst]: the assembler, and the instruction    *)
(* that is next.                                                            *)
EncodeStart(blocks, al) ==
    [a |-> BindLabel(Prologue(NewLabels(EmptyAsm, Len(blocks)), al, MaxStackArgs(blocks)), 1),
     block |-> 1, inst |-> 1]

Encoded(e, blocks) == e.block > Len(blocks)

EncodeNext(e, blocks, al) ==
    LET here == blocks[e.block]
        next == e.block + 1
    IN  IF e.inst <= Len(here)
        THEN [e EXCEPT !.a = EncodeInst(e.a, al, here[e.inst]), !.inst = @ + 1]
        ELSE [a |-> IF next <= Len(blocks) THEN BindLabel(e.a, next) ELSE e.a,
              block |-> next, inst |-> 1]
===============================================================================
