------------------------------- MODULE Backend -------------------------------
(***************************************************************************)
(* From VCode and its allocation to a module that runs: FnEncoder encodes  *)
(* a function instruction by instruction, another generator may hand over  *)
(* code of its own, and the linker lays the functions out one behind the   *)
(* other and patches the calls between them.                               *)
(*                                                                         *)
(* BackendSpec asks nothing of the programs but that each operand has a    *)
(* home and each block an end.  It implements RunSpec: what is linked has  *)
(* the shape that a run relies on.                                         *)
(***************************************************************************)
EXTENDS Encode, Run

VARIABLES prog,     \* the VCode of the function being compiled, and
          reg, spill, num_spills, reg_used,   \* the homes of its vregs
          enc,      \* the encoder at this function
          outs      \* the functions compiled so far: [node, code, relocs]

allocation == <<reg, spill, num_spills, reg_used>>
backend_vars == <<run_vars, prog, allocation, enc, outs>>

(* The allocation as the encoder reads it. *)
Allocation ==
    [reg |-> reg, spill |-> spill, num_spills |-> num_spills, reg_used |-> reg_used]

-----------------------------------------------------------------------------
(* The encoder. *)
BeginEncode ==
    /\ stage = "allocate"
    /\ stage' = "encode"
    /\ enc' = EncodeStart(prog, Allocation)
    /\ UNCHANGED <<outs, image, entry, running>>

EncodeOne ==
    /\ stage = "encode" /\ ~Encoded(enc, prog)
    /\ enc' = EncodeNext(enc, prog, Allocation)
    /\ UNCHANGED <<stage, outs, image, entry, running>>

Out(node, gen) == [node |-> node, code |-> gen.code, relocs |-> gen.relocs]

EndEncode(node) ==
    /\ stage = "encode" /\ Encoded(enc, prog)
    /\ outs' = Append(outs, Out(node, [code |-> Finalize(enc.a), relocs |-> enc.a.relocs]))
    /\ enc' = <<>>
    /\ UNCHANGED <<image, entry, running>>

-----------------------------------------------------------------------------
(* The functions one after the other, from place 1 on.  The calls are       *)
(* patched with the places of their targets: a target that is not in the    *)
(* module is taken for the first function of it.                            *)
Offset(i) == Len(FlattenSeq([j \in 1 .. i - 1 |-> outs[j].code]))

IndexOf(node) ==
    LET at == {i \in DOMAIN outs : outs[i].node = node}
    IN  IF at = {} THEN 1 ELSE Max(at)

Sites(out) == {r.at : r \in Range(out.relocs)}

(* The code of a function with its calls led to a place each. *)
Retargeted(out, place) ==
    [i \in DOMAIN out.code |->
        IF i \in Sites(out) THEN [out.code[i] EXCEPT !.n = place[i]] ELSE out.code[i]]

Patched(out) ==
    LET target(at) == (CHOOSE r \in Range(out.relocs) : r.at = at).target
        place == [at \in Sites(out) |-> Offset(IndexOf(target(at))) + 1]
    IN  Retargeted(out, place)

LinkTo(main) ==
    /\ stage = "link"
    /\ stage' = "ready"
    /\ image' = FlattenSeq([i \in DOMAIN outs |-> Patched(outs[i])])
    /\ entry' = Offset(IndexOf(main)) + 1
    /\ outs' = <<>>
    /\ UNCHANGED <<enc, running>>

-----------------------------------------------------------------------------
(* What the encoder asks of its input: every operand has a home, a register *)
(* that is saved or a slot of the frame, every block ends in a terminator,  *)
(* and jumps lead to blocks.                                                *)
Placed(al, v) ==
    IF al.reg[v] >= 0 THEN al.reg[v] \in al.reg_used ELSE al.spill[v] \in 0 .. al.num_spills - 1

Terminators == {"Ret", "Jmp", "Br"}
ResultOps == {"MovArg", "MovImm", "Mov", "Neg", "Not", "Div", "Rem", "SetCmp", "Sel", "Load", "Call"}
             \cup DOMAIN AluOf \cup DOMAIN ShiftOf

Encodable(al, in, n) ==
    /\ in.op \in ResultOps \cup Terminators \cup {"Store"}
    /\ in.op \in ResultOps => Placed(al, in.dst)
    /\ in.op \notin {"MovArg", "MovImm", "Jmp", "Call"} => Placed(al, in.a)
    /\ in.op \in {"Div", "Rem", "Store", "Sel"} => Placed(al, in.b)
    /\ in.op \in DOMAIN AluOf \cup DOMAIN ShiftOf \cup {"SetCmp"} => in.b_imm \/ Placed(al, in.b)
    /\ in.op = "MovArg" => in.imm \in Nat
    /\ in.op = "Sel" => Placed(al, in.c)
    /\ in.op = "Call" => /\ in.args \in Seq(Range(in.args))
                         /\ \A i \in DOMAIN in.args : Placed(al, in.args[i])
    /\ in.op \in {"Jmp", "Br"} => in.target \in 1 .. n
    /\ in.op = "Br" => in.target2 \in 1 .. n

IsBlock(al, blk, n) ==
    /\ blk \in Seq(Range(blk)) /\ blk # <<>>
    /\ \A i \in DOMAIN blk : Encodable(al, blk[i], n)
    /\ Last(blk).op \in Terminators

Allocated(blocks, al) ==
    /\ al.reg_used \subseteq 0 .. Len(AllocRegs) - 1 /\ al.num_spills \in Nat
    /\ blocks \in Seq(Range(blocks)) /\ blocks # <<>>
    /\ \A b \in DOMAIN blocks : IsBlock(al, blocks[b], Len(blocks))

IsInstruction(in) == in = [i |-> in.i, d |-> in.d, s |-> in.s, k |-> in.k, n |-> in.n]

(* What the linker asks of a function: by itself, with its calls led to     *)
(* itself, it has the shape Run asks for, and every call is relocated.      *)
FunctionCode(out) ==
    LET itself == [at \in Sites(out) |-> 1]
        code == Retargeted(out, itself)
    IN  /\ out.code \in Seq(Range(out.code)) /\ Starts(out.code) = {1}
        /\ \A p \in Sites(out) : /\ p \in DOMAIN out.code /\ out.code[p].i = "mov_ri"
                                   /\ IsInstruction(out.code[p])
        /\ \A p \in DOMAIN out.code :
              /\ out.code[p].i = "call" => p - 1 \in Sites(out)
              /\ out.code[p].i \in {"jmp", "jcc"} => out.code[p].n \in Int
        /\ IsFunction(code, FunctionAt(code, 1))

-----------------------------------------------------------------------------
Busy == {"encode", "link", "ready", "run"}

(* The phases before the encoder, and the interpreter. *)
OtherPhase ==
    /\ stage \notin Busy /\ stage' \notin Busy /\ steps = 0
    /\ UNCHANGED <<outs, enc, image, entry, junk, cpu, steps>>

(* Another generator compiles a function. *)
HandOver ==
    /\ stage \notin Busy /\ stage' \in {"graph", "link"} /\ steps = 0
    /\ outs' = Append(outs, Last(outs')) /\ FunctionCode(Last(outs'))
    /\ UNCHANGED <<enc, image, entry, junk, cpu, steps>>

EncodeFunction ==
    \/ Allocated(prog, Allocation) /\ BeginEncode /\ UNCHANGED <<prog, allocation>>
    \/ EncodeOne /\ UNCHANGED <<prog, allocation>>
    \/ stage' \in {"graph", "link"} /\ EndEncode(Last(outs').node)

LinkAndRun ==
    \/ \E i \in DOMAIN outs : LinkTo(outs[i].node)
    \/ (Start \/ Step \/ Return) /\ UNCHANGED <<enc, outs>>

BackendInit == stage \notin Busy /\ steps = 0 /\ outs = <<>>

BackendNext == OtherPhase \/ HandOver \/ EncodeFunction \/ LinkAndRun

(* The compiler implements it, whatever precedes the encoder.               *)
BackendSpec == BackendInit /\ [][BackendNext]_backend_vars
===============================================================================
