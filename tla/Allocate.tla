------------------------------- MODULE Allocate -------------------------------
(***************************************************************************)
(* allocate() of backend2.cpp as a whole: backward liveness over the       *)
(* blocks of a VFunc to a fixpoint, one conservative interval per vreg     *)
(* from it, and the linear scan of LinearScan over those intervals.        *)
(*                                                                         *)
(* A program is a sequence of blocks, a block a sequence of instructions   *)
(* whose last one is its terminator.  Blocks are numbered from 1 here and  *)
(* from 0 in the code; instructions are numbered from 0 in both.           *)
(***************************************************************************)
EXTENDS LinearScan, SequencesExt, FiniteSetsExt

CONSTANT Programs   \* the VFuncs that may be compiled

ASSUME AllocateAssumption == VReg \subseteq Nat

VARIABLES prog,      \* the VFunc being compiled
          phase,     \* "liveness", then "intervals", then "scan"
          block,     \* the block the sweep visits next; 0: the sweep is over
          changed,   \* did this sweep change a set?
          live_in, live_out

flow == <<prog, phase, block, changed, live_in, live_out>>

VNONE == -1

-----------------------------------------------------------------------------
(* The operands of an instruction: operands() in the code. *)
Def(in) ==
    IF in.op \in {"Store", "Ret", "Br", "Jmp"} THEN VNONE ELSE in.dst

TwoOperands == {"Add", "Sub", "Mul", "Div", "Rem", "And", "Or", "Xor",
                "Shl", "Sar", "Shr", "SetCmp", "Store"}

Uses(in) ==
    CASE in.op \in {"MovArg", "MovImm", "Jmp"} -> {}
      [] in.op \in {"Mov", "Neg", "Not", "Load", "Ret", "Br"} -> {in.a}
      [] in.op \in TwoOperands -> {in.a, in.b} \ {VNONE}   \* b may be an immediate
      [] in.op = "Sel" -> {in.a, in.b, in.c}
      [] in.op = "Call" -> Range(in.args)

Successors(blk) ==
    LET t == Last(blk)
    IN  CASE t.op = "Jmp" -> {t.target}
          [] t.op = "Br" -> {t.target, t.target2}
          [] OTHER -> {}

(* Mutant: a use anywhere in the block counts, even below a definition. *)
GenAnywhere(blk) == UNION {Uses(blk[i]) : i \in DOMAIN blk}

(* The vregs a block reads before it writes them, and those it writes. *)
Gen(blk) ==
    {v \in VReg : \E i \in DOMAIN blk :
        v \in Uses(blk[i]) /\ \A j \in 1 .. i - 1 : Def(blk[j]) # v}

Kill(blk) == {Def(blk[i]) : i \in DOMAIN blk} \ {VNONE}

(* The instructions of blocks 1 .. b in order; the code numbers them from 0, *)
(* so block b covers BlockLo(p, b) .. BlockHi(p, b) - 1.                     *)
Insns(p, b) ==
    LET upTo[c \in 0 .. b] == IF c = 0 THEN <<>> ELSE upTo[c - 1] \o p[c]
    IN  upTo[b]

Code(p) == Insns(p, Len(p))

BlockHi(p, b) == Len(Insns(p, b))
BlockLo(p, b) == BlockHi(p, b - 1)

(* Every block ends in a terminator, so none is empty; jumps lead to blocks, *)
(* operands are vregs, and the numbers touch() is called with are ints.      *)
ASSUME ProgramsAssumption ==
    \A p \in Programs :
        /\ p # <<>> /\ p \in Seq(Range(p))
        /\ Len(Code(p)) <= MaxPos
        /\ \A b \in DOMAIN p :
            /\ p[b] # <<>> /\ p[b] \in Seq(Range(p[b]))
            /\ Successors(p[b]) \subseteq DOMAIN p
            /\ \A i \in DOMAIN p[b] :
                Def(p[b][i]) \in VReg \cup {VNONE} /\ Uses(p[b][i]) \subseteq VReg

(* Mutant: what is live out of a block is not touched at its end. *)
TouchedAtInOnly(p, in, out, v) ==
    LET code == Code(p)
    IN  {i - 1 : i \in {j \in DOMAIN code :
                           v \in Uses(code[j]) \cup {Def(code[j])}}}
        \cup {BlockLo(p, b) : b \in {c \in DOMAIN p : v \in in[c]}}

(* Every number touch() is called with for v: the instructions that name v, *)
(* the first one of each block v is live into, and the one after the last   *)
(* of each block v is live out of.                                          *)
TouchedAt(p, in, out, v) ==
    LET code == Code(p)
    IN  {i - 1 : i \in {j \in DOMAIN code :
                           v \in Uses(code[j]) \cup {Def(code[j])}}}
        \cup {BlockLo(p, b) : b \in {c \in DOMAIN p : v \in in[c]}}
        \cup {BlockHi(p, b) : b \in {c \in DOMAIN p : v \in out[c]}}

LoOf(p, in, out) ==
    [v \in VReg |-> Min({MaxPos} \cup TouchedAt(p, in, out, v))]

HiOf(p, in, out) ==
    [v \in VReg |-> Max({-1} \cup TouchedAt(p, in, out, v))]

-----------------------------------------------------------------------------
AllocInit ==
    /\ prog \in Programs
    /\ phase = "liveness"
    /\ block = Len(prog)
    /\ changed = FALSE
    /\ live_in = [b \in DOMAIN prog |-> {}]
    /\ live_out = [b \in DOMAIN prog |-> {}]
    /\ lo = [v \in VReg |-> MaxPos]
    /\ hi = [v \in VReg |-> -1]
    /\ ScanStart

(* Mutant: no sweep asks for another, so nothing flows around a loop. *)
VisitBlockOnce ==
    LET out == UNION {live_in[s] : s \in Successors(prog[block])}
        in == Gen(prog[block]) \cup (out \ Kill(prog[block]))
    IN  /\ phase = "liveness" /\ block > 0
        /\ changed' = FALSE
        /\ live_out' = [live_out EXCEPT ![block] = out]
        /\ live_in' = [live_in EXCEPT ![block] = in]
        /\ block' = block - 1
        /\ UNCHANGED <<prog, phase, vars>>

(* Mutant: a block that anything is live out of asks for another sweep. *)
VisitBlockRestless ==
    LET out == UNION {live_in[s] : s \in Successors(prog[block])}
        in == Gen(prog[block]) \cup (out \ Kill(prog[block]))
    IN  /\ phase = "liveness" /\ block > 0
        /\ changed' = (changed \/ out # {})
        /\ live_out' = [live_out EXCEPT ![block] = out]
        /\ live_in' = [live_in EXCEPT ![block] = in]
        /\ block' = block - 1
        /\ UNCHANGED <<prog, phase, vars>>

(* One block of one backward sweep.  The sets only grow, so the code may *)
(* compare sizes instead of sets.                                        *)
VisitBlock ==
    LET out == UNION {live_in[s] : s \in Successors(prog[block])}
        in == Gen(prog[block]) \cup (out \ Kill(prog[block]))
    IN  /\ phase = "liveness" /\ block > 0
        /\ changed' = \/ changed
                      \/ Cardinality(out) # Cardinality(live_out[block])
                      \/ Cardinality(in) # Cardinality(live_in[block])
        /\ live_out' = [live_out EXCEPT ![block] = out]
        /\ live_in' = [live_in EXCEPT ![block] = in]
        /\ block' = block - 1
        /\ UNCHANGED <<prog, phase, vars>>

(* A sweep that changed something is followed by another. *)
NextSweep ==
    /\ phase = "liveness" /\ block = 0
    /\ IF changed
       THEN block' = Len(prog) /\ changed' = FALSE /\ phase' = phase
       ELSE phase' = "intervals" /\ UNCHANGED <<block, changed>>
    /\ UNCHANGED <<prog, live_in, live_out, vars>>

(* Mutant: vregs no instruction names are scanned too. *)
BuildIntervalsOfAll ==
    /\ phase = "intervals"
    /\ phase' = "scan"
    /\ lo' = LoOf(prog, live_in, live_out)
    /\ hi' = HiOf(prog, live_in, live_out)
    /\ todo' = VReg
    /\ UNCHANGED <<prog, block, changed, live_in, live_out,
                   alloc, free_reg, active>>

(* The touch() loops, and the filling of `order`. *)
BuildIntervals ==
    /\ phase = "intervals"
    /\ phase' = "scan"
    /\ lo' = LoOf(prog, live_in, live_out)
    /\ hi' = HiOf(prog, live_in, live_out)
    /\ todo' = {v \in VReg : hi'[v] >= 0}
    /\ UNCHANGED <<prog, block, changed, live_in, live_out,
                   alloc, free_reg, active>>

ScanOne == phase = "scan" /\ (\E v \in VReg : Scan(v)) /\ UNCHANGED flow

Returned == phase = "scan" /\ Terminated /\ UNCHANGED flow

AllocNext == VisitBlock \/ NextSweep \/ BuildIntervals \/ ScanOne \/ Returned

allocVars == <<vars, flow>>

(* allocate() is one sequential call: it keeps taking steps. *)
AllocSpec == AllocInit /\ [][AllocNext]_allocVars /\ WF_allocVars(AllocNext)

AllocTypeOK ==
    /\ TypeOK
    /\ phase \in {"liveness", "intervals", "scan"}
    /\ block \in 0 .. Len(prog)
    /\ changed \in BOOLEAN
    /\ live_in \in [DOMAIN prog -> SUBSET VReg]
    /\ live_out \in [DOMAIN prog -> SUBSET VReg]

-----------------------------------------------------------------------------
(* The reference: which instruction can follow which, before which each     *)
(* vreg is live (read from there before it is written), and the intervals   *)
(* that follow from it.  One record per program.                            *)
Following(p, b) ==
    {<<i, i + 1>> : i \in BlockLo(p, b) + 1 .. BlockHi(p, b) - 1}
    \cup {<<BlockHi(p, b), BlockLo(p, s) + 1>> : s \in Successors(p[b])}

Flow(p) == UNION {Following(p, b) : b \in DOMAIN p}

ReadAhead(code, follow, v) ==
    LET within[k \in Nat] ==   \* read within k more instructions
            IF k = 0
            THEN {i \in DOMAIN code : v \in Uses(code[i])}
            ELSE LET nearer == within[k - 1]
                 IN  nearer \cup
                     {e[1] : e \in {f \in follow : /\ Def(code[f[1]]) # v
                                                   /\ f[2] \in nearer}}
    IN  within[Len(code)]

TrueLiveness(p) ==
    LET code == Code(p)
        follow == Flow(p)
        before == UNION {{v} \X ReadAhead(code, follow, v) : v \in VReg}
        after == {<<x[1][1], x[2][1]>> :
                    x \in {y \in before \X follow : y[1][2] = y[2][2]}}
        in == [b \in DOMAIN p |->
                  {v \in VReg : <<v, BlockLo(p, b) + 1>> \in before}]
        out == [b \in DOMAIN p |->
                   {v \in VReg : <<v, BlockHi(p, b)>> \in after}]
    IN  [after |-> after, in |-> in, out |-> out,
         lo |-> LoOf(p, in, out), hi |-> HiOf(p, in, out)]

Truth == [p \in Programs |-> TrueLiveness(p)]

(* The block sweep stops only at the liveness the instruction flow defines: *)
(* stopping one sweep early would lose a value carried around a loop.       *)
LivenessExact ==
    phase # "liveness" => live_in = Truth[prog].in /\ live_out = Truth[prog].out

SameHome(u, v) ==
    \/ reg[u] >= 0 /\ reg[u] = reg[v]
    \/ spill[u] >= 0 /\ spill[u] = spill[v]

(* The finished allocation never lets one instruction overwrite a home      *)
(* whose value is still wanted: not that of a vreg live after it, and not   *)
(* that of another operand it reads (its code computes into dst's register  *)
(* before it has read them all).                                            *)
NoLiveValueOverwritten ==
    phase = "scan" /\ todo = {} =>
        LET code == Code(prog)
            live == Truth[prog].after
        IN  \A i \in DOMAIN code : Def(code[i]) # VNONE =>
                \A v \in VReg \ {Def(code[i])} :
                    <<v, i>> \in live \/ v \in Uses(code[i])
                        => ~SameHome(v, Def(code[i]))

(* allocate() returns: the sweeps reach their fixpoint, every vreg is placed. *)
Returns == <>(phase = "scan" /\ todo = {})

(* What allocate() promises: a linear scan over the intervals that true     *)
(* liveness gives.                                                          *)
Promise == INSTANCE LinearScan
    WITH lo <- Truth[prog].lo,
         hi <- Truth[prog].hi,
         todo <- IF phase = "scan" THEN todo
                 ELSE {v \in VReg : Truth[prog].hi[v] >= 0}

ScansTrueIntervals == Promise!Spec
=============================================================================
