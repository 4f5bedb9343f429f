----------------------------- MODULE MCAllocate -----------------------------
(* Allocate over small VFuncs of the shapes the Lowerer emits: a straight   *)
(* line, the diamond of a Cond and the head, body and exit of a Loop.       *)
EXTENDS Allocate

MovImm(d) == [op |-> "MovImm", dst |-> d]
Mov(d, x) == [op |-> "Mov", dst |-> d, a |-> x]
Add(d, x, y) == [op |-> "Add", dst |-> d, a |-> x, b |-> y]
Store(x, y) == [op |-> "Store", a |-> x, b |-> y]
Sel(d, x, y, z) == [op |-> "Sel", dst |-> d, a |-> x, b |-> y, c |-> z]
Call(d, xs) == [op |-> "Call", dst |-> d, args |-> xs]
Jmp(t) == [op |-> "Jmp", target |-> t]
Br(x, t, e) == [op |-> "Br", a |-> x, target |-> t, target2 |-> e]
Ret(x) == [op |-> "Ret", a |-> x]

(* Entry: the arguments and constants the rest may read. *)
Prologue == <<MovImm(0), MovImm(1)>>

Inner == {Mov(2, 0), Mov(1, 0), Add(2, 0, 1), Add(0, 2, 1), Mov(0, 2),
          Add(1, 1, 0), Store(0, 1), Call(3, <<1, 2>>), Sel(3, 0, 1, 2)}

Straight ==
    {<<Prologue \o <<x, y, Ret(r)>>>> : x, y \in Inner, r \in VReg}

Diamond ==
    {<<Prologue \o <<MovImm(2), Br(c, 2, 3)>>, <<x, Jmp(4)>>, <<y, Jmp(4)>>,
       <<Ret(r)>>>> : x, y \in Inner, c \in 0 .. 1, r \in VReg}

LoopShape ==
    {<<Prologue \o <<MovImm(2), Jmp(2)>>, <<x, Br(c, 4, 3)>>,
       <<y, MovImm(3), Jmp(2)>>,
       <<Ret(r)>>>> : x, y \in Inner, c \in 0 .. 1, r \in VReg}

(* Nothing is read that some path leaves unwritten: no block reads, before  *)
(* it writes it, a vreg that is not written by the entry block.             *)
WellFormed(p) ==
    \A b \in DOMAIN p : \A v \in Gen(p[b]) :
        b # 1 /\ (v \in Kill(p[1]) \/ (Len(p) = 4 /\ b > 2 /\ v \in Kill(p[2])
                                        /\ b \in Successors(p[2])))

SmallPrograms == {p \in Straight \cup Diamond \cup LoopShape : WellFormed(p)}
=============================================================================
