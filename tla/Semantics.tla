------------------------------- MODULE Semantics -------------------------------
(***************************************************************************)
(* What the interpreter of eval.cpp computes from the values of a node's   *)
(* operands.  It keeps its own copy of the arithmetic of ir.cpp.           *)
(***************************************************************************)
EXTENDS IR

(* Interp::arith *)
Arith(op, a, b, t) ==
    IF op \in {"SDiv", "SRem"}
    THEN IF b = 0 THEN 0
         ELSE IF a = MinWord /\ b = -1
         THEN IF op = "SDiv" THEN Trunc(a, t) ELSE 0
         ELSE Trunc(IF op = "SDiv" THEN Quotient(a, b) ELSE Remainder(a, b), t)
    ELSE Trunc(Calc(op, a, b), t)

(* Interp::eval on a node whose operands have the values v.  A Cond has its *)
(* predicate and then its arms for operands.                                *)
Apply(op, t, v) ==
    CASE op \in BinOps -> Arith(op, v[1], v[2], t)
      [] op \in CmpOps -> IF Holds(op, v[1], v[2]) THEN 1 ELSE 0
      [] op = "Neg" -> Trunc(Wrap(0 - v[1], Word), t)
      [] op = "Not" -> Trunc(-v[1] - 1, t)
      [] op = "Select" -> IF v[1] # 0 THEN v[2] ELSE v[3]
      [] op = "Cond" /\ Len(v) = 3 -> IF v[1] # 0 THEN v[3] ELSE v[2]
      [] op = "Cond" /\ Len(v) # 3 -> IF v[1] \in 0 .. Len(v) - 2 THEN v[v[1] + 2] ELSE 0
================================================================================
