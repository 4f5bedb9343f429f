---------------------------------- MODULE IR ----------------------------------
(***************************************************************************)
(* The graph of ir.cpp: the arena of nodes, the table that makes equal     *)
(* structure one node, and the smart constructors that fold, reorder and   *)
(* simplify what they are asked for before they look it up.                *)
(*                                                                         *)
(* A constructor is an operator from a world and its arguments to a record *)
(* [w, id]: the world after the call and the node returned.  Node ids are  *)
(* positions in the arena; NONE is 0.                                      *)
(***************************************************************************)
EXTENDS Words, Sequences, Functions

NONE == 0

BinOps == {"Add", "Sub", "Mul", "SDiv", "SRem", "And", "Or", "Xor",
           "Shl", "AShr", "LShr"}
CmpOps == {"CmpEq", "CmpNe", "CmpLt", "CmpLe", "CmpGt", "CmpGe"}
Commutative == {"Add", "Mul", "And", "Or", "Xor", "CmpEq", "CmpNe"}
ConstOps == {"ConstInt", "ConstBool"}
RegionOps == {"Func", "Cond", "Loop"}

(* A world: the arena, the ids the intern table holds, one table of parts  *)
(* per kind of region node, and the functions of the module.               *)
EmptyWorld == [nodes |-> <<>>, interned |-> {}, conds |-> <<>>,
               loops |-> <<>>, funcs |-> <<>>, module_funcs |-> <<>>]

Node(op, type, ins) ==
    [op |-> op, type |-> type, ins |-> ins,
     state_in |-> NONE, imm |-> 0, region |-> 0]

-----------------------------------------------------------------------------
(* Making nodes. *)
Fresh(w, n) ==
    [w |-> [w EXCEPT !.nodes = Append(@, n)], id |-> Len(w.nodes) + 1]

(* The region of a node takes no part in the comparison. *)
NodeEq(a, b) ==
    /\ a.op = b.op /\ a.type = b.type /\ a.imm = b.imm
    /\ a.state_in = b.state_in /\ a.ins = b.ins

Intern(w, n) ==
    LET known == {id \in w.interned : NodeEq(w.nodes[id], n)}
        made == Fresh(w, n)
    IN  IF known # {}
        THEN [w |-> w, id |-> CHOOSE id \in known : TRUE]
        ELSE [made EXCEPT !.w.interned = @ \cup {made.id}]

(* A constructor that answers with a node there already is. *)
Hit(w, id) == [w |-> w, id |-> id]

Op(w, id) == w.nodes[id].op
Type(w, id) == w.nodes[id].type
Imm(w, id) == w.nodes[id].imm
IsConst(w, id) == Op(w, id) \in ConstOps
ConstIs(w, id, k) == IsConst(w, id) /\ Imm(w, id) = k

(* Mutant: the value is stored as it came. *)
KonstUntruncated(w, v, t) ==
    Intern(w, [Node("ConstInt", t, <<>>) EXCEPT !.imm = v])

Konst(w, v, t) ==
    Intern(w, [Node("ConstInt", t, <<>>) EXCEPT !.imm = Trunc(v, t)])

KonstBool(w, b) ==
    Intern(w, [Node("ConstBool", "bool", <<>>) EXCEPT !.imm = IF b THEN 1 ELSE 0])

-----------------------------------------------------------------------------
(* Arithmetic.  The fold leaves division by zero alone. *)
FoldFails(op, b) == op \in {"SDiv", "SRem"} /\ b = 0

FoldBinop(op, a, b, t) ==
    IF a = MinWord /\ b = -1 /\ op \in {"SDiv", "SRem"}
    THEN IF op = "SDiv" THEN Trunc(a, t) ELSE 0
    ELSE CASE op = "SDiv" -> Trunc(Quotient(a, b), t)
           [] op = "SRem" -> Trunc(Remainder(a, b), t)
           [] OTHER -> Trunc(Calc(op, a, b), t)

(* Mutant: operands that are both unknown stay as they come. *)
SwapsConstOnly(w, op, a, b) ==
    op \in Commutative /\ IsConst(w, a) /\ ~IsConst(w, b)

(* Mutant: operands that are both unknown change places whatever their ids. *)
SwapsAlways(w, op, a, b) ==
    op \in Commutative /\ ~IsConst(w, b)

(* A constant goes to the right; of two unknowns the older goes left. *)
Swaps(w, op, a, b) ==
    /\ op \in Commutative
    /\ ~IsConst(w, b)
    /\ IsConst(w, a) \/ a > b

(* op of a and b is a itself. *)
KeepsFirst(w, op, a, b) ==
    \/ op \in {"Add", "Sub", "Or", "Xor", "Shl", "AShr", "LShr"} /\ ConstIs(w, b, 0)
    \/ op \in {"Mul", "SDiv"} /\ ConstIs(w, b, 1)
    \/ op \in {"And", "Or"} /\ a = b

GivesZero(w, op, a, b) ==
    \/ op \in {"Mul", "And"} /\ ConstIs(w, b, 0)
    \/ op \in {"Sub", "Xor"} /\ a = b

(* Mutant: the bit test alone, which the least number passes too. *)
LogOfAnySign(c) ==
    IF c = MinWord THEN {0} ELSE {k \in 1 .. Word - 1 : c = 2 ^ k}

(* The k for which multiplying by c is shifting by k; c > 1. *)
Log(c) == {k \in 1 .. Word - 1 : c = 2 ^ k}

(* binop(Shl, a, k) for an unknown a; it takes a's type as the result's. *)
ShiftBy(w, a, k) ==
    IF ConstIs(w, k, 0) THEN Hit(w, a)
    ELSE Intern(w, Node("Shl", Type(w, a), <<a, k>>))

(* The result has the type the first operand had before any swap. *)
Binop(w, op, first, second) ==
    LET t == Type(w, first)
        x == Imm(w, first)
        y == Imm(w, second)
        a == IF Swaps(w, op, first, second) THEN second ELSE first
        b == IF Swaps(w, op, first, second) THEN first ELSE second
        powers == IF op = "Mul" /\ IsConst(w, b) THEN Log(Imm(w, b)) ELSE {}
        count == Konst(w, CHOOSE k \in powers : TRUE, t)
    IN  IF IsConst(w, first) /\ IsConst(w, second) /\ ~FoldFails(op, y)
        THEN Konst(w, FoldBinop(op, x, y, t), t)
        ELSE IF KeepsFirst(w, op, a, b) THEN Hit(w, a)
        ELSE IF GivesZero(w, op, a, b) THEN Konst(w, 0, t)
        ELSE IF powers # {} THEN ShiftBy(count.w, a, count.id)
        ELSE Intern(w, Node(op, t, <<a, b>>))

Cmp(w, op, first, second) ==
    LET swap == op \in Commutative /\ first > second
        ins == IF swap THEN <<second, first>> ELSE <<first, second>>
    IN  IF IsConst(w, first) /\ IsConst(w, second)
        THEN KonstBool(w, Holds(op, Imm(w, first), Imm(w, second)))
        ELSE IF first = second
        THEN KonstBool(w, op \in {"CmpEq", "CmpLe", "CmpGe"})
        ELSE Intern(w, Node(op, "bool", ins))

Neg(w, a) ==
    IF IsConst(w, a)
    THEN Konst(w, Trunc(Wrap(0 - Imm(w, a), Word), Type(w, a)), Type(w, a))
    ELSE Intern(w, Node("Neg", Type(w, a), <<a>>))

BitNot(w, a) ==
    IF IsConst(w, a)
    THEN Konst(w, Trunc(-Imm(w, a) - 1, Type(w, a)), Type(w, a))
    ELSE Intern(w, Node("Not", Type(w, a), <<a>>))

Select(w, c, a, b) ==
    IF IsConst(w, c) THEN Hit(w, IF Imm(w, c) # 0 THEN a ELSE b)
    ELSE IF a = b THEN Hit(w, a)
    ELSE Intern(w, Node("Select", Type(w, a), <<c, a, b>>))

-----------------------------------------------------------------------------
(* Memory.  A load or store that is given a state is never shared. *)
Load(w, ptr, st, t) == Fresh(w, [Node("Load", t, <<ptr>>) EXCEPT !.state_in = st])

Store(w, ptr, val, st) ==
    Fresh(w, [Node("Store", "state", <<ptr, val>>) EXCEPT !.state_in = st])

(* Mutant: read-only loads are made anew, like loads of a state. *)
PureLoadFresh(w, ptr, t) == Fresh(w, Node("Load", t, <<ptr>>))

PureLoad(w, ptr, t) == Intern(w, Node("Load", t, <<ptr>>))

MemStart(w) == Intern(w, Node("ConstInt", "state", <<>>))

-----------------------------------------------------------------------------
(* Regions.  A region node's parts stand in a table, at index region. *)
Param(w, t, index) == Fresh(w, [Node("Param", t, <<>>) EXCEPT !.imm = index])

(* Mutant: the predicate's own type is not asked for. *)
YieldAnyTruth(w, p, t, yields, no, yes) ==
    /\ Len(yields) = 2
    /\ t = "bool"
    /\ ConstIs(w, yields[1], no) /\ ConstIs(w, yields[2], yes)

(* The arms yield no where p is false and yes where it is true. *)
YieldTruth(w, p, t, yields, no, yes) ==
    /\ Len(yields) = 2
    /\ t = "bool" /\ Type(w, p) = "bool"
    /\ ConstIs(w, yields[1], no) /\ ConstIs(w, yields[2], yes)

(* Mutant: conditionals go through the table like arithmetic. *)
NewCondShared(w, p, t, yields) ==
    Intern([w EXCEPT !.conds = Append(@, yields)],
           [Node("Cond", t, <<p>>) EXCEPT !.region = Len(w.conds) + 1])

NewCond(w, p, t, yields) ==
    Fresh([w EXCEPT !.conds = Append(@, yields)],
          [Node("Cond", t, <<p>>) EXCEPT !.region = Len(w.conds) + 1])

(* The arm a known predicate selects: by truth if there are two of them. *)
ArmOf(imm, yields) ==
    IF Len(yields) = 2 THEN IF imm # 0 THEN 2 ELSE 1 ELSE imm + 1

MakeCond(w, p, t, yields) ==
    LET false == KonstBool(w, FALSE)
    IN  IF IsConst(w, p) /\ ArmOf(Imm(w, p), yields) \in DOMAIN yields
        THEN Hit(w, yields[ArmOf(Imm(w, p), yields)])
        ELSE IF Len(yields) = 2 /\ yields[1] = yields[2] THEN Hit(w, yields[1])
        ELSE IF YieldTruth(w, p, t, yields, 0, 1) THEN Hit(w, p)
        ELSE IF YieldTruth(w, p, t, yields, 1, 0)
        THEN Cmp(false.w, "CmpEq", p, false.id)
        ELSE NewCond(w, p, t, yields)

(* A loop of one result has break_val, one of several has break_vals. *)
NewLoop(w, inits, t, params, is_break, break_val, break_vals, next_vals) ==
    Fresh([w EXCEPT !.loops = Append(@,
              [params |-> params, is_break |-> is_break, break_val |-> break_val,
               break_vals |-> break_vals, next_vals |-> next_vals])],
          [Node("Loop", t, inits) EXCEPT !.region = Len(w.loops) + 1])

LoopInfo(w, loop) == w.loops[w.nodes[loop].region]

MakeLoop(w, inits, t, params, is_break, break_val, next_vals) ==
    NewLoop(w, inits, t, params, is_break, break_val, <<>>, next_vals)

MakeLoopMulti(w, inits, params, is_break, break_vals, next_vals) ==
    NewLoop(w, inits, "void", params, is_break, NONE, break_vals, next_vals)

Proj(w, region, index, t) ==
    Intern(w, [Node("Proj", t, <<region>>) EXCEPT !.imm = index])

(* Functions. *)
NewParams(w, types) ==
    [w EXCEPT !.nodes = @ \o [i \in DOMAIN types |->
                                 [Node("Param", types[i], <<>>) EXCEPT !.imm = i - 1]]]

BeginFunc(w, param_types, result_type, has_state) ==
    LET types == IF has_state THEN Append(param_types, "state") ELSE param_types
        all == NewParams(w, types)
        info == [params |-> [i \in DOMAIN param_types |-> Len(w.nodes) + i],
                 state_param |-> IF has_state THEN Len(all.nodes) ELSE NONE,
                 result_type |-> result_type,
                 result |-> NONE, state_result |-> NONE]
    IN  Fresh([all EXCEPT !.funcs = Append(@, info)],
              [Node("Func", "func", <<>>) EXCEPT !.region = Len(w.funcs) + 1])

Info(w, func) == w.funcs[w.nodes[func].region]

EndFunc(w, func, result, state_result) ==
    LET info == [Info(w, func) EXCEPT !.result = result,
                                      !.state_result = state_result]
    IN  Hit([w EXCEPT !.funcs[w.nodes[func].region] = info], func)

Call(w, func, args, st) ==
    Fresh(w, [Node("Call", Info(w, func).result_type, args)
                 EXCEPT !.state_in = st, !.imm = func])

AddFunc(w, func) == Hit([w EXCEPT !.module_funcs = Append(@, func)], func)

KeepFuncs(w, keep) ==
    LET InKeep(f) == f \in keep
    IN  Hit([w EXCEPT !.module_funcs = SelectSeq(@, InKeep)], NONE)

-----------------------------------------------------------------------------
(* What holds of a World however it was built: the table knows every node   *)
(* that may be shared and holds none twice, and operands are older than the *)
(* nodes that use them.                                                     *)
Operands(n) == Range(n.ins) \cup ({n.state_in} \ {NONE})

Shared(n) ==
    \/ n.op \in ConstOps \cup BinOps \cup CmpOps \cup {"Neg", "Not", "Select", "Proj"}
    \/ n.op = "Load" /\ n.state_in = NONE

OperandsOlder(u) ==
    \A id \in DOMAIN u.nodes : Operands(u.nodes[id]) \subseteq 1 .. id - 1

(* The operands of a commutative node stand in canonical order. *)
InOrder(u, n) ==
    n.op \in Commutative =>
        /\ n.ins \in Seq(DOMAIN u.nodes) /\ Len(n.ins) = 2
        /\ IF n.op \in CmpOps
           THEN n.ins[1] < n.ins[2]
           ELSE /\ ~IsConst(u, n.ins[1])
                /\ IsConst(u, n.ins[2]) \/ n.ins[1] <= n.ins[2]

WellMade(u) ==
    /\ DOMAIN u = DOMAIN EmptyWorld
    /\ u.nodes \in Seq(Range(u.nodes))
    /\ u.interned \subseteq DOMAIN u.nodes
    /\ \A id \in DOMAIN u.nodes : Shared(u.nodes[id]) => id \in u.interned
    /\ \A i, j \in u.interned : NodeEq(u.nodes[i], u.nodes[j]) => i = j
    /\ OperandsOlder(u)
    /\ \A id \in DOMAIN u.nodes : InOrder(u, u.nodes[id])
=============================================================================
