--------------------------------- MODULE Lower ---------------------------------
(***************************************************************************)
(* From the graph of a function to VCode: where build_schedule() puts      *)
(* every node, and the blocks of instructions the Lowerer of backend2.cpp  *)
(* emits along that placement.                                             *)
(*                                                                         *)
(* A region is written as the path to it, the sequence of the conditional  *)
(* arms and loop bodies that enclose it; the root is <<>>.  Blocks are     *)
(* numbered from 1, vregs from 0.                                          *)
(***************************************************************************)
EXTENDS Interp

CONSTANT ImmBits   \* bits of an immediate operand, 32 in the code

VNONE == -1

-----------------------------------------------------------------------------
(* The schedule. *)
Structure(u, id) ==
    LET n == u.nodes[id]
        l == LoopInfo(u, id)
    IN  CASE n.op = "Cond" -> u.conds[n.region]
          [] n.op = "Loop" -> l.params \o <<l.is_break, l.break_val>>
                              \o l.break_vals \o l.next_vals
          [] OTHER -> <<>>

Children(u, id) ==
    LET IsNode(c) == c # NONE
    IN  SelectSeq(Append(u.nodes[id].ins, u.nodes[id].state_in) \o Structure(u, id), IsNode)

RECURSIVE PostOrder(_, _, _)

(* The nodes below id, each after its children, appended to order. *)
PostOrder(u, order, id) ==
    LET visit(done, child) == PostOrder(u, done, child)
    IN  IF id = NONE \/ id \in Range(order) THEN order
        ELSE Append(FoldLeft(visit, order, Children(u, id)), id)

(* What node id wants where, when it stands in region r itself. *)
Demands(u, id, r) ==
    LET n == u.nodes[id]
        l == LoopInfo(u, id)
        want(ids, at) == [i \in DOMAIN ids |-> <<ids[i], at>>]
    IN  CASE n.op = "Cond" ->
                <<<<n.ins[1], r>>,
                  <<u.conds[n.region][1], Append(r, <<id, "arm0">>)>>,
                  <<u.conds[n.region][2], Append(r, <<id, "arm1">>)>>>>
          [] n.op = "Loop" ->
                want(n.ins, r)
                \o want(<<l.is_break, l.break_val>> \o l.break_vals \o l.next_vals,
                        Append(r, <<id, "body">>))
          [] OTHER -> want(Append(n.ins, n.state_in), r)

Meet(old, new) == LongestCommonPrefix({old, new})

(* A node moves up to where it also encloses the place of this demand. *)
Demand(u, region, d, r) ==
    IF d = NONE THEN region
    ELSE IF Op(u, d) = "Param" THEN region
    ELSE With(region, d, IF d \in DOMAIN region THEN Meet(region[d], r) ELSE r)

(* A node nothing demanded stays at the root. *)
PlaceNode(u, region, id) ==
    LET demand(placed, want) == Demand(u, placed, want[1], want[2])
    IN  IF id \in DOMAIN region
        THEN FoldLeft(demand, region, Demands(u, id, region[id]))
        ELSE FoldLeft(demand, With(region, id, <<>>), Demands(u, id, <<>>))

(* The regions of the nodes, in the order from users to operands. *)
Regions(u, roots, order) ==
    LET place(region, id) == PlaceNode(u, region, id)
        Placed(id) == Op(u, id) # "Param"
    IN  FoldLeft(place, [d \in roots |-> <<>>], Reverse(SelectSeq(order, Placed)))

(* The nodes of the loop's body region its test and break values rest on. *)
PreCone(u, region, id) ==
    LET l == LoopInfo(u, id)
        visit(done, d) == PostOrder(u, done, d)
        InBody(d) == d \in DOMAIN region /\ region[d] = Append(region[id], <<id, "body">>)
    IN  {d \in Range(FoldLeft(visit, <<>>, <<l.is_break, l.break_val>> \o l.break_vals)) :
            InBody(d)}

Schedule(u, order, region) ==
    [order |-> order, region |-> region,
     is_pre |-> UNION {PreCone(u, region, id) : id \in {d \in Range(order) : Op(u, d) = "Loop"}}]

Placement(u, roots, order) == Schedule(u, order, Regions(u, roots, order))

BuildSchedule(u, func) ==
    LET fi == Info(u, func)
    IN  Placement(u, {fi.result, fi.state_result} \ {NONE},
                  PostOrder(u, PostOrder(u, <<>>, fi.result), fi.state_result))

(* The buckets of region r. *)
Pre(sched, r) ==
    LET In(d) == d \in sched.is_pre /\ sched.region[d] = r
    IN  SelectSeq(sched.order, In)

Post(sched, r) ==
    LET In(d) == d \in DOMAIN sched.region \ sched.is_pre /\ sched.region[d] = r
    IN  SelectSeq(sched.order, In)

-----------------------------------------------------------------------------
(* Emitting.  A state s of the Lowerer is a record of                       *)
(*   code, cur       the blocks, and the one being emitted into,            *)
(*   cache, params, loop_results   as in the code,                          *)
(*   nvregs, v       the vregs handed out, and the one last returned,       *)
(*   failed          a CompileError was thrown.                             *)
MInst(op) ==
    [op |-> op, dst |-> VNONE, a |-> VNONE, b |-> VNONE, c |-> VNONE, args |-> <<>>,
     imm |-> 0, b_imm |-> FALSE, cc |-> "CmpEq", type |-> "word",
     target |-> 0, target2 |-> 0]

CompileError(s) == [s EXCEPT !.failed = TRUE]

NewVReg(s) == [s EXCEPT !.nvregs = @ + 1, !.v = s.nvregs]
NewBlocks(s, n) == [s EXCEPT !.code = @ \o [i \in 1 .. n |-> <<>>]]
SetBlock(s, b) == [s EXCEPT !.cur = b]
Emit(s, in) == [s EXCEPT !.code[s.cur] = Append(@, in)]
Jmp(s, b) == Emit(s, [MInst("Jmp") EXCEPT !.target = b])
Mov(s, dst, src, t) == Emit(s, [MInst("Mov") EXCEPT !.dst = dst, !.a = src, !.type = t])

MOp == [Add |-> "Add", Sub |-> "Sub", Mul |-> "Mul", SDiv |-> "Div", SRem |-> "Rem",
        And |-> "And", Or |-> "Or", Xor |-> "Xor", Shl |-> "Shl", AShr |-> "Sar",
        LShr |-> "Shr"]

(* Mutant: the relation stays as it is when the operands change sides. *)
SwapNothing(cc) == cc

(* The relation when the operands have changed sides. *)
SwapCc(cc) ==
    CASE cc = "CmpLt" -> "CmpGt" [] cc = "CmpGt" -> "CmpLt"
      [] cc = "CmpLe" -> "CmpGe" [] cc = "CmpGe" -> "CmpLe"
      [] OTHER -> cc

AsImm(u, id) ==
    IsConst(u, id) /\ Imm(u, id) \in -(2 ^ (ImmBits - 1)) .. 2 ^ (ImmBits - 1) - 1

RECURSIVE LowerNode(_, _, _)

(* The nodes ids in turn: [s, vs], where vs are their vregs. *)
And(s, vs) == [s |-> s, vs |-> Append(vs, s.v)]

LowerAll(k, s, ids) ==
    FoldLeft(LAMBDA all, id : And(LowerNode(k, all.s, id), all.vs), [s |-> s, vs |-> <<>>], ids)

LowerRegion(k, s, nodes) == LowerAll(k, s, nodes).s

(* A constant operand becomes an immediate if it fits: the right one, or    *)
(* the left one where the operands may change sides.  Division takes none.  *)
LowerBinary(k, s, n) ==
    LET imm_right == n.op \notin {"SDiv", "SRem"} /\ AsImm(k.u, n.ins[2])
        imm_left == ~imm_right /\ AsImm(k.u, n.ins[1])
                    /\ n.op \in CmpOps \cup {"Add", "Mul", "And", "Or", "Xor"}
        r == NewVReg(s)
        ins == LowerAll(k, r, IF imm_right THEN <<n.ins[1]>>
                              ELSE IF imm_left THEN <<n.ins[2]>> ELSE n.ins)
        const == Imm(k.u, IF imm_right THEN n.ins[2] ELSE n.ins[1])
        base == IF n.op \in CmpOps
                THEN [MInst("SetCmp") EXCEPT !.cc = IF imm_left THEN SwapCc(n.op) ELSE n.op,
                                             !.type = "bool"]
                ELSE [MInst(MOp[n.op]) EXCEPT !.type = n.type]
        in == [base EXCEPT !.dst = r.v, !.a = ins.vs[1]]
    IN  [Emit(ins.s, IF imm_right \/ imm_left
                     THEN [in EXCEPT !.b_imm = TRUE, !.imm = const]
                     ELSE [in EXCEPT !.b = ins.vs[2]]) EXCEPT !.v = r.v]

LowerConst(k, s, n) ==
    LET r == NewVReg(s)
    IN  Emit(r, [MInst("MovImm") EXCEPT !.dst = r.v, !.imm = n.imm, !.type = n.type])

(* An instruction that reads its operands and then gets its result vreg. *)
LowerPlain(k, s, n, in) ==
    LET ins == LowerAll(k, s, n.ins)
        r == NewVReg(ins.s)
        vs == ins.vs
    IN  Emit(r, CASE n.op = "Select" -> [in EXCEPT !.dst = r.v, !.a = vs[2], !.b = vs[3], !.c = vs[1]]
                  [] n.op = "Call" -> [in EXCEPT !.dst = r.v, !.args = vs]
                  [] n.op = "Store" -> [in EXCEPT !.a = vs[1], !.b = vs[2]]
                  [] OTHER -> [in EXCEPT !.dst = r.v, !.a = vs[1]])

(* What came before in memory is lowered first. *)
LowerAccess(k, s, n) ==
    LowerPlain(k, IF n.state_in = NONE THEN s ELSE LowerNode(k, s, n.state_in), n,
               [MInst(n.op) EXCEPT !.type = n.type])

LowerCall(k, s, n) ==
    IF Len(n.ins) > 8 THEN CompileError(s)
    ELSE LowerPlain(k, s, n, [MInst("Call") EXCEPT !.imm = n.imm, !.type = n.type])

(* The three blocks of a conditional; both arms leave their value in r. *)
LowerCond(k, s, id) ==
    LET n == k.u.nodes[id]
        yields == k.u.conds[n.region]
        home == k.sched.region[id]
        pred == LowerNode(k, s, n.ins[1])
        tb == Len(pred.code) + 1
        eb == tb + 1
        jb == tb + 2
        br == Emit(NewBlocks(pred, 3),
                   [MInst("Br") EXCEPT !.a = pred.v, !.target = tb, !.target2 = eb])
        r == NewVReg(br)
        arm(t, b, part, yield) ==
            LET in == LowerRegion(k, SetBlock(t, b), Post(k.sched, Append(home, <<id, part>>)))
                val == LowerNode(k, in, yield)
            IN  Jmp(Mov(val, r.v, val.v, n.type), jb)
        then == arm(r, tb, "arm1", yields[2])
        else == arm(then, eb, "arm0", yields[1])
    IN  IF Len(yields) # 2 THEN CompileError(s)
        ELSE [SetBlock(else, jb) EXCEPT !.v = r.v]

(* Each carried value gets a register, which the params then stand for. *)
CarryOne(k, r, init, param, vs) ==
    And([Mov(r, r.v, init, Type(k.u, param)) EXCEPT !.params = With(@, param, r.v)], vs)

CarryInits(k, s, inits, params) ==
    LET carry(t, vs, param) == CarryOne(k, NewVReg(t), t.v, param, vs)
        init(t, i) == carry(LowerNode(k, t.s, inits[i]), t.vs, params[i])
    IN  FoldLeft(init, [s |-> s, vs |-> <<>>], [i \in DOMAIN inits |-> i])

(* Mutant: each carried register is written as soon as its value is known. *)
CopyInPlace(k, s, cv, nv, params) ==
    LET copy(t, i) == Mov(t, cv[i], nv[i], Type(k.u, params[i]))
    IN  FoldLeft(copy, s, [i \in DOMAIN cv |-> i])

(* All the next values are copied away before a carried register changes. *)
CopyRound(k, s, cv, nv, params) ==
    LET save(t, i) ==
            LET tmp == NewVReg(t.s)
            IN  [s |-> Mov(tmp, tmp.v, nv[i], Type(k.u, params[i])),
                 vs |-> Append(t.vs, tmp.v)]
        saved == FoldLeft(save, [s |-> s, vs |-> <<>>], [i \in DOMAIN cv |-> i])
        copy(t, i) == Mov(t, cv[i], saved.vs[i], Type(k.u, params[i]))
    IN  FoldLeft(copy, saved.s, [i \in DOMAIN cv |-> i])

(* The blocks of a loop, from block hb on: the header with the exit test,   *)
(* the body, the exit block, where the emission goes on, and the block      *)
(* after the loop.                                                          *)
LowerRounds(k, s, l, body, cv, hb) ==
    LET head == SetBlock(Jmp(NewBlocks(s, 4), hb), hb)
        branch(t) ==
            SetBlock(Emit(t, [MInst("Br") EXCEPT !.a = t.v, !.target = hb + 2,
                                                 !.target2 = hb + 1]), hb + 1)
        round(t) == LowerAll(k, LowerRegion(k, t, Post(k.sched, body)), l.next_vals)
        end(all) ==
            SetBlock([Jmp(CopyRound(k, all.s, cv, all.vs, l.params), hb) EXCEPT !.v = hb + 3],
                     hb + 2)
    IN  end(round(branch(LowerNode(k, LowerRegion(k, head, Pre(k.sched, body)), l.is_break))))

LowerLoopSkeleton(k, s, id) ==
    LET body == Append(k.sched.region[id], <<id, "body">>)
        l == LoopInfo(k.u, id)
        rounds(inits) == LowerRounds(k, inits.s, l, body, inits.vs, Len(inits.s.code) + 1)
    IN  rounds(CarryInits(k, s, k.u.nodes[id].ins, l.params))

(* The exit block leaves the results ids in registers of their own, of      *)
(* the types ts, and jumps to the block after: [s, vs].                      *)
LowerExit(k, skel, ids, ts) ==
    LET move(r, val, t) == Mov(val, r, val.v, t)
        result(all, i) ==
            LET r == NewVReg(all.s)
            IN  [s |-> move(r.v, LowerNode(k, r, ids[i]), ts[i]), vs |-> Append(all.vs, r.v)]
        results == FoldLeft(result, [s |-> skel, vs |-> <<>>], [i \in DOMAIN ids |-> i])
    IN  [results EXCEPT !.s = SetBlock(Jmp(@, skel.v), skel.v)]

LowerLoop(k, s, id) ==
    LET result(all) == [all.s EXCEPT !.v = all.vs[1]]
    IN  result(LowerExit(k, LowerLoopSkeleton(k, s, id), <<LoopInfo(k.u, id).break_val>>,
                         <<Type(k.u, id)>>))

(* A loop of several results is emitted once, whichever of them is wanted. *)
LowerLoopMulti(k, s, id) ==
    LET vals == LoopInfo(k.u, id).break_vals
        types == [i \in DOMAIN vals |-> Type(k.u, vals[i])]
        keep(all) == [all.s EXCEPT !.loop_results = With(@, id, all.vs)]
    IN  IF id \in DOMAIN s.loop_results THEN s
        ELSE keep(LowerExit(k, LowerLoopSkeleton(k, s, id), vals, types))

(* The vreg of a result of the loop. *)
LowerResult(k, s, loop, i) ==
    LET result(t) == [t EXCEPT !.v = t.loop_results[loop][i]]
    IN  result(LowerLoopMulti(k, s, loop))

IsSingleLoop(u, id) == Op(u, id) = "Loop" /\ LoopInfo(u, id).break_vals = <<>>

Lowered(k, s, id) ==
    LET n == k.u.nodes[id]
    IN  CASE n.op \in ConstOps -> LowerConst(k, s, n)
          [] n.op \in BinOps \cup CmpOps -> LowerBinary(k, s, n)
          [] n.op \in {"Neg", "Not", "Select"} ->
                LowerPlain(k, s, n, [MInst(IF n.op = "Select" THEN "Sel" ELSE n.op)
                                        EXCEPT !.type = n.type])
          [] n.op \in {"Load", "Store"} -> LowerAccess(k, s, n)
          [] n.op = "Call" -> LowerCall(k, s, n)
          [] n.op = "Cond" -> LowerCond(k, s, id)
          [] IsSingleLoop(k.u, id) -> LowerLoop(k, s, id)
          [] n.op \in {"Loop", "Proj"} ->
                LowerResult(k, s, IF n.op = "Loop" THEN id ELSE n.ins[1], n.imm + 1)
          [] OTHER -> CompileError(s)

Cached(s, id) == [s EXCEPT !.cache = With(@, id, s.v)]

(* A param nothing binds yields a register nothing has written. *)
LowerNode(k, s, id) ==
    IF s.failed THEN s
    ELSE IF Op(k.u, id) = "Param"
    THEN IF id \in DOMAIN s.params THEN [s EXCEPT !.v = s.params[id]] ELSE NewVReg(s)
    ELSE IF id \in DOMAIN s.cache THEN [s EXCEPT !.v = s.cache[id]]
    ELSE Cached(Lowered(k, s, id), id)

LowerParam(u, s, param) ==
    LET r == NewVReg(s)
    IN  [Emit(r, [MInst("MovArg") EXCEPT !.dst = r.v, !.imm = Imm(u, param),
                                         !.type = Type(u, param)])
            EXCEPT !.params = With(@, param, r.v)]

(* The memory the function leaves is lowered after its result. *)
LowerBody(k, fi) ==
    LET param(s, p) == LowerParam(k.u, s, p)
        start == [code |-> <<<<>>>>, cur |-> 1, cache |-> <<>>, params |-> <<>>,
                  loop_results |-> <<>>, nvregs |-> 0, v |-> VNONE, failed |-> FALSE]
        root == Post(k.sched, <<>>)
        state == IF fi.state_result = NONE THEN <<>> ELSE <<fi.state_result>>
        ret(all) == Emit(all.s, [MInst("Ret") EXCEPT !.a = all.vs[Len(root) + 1]])
        code(s) == [code |-> s.code, failed |-> s.failed \/ Len(fi.params) > 8]
    IN  code(ret(LowerAll(k, FoldLeft(param, start, fi.params),
                          root \o <<fi.result>> \o state)))

(* The blocks of a function: [code, failed]. *)
LowerFunc(u, func) ==
    LowerBody([u |-> u, sched |-> BuildSchedule(u, func)], Info(u, func))
=============================================================================
