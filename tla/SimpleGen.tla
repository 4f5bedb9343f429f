------------------------------- MODULE SimpleGen -------------------------------
(***************************************************************************)
(* FuncGen of backend.cpp, the simple code generator: every node has a     *)
(* stack slot, registers hold values only within the code of one node, and *)
(* code is emitted node by node along the placement of build_schedule().   *)
(*                                                                         *)
(* A state g of the generator is a record of                               *)
(*   a                       the assembler, with the call relocations,     *)
(*   slots, slot_count       node -> its slot's offset from rbp,           *)
(*   computed, multi, results   computed_, multi_emitted_ and              *)
(*                           loop_result_slots_,                           *)
(*   max_stack_args, failed  (a CompileError was thrown).                  *)
(* k = [u, sched] is the world and the schedule.                           *)
(***************************************************************************)
EXTENDS Lower, Machine

(* Mutant: slots are counted from 0, so the first is where rbp was saved. *)
WithSlotFrom0(g, v) ==
    IF v \in DOMAIN g.slots THEN g
    ELSE [g EXCEPT !.slots = With(@, v, -8 * g.slot_count), !.slot_count = @ + 1]

(* slot(): a node's slot is found on first use. *)
WithSlot(g, v) ==
    IF v \in DOMAIN g.slots THEN g
    ELSE [g EXCEPT !.slots = With(@, v, -8 * (g.slot_count + 1)), !.slot_count = @ + 1]

AnonSlots(g, n) == [g EXCEPT !.slot_count = @ + n]

LoadSlot(g, r, v) ==
    LET s == WithSlot(g, v) IN [s EXCEPT !.a = LoadRbp(@, r, s.slots[v])]

StoreSlot(g, v, r) ==
    LET s == WithSlot(g, v) IN [s EXCEPT !.a = StoreRbp(@, s.slots[v], r)]

CopySlot(g, dst, src) == StoreSlot(LoadSlot(g, "RAX", src), dst, "RAX")

(* A node's value from the slot at disp. *)
FromDisp(g, v, disp) == StoreSlot([g EXCEPT !.a = LoadRbp(@, "RAX", disp)], v, "RAX")

Sharpen(g, r, t) == [g EXCEPT !.a = IF t = "narrow" THEN MovSX(@, r) ELSE @]

(* The result of node v is in r. *)
Finish(g, v, r, t) == StoreSlot(Sharpen(g, r, t), v, r)

Computed(g, v) == [g EXCEPT !.computed = @ \cup {v}]

RECURSIVE EmitValue(_, _, _), EmitAll(_, _, _)

EmitAll(k, g, vs) ==
    IF vs = <<>> THEN g ELSE EmitAll(k, EmitValue(k, g, Head(vs)), Tail(vs))

(* The operands of a node are computed, then loaded into regs. *)
Operate(k, g, ins, regs) ==
    LET in(s, i) == LoadSlot(s, regs[i], ins[i])
    IN  FoldLeft(in, EmitAll(k, g, ins), [i \in DOMAIN ins |-> i])

EmitBinary(k, g, v, n) ==
    LET ops == Operate(k, g, n.ins, <<"RAX", "RCX">>)
        done == IF n.op \in {"Shl", "AShr", "LShr"} THEN Unary(ops.a, n.op, "RAX")
                ELSE Alu(ops.a, n.op, "RAX", "RCX")
    IN  Finish([ops EXCEPT !.a = done], v, "RAX", n.type)

EmitCompare(k, g, v, n) ==
    LET ops == Operate(k, g, n.ins, <<"RAX", "RCX">>)
    IN  StoreSlot([ops EXCEPT !.a = SetCC(Alu(@, "Cmp", "RAX", "RCX"), n.op)], v, "RAX")

EmitUnary(k, g, v, n) ==
    LET ops == Operate(k, g, n.ins, <<"RAX">>)
    IN  Finish([ops EXCEPT !.a = Unary(@, IF n.op = "Neg" THEN "neg" ELSE "not", "RAX")],
               v, "RAX", n.type)

Divide(g, v, n) ==
    LET idiv == Unary(Unary(g.a, "cqo", "RDX"), "idiv", "RCX")
        quot == IF n.op = "SDiv" THEN idiv ELSE MovRR(idiv, "RAX", "RDX")
    IN  Finish([g EXCEPT !.a = quot], v, "RAX", n.type)

(* Mutant: the divisor is not tested for zero. *)
EmitDivUnguarded(k, g, v, n) == Divide(Operate(k, g, n.ins, <<"RAX", "RCX">>), v, n)

(* To label l + 1 if RCX is zero, to l + 2 if RAX / RCX overflows.          *)
DivGuards(a, l) ==
    LET one == Alu(MovRI(JCC(TestRR(a, "RCX"), "CmpEq", l + 1), "RDX", -1), "Cmp", "RCX", "RDX")
        least == Alu(MovRI(JCC(one, "CmpNe", l + 3), "RDX", MinWord), "Cmp", "RAX", "RDX")
    IN  BindLabel(Jump(JCC(least, "CmpNe", l + 3), l + 2), l + 3)

(* Division by zero gives 0, the least number by -1 itself, remainder 0. *)
EmitDiv(k, g, v, n) ==
    LET case(s, at, label) == [s EXCEPT !.a = BindLabel(Jump(@, at + 4), at + label)]
        zero(s) == StoreSlot([s EXCEPT !.a = MovRI(@, "RAX", 0)], v, "RAX")
        over(s) == IF n.op = "SDiv" THEN Finish(s, v, "RAX", n.type) ELSE zero(s)
        end(s, at) == [s EXCEPT !.a = BindLabel(@, at + 4)]
        guarded(s, at) == Divide([s EXCEPT !.a = DivGuards(NewLabels(@, 4), at)], v, n)
        divide(s, at) == end(over(case(zero(case(guarded(s, at), at, 1)), at, 2)), at)
        here(s) == divide(s, Len(s.a.labels))
    IN  here(Operate(k, g, n.ins, <<"RAX", "RCX">>))

(* The condition chooses in registers; the result is not narrowed. *)
EmitSelect(k, g, v, n) ==
    LET all == EmitAll(k, g, n.ins)
        ops == LoadSlot(LoadSlot(LoadSlot(all, "RAX", n.ins[3]), "RCX", n.ins[2]), "RDX", n.ins[1])
    IN  StoreSlot([ops EXCEPT !.a = CMov(TestRR(@, "RDX"), "CmpNe", "RAX", "RCX")], v, "RAX")

(* What came before in memory is emitted first. *)
EmitAccess(k, g, v, n) ==
    LET before == IF n.state_in = NONE THEN g ELSE EmitValue(k, g, n.state_in)
        ops == Operate(k, before, n.ins, <<"RAX", "RCX">>)
    IN  IF n.op = "Store" THEN [ops EXCEPT !.a = MovToMem(@, "RAX", "RCX")]
        ELSE Finish([ops EXCEPT !.a = MovFromMem(@, "RAX", "RAX")], v, "RAX", n.type)

(* Both arms leave their value in the slot of the conditional. *)
EmitArms(k, g, v, home, yields, l) ==
    LET arm(s, part, yield) ==
            CopySlot(EmitValue(k, EmitAll(k, s, Post(k.sched, Append(home, <<v, part>>))), yield),
                     v, yield)
        test == [g EXCEPT !.a = JCC(TestRR(NewLabels(@, 2), "RAX"), "CmpEq", l + 1)]
        else(s) == [s EXCEPT !.a = BindLabel(Jump(@, l + 2), l + 1)]
        end(s) == [s EXCEPT !.a = BindLabel(@, l + 2)]
    IN  end(arm(else(arm(test, "arm1", yields[2])), "arm0", yields[1]))

EmitCond(k, g, v, n) ==
    LET yields == k.u.conds[n.region]
        arms(s) == EmitArms(k, s, v, k.sched.region[v], yields, Len(s.a.labels))
    IN  IF Len(yields) # 2 THEN [g EXCEPT !.failed = TRUE]
        ELSE arms(LoadSlot(EmitValue(k, g, n.ins[1]), "RAX", n.ins[1]))

(* Mutant: each param is written as soon as its next value is known. *)
CopyCarriedInPlace(k, g, li, first) ==
    LET copy(s, i) ==
            CopySlot(EmitValue(k, s, li.next_vals[i]), li.params[i], li.next_vals[i])
    IN  FoldLeft(copy, g, [i \in DOMAIN li.params |-> i])

(* All the next values are saved in the slots after first, then the params *)
(* are written.                                                            *)
CopyCarried(k, g, li, first) ==
    LET all == [i \in DOMAIN li.params |-> i]
        save(s, i) ==
            LET next == LoadSlot(EmitValue(k, s, li.next_vals[i]), "RAX", li.next_vals[i])
            IN  [next EXCEPT !.a = StoreRbp(@, -8 * (first + i), "RAX")]
        copy(s, i) == FromDisp(s, li.params[i], -8 * (first + i))
    IN  FoldLeft(copy, FoldLeft(save, g, all), all)

(* Each param has its initial value in its slot. *)
EmitInit(k, g, init, param) ==
    Computed(CopySlot(EmitValue(k, g, init), param, init), param)

(* The rounds: l + 1 is the label of the next, l + 2 of where they end. *)
EmitRounds(k, g, li, body, l, first) ==
    LET top == [g EXCEPT !.a = BindLabel(NewLabels(@, 2), l + 1)]
        leave(s) == [s EXCEPT !.a = JCC(TestRR(@, "RAX"), "CmpNe", l + 2)]
        test(s) == leave(LoadSlot(EmitValue(k, s, li.is_break), "RAX", li.is_break))
        end(s) == [s EXCEPT !.a = BindLabel(Jump(@, l + 1), l + 2)]
    IN  end(CopyCarried(k, EmitAll(k, test(EmitAll(k, top, Pre(k.sched, body))),
                                   Post(k.sched, body)),
                        li, first))

(* emit_loop_common(), up to where the loop is left. *)
EmitLoopCommon(k, g, v, n) ==
    LET li == LoopInfo(k.u, v)
        body == Append(k.sched.region[v], <<v, "body">>)
        init(s, i) == EmitInit(k, s, n.ins[i], li.params[i])
        rounds(s) == EmitRounds(k, AnonSlots(s, Len(li.params)), li, body,
                                Len(s.a.labels), s.slot_count)
    IN  rounds(FoldLeft(init, g, [i \in DOMAIN li.params |-> i]))

EmitLoop(k, g, v, n) ==
    LET val == LoopInfo(k.u, v).break_val
    IN  CopySlot(EmitValue(k, EmitLoopCommon(k, g, v, n), val), v, val)

KeepIn(g, at, disp) == [g |-> [g EXCEPT !.a = StoreRbp(@, disp, "RAX")], at |-> Append(at, disp)]

(* A loop of several results is emitted once; each has a slot of its own. *)
EmitLoopMulti(k, g, loop) ==
    LET left == EmitLoopCommon(k, [g EXCEPT !.multi = @ \cup {loop}], loop, k.u.nodes[loop])
        keep(val, at) == KeepIn(val, at, -8 * val.slot_count)
        result(r, b) == keep(AnonSlots(LoadSlot(EmitValue(k, r.g, b), "RAX", b), 1), r.at)
        known(all) == [all.g EXCEPT !.results = With(@, loop, all.at)]
    IN  IF loop \in g.multi THEN g
        ELSE known(FoldLeft(result, [g |-> left, at |-> <<>>], LoopInfo(k.u, loop).break_vals))

EmitResult(k, g, v, loop, i) ==
    LET result(all) == FromDisp(all, v, all.results[loop][i])
    IN  result(EmitLoopMulti(k, g, loop))

EmitCall(k, g, v, n) ==
    LET out(s) == [s EXCEPT !.max_stack_args = Max({@, Len(n.ins) - 4})]
        outgoing(s, i) == [s EXCEPT !.a = StoreRsp(@, OutDisp(i - 1), "RAX")]
        stack(s, i) == IF i <= 4 THEN s ELSE outgoing(LoadSlot(s, "RAX", n.ins[i]), i)
        inReg(s, i) == IF i > 4 THEN s ELSE LoadSlot(s, ArgRegs[i], n.ins[i])
        all == [i \in DOMAIN n.ins |-> i]
        here(s) == [at |-> Len(s.a.code) + 1, target |-> n.imm]
        open(s) == [MovRI(s.a, "RAX", 0) EXCEPT !.relocs = Append(@, here(s))]
        call(s) == [s EXCEPT !.a = Asm(open(s), Ins("call"))]
    IN  IF Len(n.ins) > 8 THEN [g EXCEPT !.failed = TRUE]
        ELSE StoreSlot(call(FoldLeft(inReg, FoldLeft(stack, out(EmitAll(k, g, n.ins)), all), all)),
                       v, "RAX")

Emitted(k, g, v) ==
    LET n == k.u.nodes[v]
    IN  CASE n.op \in ConstOps -> StoreSlot([g EXCEPT !.a = MovRI(@, "RAX", n.imm)], v, "RAX")
          [] n.op = "Param" -> g
          [] n.op \in {"SDiv", "SRem"} -> EmitDiv(k, g, v, n)
          [] n.op \in BinOps \ {"SDiv", "SRem"} -> EmitBinary(k, g, v, n)
          [] n.op \in CmpOps -> EmitCompare(k, g, v, n)
          [] n.op \in {"Neg", "Not"} -> EmitUnary(k, g, v, n)
          [] n.op = "Select" -> EmitSelect(k, g, v, n)
          [] n.op \in {"Load", "Store"} -> EmitAccess(k, g, v, n)
          [] n.op = "Cond" -> EmitCond(k, g, v, n)
          [] IsSingleLoop(k.u, v) -> EmitLoop(k, g, v, n)
          [] n.op \in {"Loop", "Proj"} ->
                EmitResult(k, g, v, IF n.op = "Loop" THEN v ELSE n.ins[1], n.imm + 1)
          [] n.op = "Call" -> EmitCall(k, g, v, n)
          [] OTHER -> [g EXCEPT !.failed = TRUE]

(* A node is emitted where it is first asked for. *)
EmitValue(k, g, v) ==
    IF g.failed \/ v \in g.computed THEN g ELSE Computed(Emitted(k, g, v), v)

EmitParam(u, g, i, param) ==
    LET src == IF i <= 4 THEN ArgRegs[i] ELSE "RAX"
        got == IF i <= 4 THEN g ELSE [g EXCEPT !.a = LoadRbp(@, "RAX", InDisp(i - 1))]
    IN  [Finish(got, param, src, Type(u, param)) EXCEPT !.computed = @ \cup {param}]

(* The frame's size is known last; the prologue is patched with it. *)
GenerateBody(k, fi) ==
    LET entry == SubRsp(Asm(Asm(EmptyAsm, Ins("push_rbp")), Ins("mov_rbp_rsp")), 0)
        start == [a |-> entry, slots |-> <<>>, slot_count |-> 0, computed |-> {}, multi |-> {},
                  results |-> <<>>, max_stack_args |-> 0, failed |-> FALSE]
        param(g, i) == EmitParam(k.u, g, i, fi.params[i])
        in == FoldLeft(param, start, [i \in DOMAIN fi.params |-> i])
        state == IF fi.state_result = NONE THEN <<>> ELSE <<fi.state_result>>
        leave(a) == Finalize(Asm(Asm(Asm(a, Ins("mov_rsp_rbp")), Ins("pop_rbp")), Ins("ret")))
        end(all) ==
            [code |-> [leave(all.a) EXCEPT ![3].n = FrameSize(all.slot_count, all.max_stack_args)],
             relocs |-> all.a.relocs, failed |-> all.failed \/ Len(fi.params) > 8]
    IN  end(LoadSlot(EmitAll(k, in, Post(k.sched, <<>>) \o <<fi.result>> \o state),
                     "RAX", fi.result))

GenerateFunc(u, func) ==
    GenerateBody([u |-> u, sched |-> BuildSchedule(u, func)], Info(u, func))
===============================================================================
