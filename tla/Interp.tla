-------------------------------- MODULE Interp --------------------------------
(***************************************************************************)
(* The interpreter of eval.cpp, the reference every other engine of the    *)
(* compiler is held to.  It is demand driven: a node is evaluated when a   *)
(* node that uses it is, and what has been computed in a frame is kept     *)
(* until a loop of that frame begins a round.                              *)
(*                                                                         *)
(* A state s of the evaluation is a record of                              *)
(*   v                      the value the last node evaluated to,          *)
(*   bind, memo, loop_multi the frame of the function being evaluated,     *)
(*   mem                    the words of memory by address,                *)
(*   fuel, depth, out_of_fuel, and                                         *)
(*   fault                  whether an address outside it was accessed.    *)
(***************************************************************************)
EXTENDS Semantics, SequencesExt

CONSTANT MaxDepth   \* Interp::kMaxDepth, nesting of eval()

Bound(f, keys, vals) ==
    [x \in DOMAIN f \cup Range(keys) |->
        IF x \in Range(keys) THEN vals[CHOOSE k \in DOMAIN keys : keys[k] = x]
        ELSE f[x]]

With(f, x, y) == Bound(f, <<x>>, <<y>>)

NoFrame == [bind |-> <<>>, memo |-> <<>>, loop_multi |-> <<>>]

Begin(mem, fuel) ==
    [v |-> 0, bind |-> <<>>, memo |-> <<>>, loop_multi |-> <<>>,
     mem |-> mem, fuel |-> fuel, depth |-> 0, out_of_fuel |-> FALSE,
     fault |-> FALSE]

GiveUp(s) == [s EXCEPT !.v = 0, !.out_of_fuel = TRUE]

(* The process has been killed: nothing more is evaluated. *)
Fault(s) == [GiveUp(s) EXCEPT !.fault = TRUE]

Spend(s) ==
    IF s.fuel > 0 THEN [s EXCEPT !.fuel = @ - 1]
    ELSE [GiveUp(s) EXCEPT !.fuel = @ - 1]

(* Mutant: loads and stores run again whenever they are asked for. *)
MemoizablePure(n) ==
    n.state_in = NONE /\ n.op \in BinOps \cup CmpOps \cup {"Neg", "Not", "Select"}

Memoizable(n) ==
    \/ n.op \in {"Load", "Store"}
    \/ n.state_in = NONE /\ n.op \in BinOps \cup CmpOps \cup {"Neg", "Not", "Select"}

(* A round of a loop begins: the carried values are bound, and what was     *)
(* computed is forgotten, but for the loops that had run before this one.   *)
StartRound(s, params, cur, keep) ==
    [s EXCEPT !.bind = Bound(@, params, cur),
              !.memo = <<>>,
              !.loop_multi = Restrict(@, keep \cap DOMAIN @)]

(* Back to the caller's frame. *)
Leave(s, frame) ==
    [s EXCEPT !.bind = frame.bind, !.memo = frame.memo,
              !.loop_multi = frame.loop_multi]

RECURSIVE Eval(_, _, _), EvalAll(_, _, _), Rounds(_, _, _, _, _, _)

(* The nodes ids in turn: [s, vs], the state after the last and the values. *)
EvalAll(u, s, ids) ==
    IF ids = <<>> THEN [s |-> s, vs |-> <<>>]
    ELSE LET first == Eval(u, s, Head(ids))
             rest == EvalAll(u, first, Tail(ids))
         IN  [rest EXCEPT !.vs = <<first.v>> \o @]

(* The rounds of loop l from the carried values cur, and its results. *)
Rounds(u, s, l, cur, keep, results) ==
    LET spent == Spend(s)
        test == Eval(u, StartRound(spent, l.params, cur, keep), l.is_break)
        next == EvalAll(u, test, l.next_vals)
    IN  IF spent.out_of_fuel THEN [s |-> spent, vs |-> <<>>]
        ELSE IF test.out_of_fuel THEN [s |-> test, vs |-> <<>>]
        ELSE IF test.v # 0 THEN EvalAll(u, test, results)
        ELSE IF next.s.out_of_fuel THEN [next EXCEPT !.vs = <<>>]
        ELSE Rounds(u, next.s, l, next.vs, keep, results)

EvalLoop(u, s, id, results) ==
    LET inits == EvalAll(u, s, u.nodes[id].ins)
    IN  IF inits.s.out_of_fuel THEN [inits EXCEPT !.vs = <<>>]
        ELSE Rounds(u, inits.s, u.loops[u.nodes[id].region], inits.vs,
                    DOMAIN inits.s.loop_multi, results)

OneResult(ran) ==
    IF ran.s.out_of_fuel THEN GiveUp(ran.s) ELSE [ran.s EXCEPT !.v = ran.vs[1]]

(* The k-th result of a loop that runs once and leaves all of them. *)
ResultAt(vals, k) == IF k + 1 \in DOMAIN vals THEN vals[k + 1] ELSE 0

KeepResults(ran, region, k) ==
    IF ran.s.out_of_fuel THEN GiveUp(ran.s)
    ELSE [ran.s EXCEPT !.loop_multi = With(@, region, ran.vs), !.v = ResultAt(ran.vs, k)]

EvalProj(u, s, region, k) ==
    IF region \in DOMAIN s.loop_multi
    THEN [s EXCEPT !.v = ResultAt(s.loop_multi[region], k)]
    ELSE KeepResults(EvalLoop(u, s, region, LoopInfo(u, region).break_vals), region, k)

(* The memory a function leaves is evaluated after its result. *)
EvalState(u, s, state) ==
    IF state = NONE THEN s ELSE [Eval(u, s, state) EXCEPT !.v = s.v]

(* run(): a function whose body was never finished is an error, not 0. *)
Run(u, s, func, args) ==
    LET fi == Info(u, func)
        spent == Spend(s)
        given == SubSeq(fi.params, 1, IF Len(args) < Len(fi.params)
                                      THEN Len(args) ELSE Len(fi.params))
        vals == [i \in DOMAIN given |-> Trunc(args[i], Type(u, given[i]))]
        frame == [Leave(spent, NoFrame) EXCEPT !.bind = Bound(<<>>, given, vals)]
    IN  IF spent.out_of_fuel THEN spent
        ELSE IF fi.result = NONE THEN GiveUp(spent)
        ELSE Leave(EvalState(u, Eval(u, frame, fi.result), fi.state_result), s)

EvalCall(u, s, n) ==
    LET args == EvalAll(u, s, n.ins)
    IN  IF args.s.out_of_fuel THEN GiveUp(args.s)
        ELSE Run(u, args.s, n.imm, args.vs)

(* Only the arm that is chosen is evaluated. *)
EvalChoice(u, s, pred, arms) ==
    LET p == Eval(u, s, pred)
        arm == IF Len(arms) = 2 THEN IF p.v # 0 THEN 2 ELSE 1 ELSE p.v + 1
    IN  IF arm \in DOMAIN arms THEN Eval(u, p, arms[arm]) ELSE [p EXCEPT !.v = 0]

(* What came before in memory is forced first.  The access itself is made   *)
(* even when that ran out of fuel, with zeros for operands.                 *)
MakeAccess(at, op) ==
    IF at.vs[1] \notin DOMAIN at.s.mem THEN Fault(at.s)
    ELSE IF op = "Load" THEN [at.s EXCEPT !.v = at.s.mem[at.vs[1]]]
    ELSE [at.s EXCEPT !.v = 0, !.mem[at.vs[1]] = at.vs[2]]

EvalAccess(u, s, n) ==
    LET before == IF n.state_in = NONE THEN s ELSE Eval(u, s, n.state_in)
    IN  MakeAccess(EvalAll(u, before, n.ins), n.op)

Compute(u, s, id) ==
    LET n == u.nodes[id]
        ins == EvalAll(u, s, n.ins)
    IN  CASE n.op \in BinOps \cup CmpOps \cup {"Neg", "Not"} ->
                [ins.s EXCEPT !.v = Apply(n.op, n.type, ins.vs)]
          [] n.op = "Select" -> EvalChoice(u, s, n.ins[1], <<n.ins[3], n.ins[2]>>)
          [] n.op = "Cond" -> EvalChoice(u, s, n.ins[1], u.conds[n.region])
          [] n.op = "Loop" -> OneResult(EvalLoop(u, s, id, <<LoopInfo(u, id).break_val>>))
          [] n.op = "Proj" -> EvalProj(u, s, n.ins[1], n.imm)
          [] n.op = "Call" -> EvalCall(u, s, n)
          [] n.op \in {"Load", "Store"} -> EvalAccess(u, s, n)
          [] OTHER -> [s EXCEPT !.v = 0]

(* The value r just computed is remembered, if it may be. *)
Memoize(r, n, id) ==
    IF r.out_of_fuel THEN GiveUp(r)
    ELSE IF Memoizable(n) THEN [r EXCEPT !.memo = With(@, id, r.v)]
    ELSE r

Eval(u, s, id) ==
    LET n == u.nodes[id]
    IN  IF s.out_of_fuel THEN [s EXCEPT !.v = 0]
        ELSE IF s.depth = MaxDepth THEN GiveUp(s)
        ELSE IF IsConst(u, id) THEN [s EXCEPT !.v = n.imm]
        ELSE IF n.op = "Param" THEN [s EXCEPT !.v = IF id \in DOMAIN s.bind THEN s.bind[id] ELSE 0]
        ELSE IF Memoizable(n) /\ id \in DOMAIN s.memo THEN [s EXCEPT !.v = s.memo[id]]
        ELSE [Memoize(Compute(u, [s EXCEPT !.depth = @ + 1], id), n, id)
                EXCEPT !.depth = s.depth]

(* eval_func() *)
EvalFunc(u, func, args, mem, fuel) == Run(u, Begin(mem, fuel), func, args)
=============================================================================
