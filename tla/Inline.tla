-------------------------------- MODULE Inline --------------------------------
(***************************************************************************)
(* The middle end of opt.cpp: the bodies of called functions are cloned    *)
(* into their callers through the smart constructors, and functions that   *)
(* are no longer reached are dropped.                                      *)
(*                                                                         *)
(* A state c of the Cloner is a record of                                  *)
(*   w, v     the world and the node the last call of clone() returned,    *)
(*   map      the nodes cloned so far, and what they became,               *)
(*   rec      rec_, how deep clone() is nested,                            *)
(*   deep     CloneTooDeep has been thrown.                                *)
(* depth is how many calls, one inside the other, may still be inlined.    *)
(***************************************************************************)
EXTENDS Interp

CONSTANT MaxClone   \* Cloner::kMaxRec, nesting of clone()

(* What a smart constructor answered with. *)
Made(c, r) == [c EXCEPT !.w = r.w, !.v = r.id]

(* Functions that use memory state are called, and so is a function whose  *)
(* body is not finished.                                                    *)
Pure(fi) == fi.result # NONE /\ fi.state_param = NONE /\ fi.state_result = NONE

RECURSIVE Clone(_, _, _), CloneAll(_, _, _)

(* The nodes vs in turn: [c, vs], the state after the last and the clones. *)
CloneAll(c, vs, depth) ==
    IF vs = <<>> \/ c.deep THEN [c |-> c, vs |-> <<>>]
    ELSE LET first == Clone(c, Head(vs), depth)
             rest == CloneAll(first, Tail(vs), depth)
         IN  [rest EXCEPT !.vs = <<first.v>> \o @]

CloneCond(c, v, n, depth) ==
    LET yields == CloneAll(c, c.w.conds[n.region], depth)
        pred == Clone(yields.c, n.ins[1], depth)
    IN  IF pred.deep THEN pred
        ELSE Made(pred, MakeCond(pred.w, pred.v, n.type, yields.vs))

(* Mutant: the first param of the loop is passed over. *)
FreshParamsFrom1(c, params) ==
    LET fresh(t, k) ==
            LET r == Param(t.c.w, Type(t.c.w, params[k + 1]), k)
            IN  [c |-> [Made(t.c, r) EXCEPT !.map = With(@, params[k + 1], r.id)],
                 vs |-> Append(t.vs, r.id)]
    IN  FoldLeft(fresh, [c |-> c, vs |-> <<>>], [k \in 1 .. Len(params) - 1 |-> k])

(* The clone of a loop has params of its own. *)
FreshParams(c, params) ==
    LET fresh(t, k) ==
            LET r == Param(t.c.w, Type(t.c.w, params[k]), k - 1)
            IN  [c |-> [Made(t.c, r) EXCEPT !.map = With(@, params[k], r.id)],
                 vs |-> Append(t.vs, r.id)]
    IN  FoldLeft(fresh, [c |-> c, vs |-> <<>>], [k \in DOMAIN params |-> k])

CloneLoop(c, v, n, depth) ==
    LET l == LoopInfo(c.w, v)
        inits == CloneAll(c, n.ins, depth)
        params == FreshParams(inits.c, l.params)
        test == Clone(params.c, l.is_break, depth)
        nexts == CloneAll(test, l.next_vals, depth)
        breaks == CloneAll(nexts.c, IF l.break_vals # <<>> THEN l.break_vals
                                    ELSE <<l.break_val>>, depth)
        w == breaks.c.w
    IN  IF breaks.c.deep THEN breaks.c
        ELSE Made(breaks.c,
                  IF l.break_vals # <<>>
                  THEN MakeLoopMulti(w, inits.vs, params.vs, test.v, breaks.vs, nexts.vs)
                  ELSE MakeLoop(w, inits.vs, n.type, params.vs, test.v, breaks.vs[1], nexts.vs))

(* Mutant: the callee's body is cloned with what the caller's nodes became. *)
InlineBodySharing(c, fi, args, depth) ==
    Clone([c EXCEPT !.map = Bound(@, SubSeq(fi.params, 1, Len(args)), args)],
          fi.result, depth - 1)

(* A callee's body with its params standing for the arguments. *)
InlineBody(c, fi, args, depth) ==
    LET given == SubSeq(fi.params, 1, Len(args))
        body == Clone([c EXCEPT !.map = Bound(<<>>, given, args)], fi.result, depth - 1)
    IN  [body EXCEPT !.map = c.map]

CloneCall(c, n, depth) ==
    LET args == CloneAll(c, n.ins, depth)
        fi == Info(c.w, n.imm)
    IN  IF args.c.deep THEN args.c
        ELSE IF depth > 0 /\ Pure(fi) THEN InlineBody(args.c, fi, args.vs, depth)
        ELSE Made(args.c, Call(args.c.w, n.imm, args.vs, NONE))

(* Loads are not cloned: they stay the nodes they are. *)
Cloned(c, v, depth) ==
    LET n == c.w.nodes[v]
        ins == CloneAll(c, n.ins, depth)
        w == ins.c.w
        Via(r) == IF ins.c.deep THEN ins.c ELSE Made(ins.c, r)
    IN  CASE n.op \in BinOps -> Via(Binop(w, n.op, ins.vs[1], ins.vs[2]))
          [] n.op \in CmpOps -> Via(Cmp(w, n.op, ins.vs[1], ins.vs[2]))
          [] n.op = "Neg" -> Via(Neg(w, ins.vs[1]))
          [] n.op = "Not" -> Via(BitNot(w, ins.vs[1]))
          [] n.op = "Select" -> Via(Select(w, ins.vs[1], ins.vs[2], ins.vs[3]))
          [] n.op = "Proj" -> Via(Proj(w, ins.vs[1], n.imm, n.type))
          [] n.op = "Cond" -> CloneCond(c, v, n, depth)
          [] n.op = "Loop" -> CloneLoop(c, v, n, depth)
          [] n.op = "Call" -> CloneCall(c, n, depth)
          [] OTHER -> [c EXCEPT !.v = v]

(* v has been cloned: its clone is remembered. *)
Remember(c, v) ==
    IF c.deep THEN c ELSE [c EXCEPT !.map = With(@, v, c.v), !.rec = @ - 1]

Clone(c, v, depth) ==
    IF c.deep THEN c
    ELSE IF v \in DOMAIN c.map THEN [c EXCEPT !.v = c.map[v]]
    ELSE IF c.rec >= MaxClone THEN [c EXCEPT !.deep = TRUE]
    ELSE Remember(Cloned([c EXCEPT !.rec = @ + 1], v, depth), v)

NewCloner(w, map) == [w |-> w, v |-> NONE, map |-> map, rec |-> 0, deep |-> FALSE]

(* Mutant: what was cloned before the clone grew too deep becomes the body. *)
InlineIntoHalf(w, func, depth) ==
    LET fi == Info(w, func)
        c == Clone(NewCloner(w, [p \in Range(fi.params) |-> p]), fi.result, depth)
    IN  [c.w EXCEPT !.funcs[c.w.nodes[func].region].result = c.v]

SetResult(w, func, v) == [w EXCEPT !.funcs[w.nodes[func].region].result = v]

NewBody(c, func) == IF c.deep THEN c.w ELSE SetResult(c.w, func, c.v)

(* A function's body with the calls it makes inlined.  If the clone is too  *)
(* deep the function stays as it is, and the nodes made are left behind.    *)
InlineInto(w, func, depth) ==
    LET fi == Info(w, func)
        c == NewCloner(w, [p \in Range(fi.params) |-> p])
    IN  IF fi.result = NONE THEN w
        ELSE NewBody(Clone(c, fi.result, depth), func)

OptimizeFunc(w, func, depth) ==
    IF Pure(Info(w, func)) THEN InlineInto(w, func, depth) ELSE w

OptimizeModule(w, depth) ==
    FoldLeft(LAMBDA u, f : OptimizeFunc(u, f, depth), w, w.module_funcs)

-----------------------------------------------------------------------------
(* Functions reached through calls. *)

(* Mutant: the walk of a body does not enter the arms of conditionals. *)
RefsNoArms(w, v) ==
    LET n == w.nodes[v]
        l == LoopInfo(w, v)
    IN  (Range(n.ins) \cup {n.state_in}
         \cup IF n.op = "Loop" THEN Range(l.params) \cup {l.is_break, l.break_val}
                                    \cup Range(l.next_vals)
              ELSE {}) \ {NONE}

(* The walk does not enter the results of a loop that has several. *)
Refs(w, v) ==
    LET n == w.nodes[v]
        l == LoopInfo(w, v)
    IN  (Range(n.ins) \cup {n.state_in}
         \cup CASE n.op = "Cond" -> Range(w.conds[n.region])
                [] n.op = "Loop" -> Range(l.params) \cup {l.is_break, l.break_val}
                                    \cup Range(l.next_vals)
                [] OTHER -> {}) \ {NONE}

RECURSIVE Walk(_, _, _), Reach(_, _, _)

Walk(w, seen, todo) ==
    LET next == UNION {Refs(w, v) : v \in todo} \ seen
    IN  IF todo = {} THEN seen ELSE Walk(w, seen \cup next, next)

Callees(w, f) ==
    LET roots == {Info(w, f).result, Info(w, f).state_result} \ {NONE}
    IN  IF Info(w, f).result = NONE THEN {}
        ELSE {Imm(w, v) : v \in {x \in Walk(w, roots, roots) : Op(w, x) = "Call"}}

Reach(w, seen, todo) ==
    LET next == UNION {Callees(w, f) : f \in todo} \ seen
    IN  IF todo = {} THEN seen ELSE Reach(w, seen \cup next, next)

ReachableFunctions(w, roots) == Reach(w, roots, roots)
===============================================================================
