--------------------------------- MODULE Front ---------------------------------
(***************************************************************************)
(* The parser of front.cpp, which builds the graph of a module while it    *)
(* reads the tokens: no syntax tree is kept, the value of every variable   *)
(* is the node bound to it in env, and what a loop will assign is found by *)
(* scanning the tokens of its body ahead.                                  *)
(*                                                                         *)
(* A state s of the parser is a record of                                  *)
(*   toks, p       the tokens, the last of them End, and the position,     *)
(*   w             the world being built,                                  *)
(*   env           the variables in scope and the memory token "$mem",     *)
(*   mutables, has_stores, funcs   as in the code,                         *)
(*   v, step       what the last call of parse_...() returned,             *)
(*   failed        err() was called; p is then at End, where nothing       *)
(*                 matches and every loop of the parser ends.              *)
(***************************************************************************)
EXTENDS Interp

CONSTANT ComptimeFuel   \* the fuel a compile-time call gets

Tok(kind) == [kind |-> kind, text |-> "", ival |-> 0]
Ident(name) == [kind |-> "Ident", text |-> name, ival |-> 0]
Number(n) == [kind |-> "Int", text |-> "", ival |-> n]

MEM == "$mem"

Kind(s) == s.toks[s.p].kind
Is(s, kind) == Kind(s) = kind
Adv(s) == [s EXCEPT !.p = @ + 1]
Err(s) == [s EXCEPT !.failed = TRUE, !.p = Len(s.toks), !.v = NONE]
Accept(s, kind) == IF Is(s, kind) THEN Adv(s) ELSE s
Expect(s, kind) == IF Is(s, kind) THEN Adv(s) ELSE Err(s)

(* The answer r of a constructor is the value parsed. *)
Put(s, r) == IF s.failed THEN s ELSE [s EXCEPT !.w = r.w, !.v = r.id]

Bind(s, name, v) == IF s.failed THEN s ELSE [s EXCEPT !.env = With(@, name, v)]

BindValue(s, name) == Bind(s, name, s.v)

(* What name stood for before, if anything, it stands for again. *)
Unbind(s, name, env) ==
    [s EXCEPT !.env = IF name \in DOMAIN env THEN With(@, name, env[name])
                      ELSE Restrict(@, DOMAIN @ \ {name})]

-----------------------------------------------------------------------------
(* Scanning ahead. *)
OfKind(toks, kind, from, to) == {q \in from .. to : toks[q].kind = kind}

Depth(toks, open, close, from, to) ==
    Cardinality(OfKind(toks, open, from, to)) - Cardinality(OfKind(toks, close, from, to))

(* Where the bracket that opens at q closes; 0 if it does not. *)
Match(toks, open, close, q) ==
    LET closed == {r \in q .. Len(toks) - 1 : Depth(toks, open, close, q, r) = 0}
    IN  IF closed = {} THEN 0 ELSE Min(closed)

(* IDENT [ ... ] = *)
StoreAt(toks, q) ==
    /\ toks[q].kind = "Ident" /\ q + 1 < Len(toks) /\ toks[q + 1].kind = "LBracket"
    /\ LET m == Match(toks, "LBracket", "RBracket", q + 1)
       IN  m # 0 /\ toks[m + 1].kind = "Assign"

AssignAt(toks, q) == toks[q].kind = "Ident" /\ toks[q + 1].kind = "Assign"

(* The names assigned in the block at brace, in the order they first are,   *)
(* but those that are declared anywhere in it.                              *)
ScanModified(toks, brace) ==
    LET end == Match(toks, "LBrace", "RBrace", brace)
        declared == {toks[q + 1].text : q \in {q \in brace .. end :
                        toks[q].kind \in {"KwVar", "KwLet"} /\ toks[q + 1].kind = "Ident"}}
        found == {q \in brace .. end : AssignAt(toks, q) /\ toks[q].text \notin declared}
        first == {q \in found : \A r \in found : toks[r].text = toks[q].text => q <= r}
    IN  [i \in 1 .. Cardinality(first) |-> toks[SetToSortSeq(first, <)[i]].text]

-----------------------------------------------------------------------------
(* Expressions. *)
Power == [OrOr |-> 1, AndAnd |-> 2, EqEq |-> 3, Ne |-> 3, Lt |-> 4, Le |-> 4,
          Gt |-> 4, Ge |-> 4, Pipe |-> 5, Caret |-> 6, Amp |-> 7, Shl |-> 8,
          Shr |-> 8, Plus |-> 9, Minus |-> 9, Star |-> 10, Slash |-> 10, Percent |-> 10]

Lbp(kind) == IF kind \in DOMAIN Power THEN Power[kind] ELSE 0

BinOf == [Plus |-> "Add", Minus |-> "Sub", Star |-> "Mul", Slash |-> "SDiv",
          Percent |-> "SRem", Amp |-> "And", AndAnd |-> "And", Pipe |-> "Or",
          OrOr |-> "Or", Caret |-> "Xor", Shl |-> "Shl", Shr |-> "AShr"]

CmpOf == [EqEq |-> "CmpEq", Ne |-> "CmpNe", Lt |-> "CmpLt", Le |-> "CmpLe",
          Gt |-> "CmpGt", Ge |-> "CmpGe"]

ApplyBin(w, tok, a, b) ==
    IF tok \in DOMAIN BinOf THEN Binop(w, BinOf[tok], a, b)
    ELSE Cmp(w, CmpOf[tok], a, b)

IsFalse(w, v) == LET f == KonstBool(w, FALSE) IN Cmp(f.w, "CmpEq", v, f.id)

Negated(s) == Put(s, Neg(s.w, s.v))
Inverted(s) == Put(s, IsFalse(s.w, s.v))

(* Truth values as they are, numbers compared with zero. *)
ToBool(s) ==
    LET zero == Konst(s.w, 0, Type(s.w, s.v))
    IN  Put(s, IF Type(s.w, s.v) = "bool" THEN Hit(s.w, s.v)
               ELSE Cmp(zero.w, "CmpNe", s.v, zero.id))

Scaled(idx, eight) == Binop(eight.w, "Mul", idx, eight.id)
Indexed(base, r) == Binop(r.w, "Add", base, r.id)

AddrOf(w, base, idx) ==
    Indexed(base, Scaled(idx, Konst(w, 8, "word")))

(* Mutant: a load does not join the chain of the accesses to memory. *)
ReadUnchained(s, addr) ==
    IF s.has_stores THEN Put(s, Load(addr.w, addr.id, s.env[MEM], "word"))
    ELSE Put(s, PureLoad(addr.w, addr.id, "word"))

(* Where the function stores, loads join the chain of accesses. *)
Read(s, addr) ==
    IF s.has_stores THEN BindValue(Put(s, Load(addr.w, addr.id, s.env[MEM], "word")), MEM)
    ELSE Put(s, PureLoad(addr.w, addr.id, "word"))

(* base[v] *)
ReadIndexed(s, base) == IF s.failed THEN s ELSE Read(s, AddrOf(s.w, base, s.v))

(* The rules that nest in one another: parse_expr(), parse_if(),            *)
(* parse_stmt_block(), parse_loop() and parse_step().                       *)
RECURSIVE Parse(_, _, _), Climb(_, _), ParseUnary(_), Index(_), ParseList(_, _),
          ParseInits(_, _, _), Stmts(_)

ParseExpr(s, min_bp) == Parse("expr", s, min_bp)
ParseIf(s) == Parse("if", s, 0)
ParseBlock(s) == Parse("block", s, 0)
ParseLoop(s) == Parse("loop", s, <<>>)
ParseStep(s, carried) == Parse("step", s, carried)

Climb(s, min_bp) ==
    LET bp == Lbp(Kind(s))
        apply(rhs) == Put(rhs, ApplyBin(rhs.w, Kind(s), s.v, rhs.v))
    IN  IF bp = 0 \/ bp < min_bp THEN s
        ELSE Climb(apply(ParseExpr(Adv(s), bp + 1)), min_bp)

Index(s) ==
    IF ~Is(s, "LBracket") THEN s
    ELSE Index(ReadIndexed(Expect(ParseExpr(Adv(s), 0), "RBracket"), s.v))

(* NAME = value ; after a keyword *)
NamedValue(s) == Expect(ParseExpr(Expect(Expect(Adv(s), "Ident"), "Assign"), 0), "Semi")
NameAt(s) == s.toks[s.p + 1].text

(* let NAME = value ; body *)
ParseLet(s) ==
    LET body(val) == ParseExpr(BindValue(val, NameAt(s)), 0)
        let(val) == Unbind(body(val), NameAt(s), val.env)
    IN  let(NamedValue(s))

(* Values set off by commas: s.step collects their nodes. *)
ParseList(s, vals) ==
    LET more(e) == IF Is(e, "Comma") THEN ParseList(Adv(e), Append(vals, e.v))
                   ELSE [e EXCEPT !.step = Append(vals, e.v)]
    IN  more(ParseExpr(s, 0))

(* A compile-time call of a function that has been read, on constants. *)
Foldable(s, h, args) ==
    /\ h.is_comptime /\ Info(s.w, h.node).result # NONE
    /\ \A i \in DOMAIN args : IsConst(s.w, args[i])

Answer(s, ran, t) == IF ran.out_of_fuel THEN Err(s) ELSE Put(s, Konst(s.w, ran.v, t))

Folded(s, h, args) ==
    LET imms == [i \in DOMAIN args |-> Imm(s.w, args[i])]
    IN  Answer(s, EvalFunc(s.w, h.node, imms, <<>>, ComptimeFuel), h.result_type)

(* The call of name with the arguments s.step. *)
MakeCall(s, name) ==
    LET h == s.funcs[name]
    IN  IF s.failed \/ name \notin DOMAIN s.funcs THEN Err(s)
        ELSE IF Len(s.step) # Len(h.param_types) THEN Err(s)
        ELSE IF Foldable(s, h, s.step) THEN Folded(s, h, s.step)
        ELSE Put(s, Call(s.w, h.node, s.step, NONE))

ParseCall(s, name) ==
    LET open == Expect(s, "LParen")
    IN  MakeCall(IF Is(open, "RParen") THEN [Adv(open) EXCEPT !.step = <<>>]
                 ELSE Expect(ParseList(open, <<>>), "RParen"), name)

ParsePrimary(s) ==
    LET tok == s.toks[s.p]
        next == Adv(s)
    IN  CASE tok.kind = "Int" -> Put(next, Konst(s.w, tok.ival, "word"))
          [] tok.kind = "KwTrue" -> Put(next, KonstBool(s.w, TRUE))
          [] tok.kind = "KwFalse" -> Put(next, KonstBool(s.w, FALSE))
          [] tok.kind = "LParen" -> Expect(ParseExpr(next, 0), "RParen")
          [] tok.kind = "KwLet" -> ParseLet(s)
          [] tok.kind = "KwIf" -> ParseIf(s)
          [] tok.kind = "KwLoop" -> ParseLoop(s)
          [] tok.kind = "Ident" ->
                IF Is(next, "LParen") THEN ParseCall(next, tok.text)
                ELSE IF tok.text \notin DOMAIN s.env THEN Err(s)
                ELSE [next EXCEPT !.v = s.env[tok.text]]
          [] OTHER -> Err(s)

ParseUnary(s) ==
    CASE Is(s, "Minus") -> Negated(ParseUnary(Adv(s)))
      [] Is(s, "Bang") -> Inverted(ParseUnary(Adv(s)))
      [] OTHER -> Index(ParsePrimary(s))

-----------------------------------------------------------------------------
(* Branches.  A variable that was in scope before the branch and stands for *)
(* different nodes after its arms becomes a conditional of the two.         *)
MergeOne(s, c, a, b, name) ==
    IF a[name] = b[name] THEN Bind(s, name, a[name])
    ELSE BindValue(Put(s, MakeCond(s.w, c, Type(s.w, a[name]), <<b[name], a[name]>>)), name)

(* Mutant: the memory token is not merged. *)
MergeValues(s, c, snap, a, b) ==
    LET merge(t, name) == MergeOne(t, c, a, b, name)
    IN  FoldLeft(merge, [s EXCEPT !.env = snap], SetToSeq(DOMAIN snap \ {MEM}))

Merge(s, c, snap, a, b) ==
    LET merge(t, name) == MergeOne(t, c, a, b, name)
    IN  FoldLeft(merge, [s EXCEPT !.env = snap], SetToSeq(DOMAIN snap))

(* After the arms of a branch on c: their values, if both have one, and the *)
(* variables become conditionals.                                           *)
EndIf(c, then, other) ==
    LET value(s) ==
            IF then.v = NONE \/ other.v = NONE THEN [s EXCEPT !.v = NONE]
            ELSE Put(s, MakeCond(s.w, c.v, Type(s.w, then.v), <<other.v, then.v>>))
    IN  IF other.failed THEN other ELSE value(Merge(other, c.v, c.env, then.env, other.env))

ParseElse(c, then) ==
    LET else == [then EXCEPT !.env = c.env, !.v = NONE]
    IN  EndIf(c, then, IF ~Is(then, "KwElse") THEN else
                       ELSE IF Is(Adv(then), "KwIf") THEN ParseIf(Adv(else))
                       ELSE ParseBlock(Adv(else)))

ParseThen(c) == ParseElse(c, ParseBlock(c))

-----------------------------------------------------------------------------
(* Loops.  The loop variables become params of the types of their initial   *)
(* values.                                                                  *)
Carry(s, names, inits) ==
    LET bind(t, name) == [BindValue(t, name) EXCEPT !.step = Append(@, t.v)]
        carry(t, k) ==
            bind(Put(t, Param(t.w, Type(t.w, inits[k]), k - 1)), names[k])
    IN  FoldLeft(carry, [s EXCEPT !.step = <<>>], [k \in DOMAIN names |-> k])

(* Mutant: the memory is not carried round the loop. *)
CarriedVariables(s, brace) ==
    LET InScope(name) == name \in DOMAIN s.env
    IN  SelectSeq(ScanModified(s.toks, brace), InScope)

Carried(s, brace) ==
    LET InScope(name) == name \in DOMAIN s.env
    IN  SelectSeq(ScanModified(s.toks, brace), InScope)
        \o (IF s.has_stores /\ MEM \in DOMAIN s.env THEN <<MEM>> ELSE <<>>)

(* After the loop a carried variable stands for its result; what the body   *)
(* declared is out of scope again.                                          *)
Publish(s, pre, names, loop, inits) ==
    LET publish(t, k) ==
            BindValue(Put(t, Proj(t.w, loop, k - 1, Type(t.w, inits[k]))), names[k])
    IN  FoldLeft(publish, [s EXCEPT !.env = pre], [k \in DOMAIN names |-> k])

(* The body of a loop on the condition s.v; pre is the state the carried    *)
(* variables names had the values inits in, which params stand for.         *)
EndWhile(pre, names, inits, params, is_break, body) ==
    LET nexts == [k \in DOMAIN names |-> body.env[names[k]]]
        publish(s) == [Publish(s, pre.env, names, s.v, inits) EXCEPT !.v = NONE]
    IN  IF body.failed THEN body
        ELSE publish(Put(body, MakeLoopMulti(body.w, inits, params, is_break, params, nexts)))

WhileBody(pre, names, inits, params, s) ==
    EndWhile(pre, names, inits, params, s.v, ParseBlock(s))

WhileCondition(pre, names, inits, s) ==
    WhileBody(pre, names, inits, s.step,
              Inverted(ToBool(ParseExpr([s EXCEPT !.p = pre.p], 0))))

WhileCarrying(pre, trial, names) ==
    LET inits == [k \in DOMAIN names |-> pre.env[names[k]]]
    IN  WhileCondition(pre, names, inits, Carry(trial, names, inits))

(* The condition is parsed twice: once to find the body, then again with    *)
(* the carried variables bound.                                             *)
AfterTrial(pre, trial) ==
    IF trial.failed THEN trial
    ELSE IF ~Is(trial, "LBrace") THEN Err(trial)
    ELSE WhileCarrying(pre, trial, Carried(trial, trial.p))

TryCondition(pre) == AfterTrial(pre, [ToBool(ParseExpr(pre, 0)) EXCEPT !.env = pre.env])

ParseWhile(s) == TryCondition(Expect(s, "KwWhile"))

(* loop ( NAME = init, ... ) *)
ParseInits(s, names, inits) ==
    LET step(e) == [names |-> Append(names, s.toks[s.p].text), inits |-> Append(inits, e.v)]
        more(e) == IF Is(e, "Comma") THEN ParseInits(Adv(e), step(e).names, step(e).inits)
                   ELSE [Expect(e, "RParen") EXCEPT !.step = step(e)]
    IN  more(ParseExpr(Expect(Expect(s, "Ident"), "Assign"), 0))

(* Only the loop's own variables are restored after its body. *)
EndLoop(head, params, body) ==
    LET restore(t, name) == Unbind(t, name, head.env)
        step == body.step
    IN  IF body.failed THEN body
        ELSE Put(FoldLeft(restore, body, head.step.names),
                 MakeLoop(body.w, head.step.inits, Type(body.w, step.break_val), params,
                          step.is_break, step.break_val, step.next_vals))

LoopBody(head, s) ==
    EndLoop(head, s.step, Expect(ParseStep(Expect(s, "LBrace"), s.step), "RBrace"))

AfterInits(head) ==
    IF head.failed THEN head
    ELSE LoopBody(head, Carry(head, head.step.names, head.step.inits))

(* The components of a step, in the order in which two steps are joined. *)
Components(step) == <<step.is_break, step.break_val>> \o step.next_vals

JoinOne(s, c, no, yes) ==
    LET join(t) == [t EXCEPT !.step = Append(@, t.v)]
    IN  join(Put(s, MakeCond(s.w, c, Type(s.w, yes), <<no, yes>>)))

(* Every component becomes a conditional on c. *)
JoinSteps(s, c, yes, no) ==
    LET join(t, k) == JoinOne(t, c, Components(no)[k], Components(yes)[k])
        joined(t) == [t EXCEPT !.step = [is_break |-> @[1], break_val |-> @[2],
                                         next_vals |-> SubSeq(@, 3, Len(@))]]
    IN  joined(FoldLeft(join, [s EXCEPT !.step = <<>>],
                        [k \in DOMAIN Components(yes) |-> k]))

StepBreak(s, carried) ==
    LET yes == Put(s, KonstBool(s.w, TRUE))
        step(val) == [val EXCEPT !.step = [is_break |-> yes.v, break_val |-> val.v,
                                           next_vals |-> carried]]
    IN  step(ParseExpr(Adv(yes), 0))

StepNext(s, carried) ==
    LET no == Put(s, KonstBool(s.w, FALSE))
        step(vals, zero) == [zero EXCEPT !.step = [is_break |-> no.v, break_val |-> zero.v,
                                                   next_vals |-> vals.step]]
        next(vals) == IF vals.failed \/ Len(vals.step) # Len(carried) THEN Err(vals)
                      ELSE step(vals, Put(vals, Konst(vals.w, 0, "word")))
    IN  next(ParseList(Adv(no), <<>>))

StepLet(s, carried) ==
    LET body(val) == ParseStep(BindValue(val, NameAt(s)), carried)
        let(val) == Unbind(body(val), NameAt(s), val.env)
    IN  let(NamedValue(s))

StepElse(c, yes, carried) ==
    LET join(no) == IF no.failed THEN no ELSE JoinSteps(no, c.v, yes.step, no.step)
    IN  join(Expect(ParseStep(Expect(Expect(yes, "KwElse"), "LBrace"), carried), "RBrace"))

StepThen(c, carried) ==
    StepElse(c, Expect(ParseStep(Expect(c, "LBrace"), carried), "RBrace"), carried)

StepIf(s, carried) == StepThen(ToBool(ParseExpr(Adv(s), 0)), carried)

-----------------------------------------------------------------------------
(* Statements. *)
Declare(s) ==
    LET mutable(t) == [t EXCEPT !.mutables = IF Is(s, "KwVar") /\ ~t.failed
                                             THEN @ \cup {NameAt(s)} ELSE @]
    IN  mutable(BindValue(NamedValue(s), NameAt(s)))

(* NAME [ index ] = value ; *)
StoreTo(base, index, s) ==
    LET store(addr) == BindValue(Put(s, Store(addr.w, addr.id, s.v, s.env[MEM])), MEM)
    IN  IF s.failed THEN s ELSE store(AddrOf(s.w, base, index))

StoreValue(base, s) ==
    StoreTo(base, s.v, Expect(ParseExpr(Expect(s, "Assign"), 0), "Semi"))

ParseStore(s) ==
    LET name == s.toks[s.p].text
    IN  IF name \notin DOMAIN s.env THEN Err(s)
        ELSE StoreValue(s.env[name],
                        Expect(ParseExpr(Expect(Adv(s), "LBracket"), 0), "RBracket"))

ParseAssign(s) ==
    LET name == s.toks[s.p].text
        assign(val) == IF name \notin DOMAIN val.env \/ name \notin val.mutables THEN Err(val)
                       ELSE BindValue(val, name)
    IN  assign(Expect(ParseExpr(Adv(Adv(s)), 0), "Semi"))

(* The statements up to the brace that closes the block; v is its value. *)
Stmts(s) ==
    LET rest(e) == IF Is(e, "RBrace") THEN e
                   ELSE Stmts(CASE Is(s, "KwIf") -> e
                                [] Is(s, "KwLoop") -> Accept(e, "Semi")
                                [] OTHER -> Expect(e, "Semi"))
    IN  CASE Kind(s) \in {"RBrace", "End"} -> [s EXCEPT !.v = NONE]
          [] Is(s, "KwReturn") -> Accept(ParseExpr(Adv(s), 0), "Semi")
          [] Kind(s) \in {"KwVar", "KwLet"} -> Stmts(Declare(s))
          [] Is(s, "KwWhile") -> Stmts(ParseWhile(s))
          [] Is(s, "Ident") /\ StoreAt(s.toks, s.p) -> Stmts(ParseStore(s))
          [] Is(s, "Ident") /\ AssignAt(s.toks, s.p) -> Stmts(ParseAssign(s))
          [] OTHER -> rest(CASE Is(s, "KwIf") -> ParseIf(s)
                             [] Is(s, "KwLoop") -> ParseLoop(s)
                             [] OTHER -> ParseExpr(s, 0))

Parse(rule, s, x) ==
    CASE rule = "expr" -> Climb(ParseUnary(s), x)
      [] rule = "if" -> ParseThen(ToBool(ParseExpr(Expect(s, "KwIf"), 0)))
      [] rule = "block" -> Expect(Stmts(Expect(s, "LBrace")), "RBrace")
      [] rule = "loop" ->
            AfterInits(ParseInits(Expect(Expect(s, "KwLoop"), "LParen"), <<>>, <<>>))
      [] rule = "step" /\ Is(s, "KwBreak") -> StepBreak(s, x)
      [] rule = "step" /\ Is(s, "KwNext") -> StepNext(s, x)
      [] rule = "step" /\ Is(s, "KwLet") -> StepLet(s, x)
      [] rule = "step" /\ Is(s, "KwIf") -> StepIf(s, x)
      [] OTHER -> Err(s)

-----------------------------------------------------------------------------
(* The module: headers first, then the bodies. *)
TypeOf == [KwIntTy |-> "word", KwI64 |-> "word", KwI32 |-> "narrow",
           KwI16 |-> "narrow", KwI8 |-> "narrow", KwBool |-> "bool"]

(* An operator name of a type, or ptr, which is a word. *)
IsTypeAt(s) == Kind(s) \in DOMAIN TypeOf \/ (Is(s, "Ident") /\ s.toks[s.p].text = "ptr")

ParseType(s) ==
    IF ~IsTypeAt(s) THEN Err(s)
    ELSE [Adv(s) EXCEPT !.v = IF Is(s, "Ident") THEN "word" ELSE TypeOf[Kind(s)]]

RECURSIVE ScanParams(_, _, _), ScanHeaders(_, _)

ScanParams(s, names, types) ==
    LET name == s.toks[s.p].text
        t == ParseType(Expect(Expect(s, "Ident"), "Colon"))
        more == <<Append(names, name), Append(types, t.v)>>
    IN  IF Is(t, "Comma") THEN ScanParams(Adv(t), more[1], more[2])
        ELSE [Expect(t, "RParen") EXCEPT !.step = more]

ScanHeaders(s, headers) ==
    LET fn == Expect(Accept(s, "KwComptime"), "KwFn")
        open(t) == IF Is(t, "RParen") THEN [Adv(t) EXCEPT !.step = <<<<>>, <<>>>>]
                   ELSE ScanParams(t, <<>>, <<>>)
        header(args, t) ==
            [name |-> fn.toks[fn.p].text, is_comptime |-> Is(s, "KwComptime"),
             param_names |-> args.step[1], param_types |-> args.step[2],
             result_type |-> t.v, body_begin |-> t.p,
             body_end |-> Match(t.toks, "LBrace", "RBrace", t.p)]
        skip(args, t, h) ==
            IF ~Is(t, "LBrace") \/ h.body_end = 0 THEN Err(t)
            ELSE ScanHeaders([t EXCEPT !.p = h.body_end + 1], Append(headers, h))
        result(args, t) == skip(args, t, header(args, t))
        typed(args) == result(args, ParseType(Expect(args, "Arrow")))
    IN  IF s.failed \/ Is(s, "End") THEN [s EXCEPT !.step = headers]
        ELSE typed(open(Expect(Expect(fn, "Ident"), "LParen")))

AddHeaderAs(s, h, f) ==
    LET node == [name |-> h.name, is_comptime |-> h.is_comptime, node |-> f.id,
                 param_types |-> h.param_types, result_type |-> h.result_type]
    IN  [s EXCEPT !.w = AddFunc(f.w, f.id).w, !.funcs = With(@, h.name, node),
                  !.step = Append(@, [header |-> h, node |-> f.id])]

AddHeader(s, h) == AddHeaderAs(s, h, BeginFunc(s.w, h.param_types, h.result_type, FALSE))

ParseBody(s, f) ==
    LET h == f.header
        has_stores == \E q \in h.body_begin .. h.body_end - 1 : StoreAt(s.toks, q)
        params == Bound(<<>>, h.param_names, Info(s.w, f.node).params)
        mem == MemStart(s.w)
        start == [s EXCEPT !.p = h.body_begin, !.mutables = {}, !.env = params,
                           !.has_stores = has_stores]
        end(body) == IF body.failed THEN body
                     ELSE Put(body, EndFunc(body.w, f.node, body.v,
                                            IF has_stores THEN body.env[MEM] ELSE NONE))
    IN  IF s.failed THEN s
        ELSE end(ParseBlock(IF has_stores THEN Bind(Put(start, mem), MEM, mem.id) ELSE start))

AddHeaders(s) ==
    IF s.failed THEN s ELSE FoldLeft(AddHeader, [s EXCEPT !.step = <<>>], s.step)

(* The bodies of compile-time functions are read first. *)
ParseBodies(s) ==
    LET IsComptime(f) == f.header.is_comptime
        IsOrdinary(f) == ~f.header.is_comptime
    IN  IF s.failed THEN s
        ELSE FoldLeft(ParseBody, s, SelectSeq(s.step, IsComptime) \o SelectSeq(s.step, IsOrdinary))

ParseModule(toks) ==
    LET start == [toks |-> toks, p |-> 1, w |-> EmptyWorld, env |-> <<>>,
                  mutables |-> {}, has_stores |-> FALSE, funcs |-> <<>>,
                  v |-> NONE, step |-> <<>>, failed |-> FALSE]
    IN  ParseBodies(AddHeaders(ScanHeaders(start, <<>>)))
=============================================================================
