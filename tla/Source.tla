-------------------------------- MODULE Source --------------------------------
(***************************************************************************)
(* What a program of the source language means, statement by statement:    *)
(* lexical scopes, assignment to the innermost variable of the name,       *)
(* memory read and written where the text says so.  Nothing of the graph   *)
(* occurs here; this is what the compiler is held to.                      *)
(*                                                                         *)
(* A program is a sequence of functions, the last of them the one that is  *)
(* run; a callee writes no memory.  What types parameters and results are  *)
(* given plays no part: the meaning is that of a program of ints.          *)
(* Expressions and statements are records, told apart by their field k;    *)
(* Tokens gives the tokens of a program.                                   *)
(***************************************************************************)
EXTENDS Front

Num(n) == [k |-> "num", n |-> n]
Var(x) == [k |-> "var", x |-> x]
Bin(tok, a, b) == [k |-> "bin", tok |-> tok, a |-> a, b |-> b]
At(x, i) == [k |-> "at", x |-> x, i |-> i]
Choice(c, a, b) == [k |-> "choice", c |-> c, a |-> a, b |-> b]
Inside(x, e, a) == [k |-> "inside", x |-> x, e |-> e, a |-> a]
Minus(a) == [k |-> "minus", a |-> a]
Bang(a) == [k |-> "bang", a |-> a]
CallTo(f, args) == [k |-> "call", f |-> f, args |-> args]

Fn(fname, params, body, tail) ==
    [fname |-> fname, params |-> params, body |-> body, tail |-> tail, comptime |-> FALSE,
     types |-> [i \in DOMAIN params |-> "KwIntTy"], result |-> "KwIntTy"]

Comptime(f) == [f EXCEPT !.comptime = TRUE]

(* loop (x = init) { let y = e; if c { break a } else { next b } } *)
Loop1(x, init, y, e, c, a, b) ==
    [k |-> "loop", x |-> x, init |-> init, y |-> y, e |-> e, c |-> c, a |-> a, b |-> b]

Let(x, e) == [k |-> "let", x |-> x, e |-> e]
Mut(x, e) == [k |-> "mut", x |-> x, e |-> e]
Assign(x, e) == [k |-> "assign", x |-> x, e |-> e]
Write(x, i, e) == [k |-> "write", x |-> x, i |-> i, e |-> e]
If(c, yes, no) == [k |-> "if", c |-> c, yes |-> yes, no |-> no]
While(c, body) == [k |-> "while", c |-> c, body |-> body]

-----------------------------------------------------------------------------
(* The tokens of a program. *)
RECURSIVE ExprTokens(_), StmtsTokens(_)

ListTokens(es) ==
    FlattenSeq([i \in DOMAIN es |->
                   ExprTokens(es[i]) \o (IF i = Len(es) THEN <<>> ELSE <<Tok("Comma")>>)])

Braces(toks) == <<Tok("LBrace")>> \o toks \o <<Tok("RBrace")>>
Parens(toks) == <<Tok("LParen")>> \o toks \o <<Tok("RParen")>>
Named(x, e) == <<Ident(x), Tok("Assign")>> \o ExprTokens(e)

ExprTokens(e) ==
    CASE e.k = "num" -> <<Number(e.n)>>
      [] e.k = "var" -> <<Ident(e.x)>>
      [] e.k = "bin" -> Parens(ExprTokens(e.a) \o <<Tok(e.tok)>> \o ExprTokens(e.b))
      [] e.k = "minus" -> <<Tok("Minus")>> \o ExprTokens(e.a)
      [] e.k = "bang" -> <<Tok("Bang")>> \o ExprTokens(e.a)
      [] e.k = "call" -> <<Ident(e.f)>> \o Parens(ListTokens(e.args))
      [] e.k = "at" -> <<Ident(e.x), Tok("LBracket")>> \o ExprTokens(e.i) \o <<Tok("RBracket")>>
      [] e.k = "choice" -> <<Tok("KwIf")>> \o ExprTokens(e.c) \o Braces(ExprTokens(e.a))
                           \o <<Tok("KwElse")>> \o Braces(ExprTokens(e.b))
      [] e.k = "inside" -> Parens(<<Tok("KwLet")>> \o Named(e.x, e.e) \o <<Tok("Semi")>>
                                  \o ExprTokens(e.a))
      [] e.k = "loop" -> <<Tok("KwLoop")>> \o Parens(Named(e.x, e.init))
                         \o Braces(<<Tok("KwLet")>> \o Named(e.y, e.e) \o <<Tok("Semi")>>
                                   \o <<Tok("KwIf")>> \o ExprTokens(e.c)
                                   \o Braces(<<Tok("KwBreak")>> \o ExprTokens(e.a))
                                   \o <<Tok("KwElse")>>
                                   \o Braces(<<Tok("KwNext")>> \o ExprTokens(e.b)))

ElseIf(sts) == Len(sts) = 1 /\ sts[1].k = "if"

StmtTokens(st) ==
    CASE st.k = "let" -> <<Tok("KwLet")>> \o Named(st.x, st.e) \o <<Tok("Semi")>>
      [] st.k = "mut" -> <<Tok("KwVar")>> \o Named(st.x, st.e) \o <<Tok("Semi")>>
      [] st.k = "assign" -> Named(st.x, st.e) \o <<Tok("Semi")>>
      [] st.k = "write" -> ExprTokens(At(st.x, st.i)) \o <<Tok("Assign")>>
                           \o ExprTokens(st.e) \o <<Tok("Semi")>>
      [] st.k = "if" -> <<Tok("KwIf")>> \o ExprTokens(st.c) \o Braces(StmtsTokens(st.yes))
                        \o (IF st.no = <<>> THEN <<>>
                            ELSE IF ElseIf(st.no) THEN <<Tok("KwElse")>> \o StmtsTokens(st.no)
                            ELSE <<Tok("KwElse")>> \o Braces(StmtsTokens(st.no)))
      [] st.k = "while" -> <<Tok("KwWhile")>> \o ExprTokens(st.c) \o Braces(StmtsTokens(st.body))

StmtsTokens(sts) == IF sts = <<>> THEN <<>> ELSE StmtTokens(Head(sts)) \o StmtsTokens(Tail(sts))

ParamTokens(f) ==
    FlattenSeq([i \in DOMAIN f.params |->
                   <<Ident(f.params[i]), Tok("Colon"), Tok(f.types[i])>>
                   \o (IF i = Len(f.params) THEN <<>> ELSE <<Tok("Comma")>>)])

FuncTokens(f) ==
    (IF f.comptime THEN <<Tok("KwComptime")>> ELSE <<>>)
    \o <<Tok("KwFn"), Ident(f.fname)>> \o Parens(ParamTokens(f))
    \o <<Tok("Arrow"), Tok(f.result)>>
    \o Braces(StmtsTokens(f.body) \o ExprTokens(f.tail))

Tokens(fs) == FlattenSeq([i \in DOMAIN fs |-> FuncTokens(fs[i])]) \o <<Tok("End")>>

-----------------------------------------------------------------------------
(* A state m of the execution is [scopes, mem, rounds, funcs]: the          *)
(* variables of the blocks around, innermost last, the memory, how many     *)
(* rounds of loops may still begin, below zero the program is taken to run  *)
(* on, and the functions by name.                                           *)
Holder(m, x) == Max({i \in DOMAIN m.scopes : x \in DOMAIN m.scopes[i]})
Get(m, x) == m.scopes[Holder(m, x)][x]
Set(m, x, v) == [m EXCEPT !.scopes[Holder(m, x)][x] = v]
New(m, x, v) == [m EXCEPT !.scopes[Len(m.scopes)] = With(@, x, v)]
Enter(m) == [m EXCEPT !.scopes = Append(@, <<>>)]
Exit(m) == [m EXCEPT !.scopes = Front(@)]

Cell(base, i) == Wrap(base + 8 * i, Word)

RECURSIVE Value(_, _), Turns(_, _, _), Exec(_, _), ExecAll(_, _)

(* The value of an expression: none of these programs' expressions assigns. *)
Value(e, m) ==
    CASE e.k = "num" -> e.n
      [] e.k = "var" -> Get(m, e.x)
      [] e.k = "bin" /\ e.tok \in DOMAIN BinOf ->
            Arith(BinOf[e.tok], Value(e.a, m), Value(e.b, m), "word")
      [] e.k = "bin" /\ e.tok \in DOMAIN CmpOf ->
            IF Holds(CmpOf[e.tok], Value(e.a, m), Value(e.b, m)) THEN 1 ELSE 0
      [] e.k = "minus" -> Wrap(-Value(e.a, m), Word)
      [] e.k = "bang" -> IF Value(e.a, m) = 0 THEN 1 ELSE 0
      [] e.k = "at" -> m.mem[Cell(Get(m, e.x), Value(e.i, m))]
      [] e.k = "choice" -> IF Value(e.c, m) # 0 THEN Value(e.a, m) ELSE Value(e.b, m)
      [] e.k = "inside" -> Value(e.a, New(Enter(m), e.x, Value(e.e, m)))
      [] e.k = "loop" -> Turns(e, m, Value(e.init, m))
      [] e.k = "call" ->
            LET f == m.funcs[e.f]
                vals == [i \in DOMAIN e.args |-> Value(e.args[i], m)]
                in == [m EXCEPT !.scopes = <<Bound(<<>>, f.params, vals)>>]
            IN  Value(f.tail, ExecAll(f.body, in))

(* The turns of a loop expression from the value v of its variable. *)
Turns(e, m, v) ==
    LET turn == New(Enter(m), e.x, v)
        in == New(turn, e.y, Value(e.e, turn))
    IN  IF Value(e.c, in) # 0 THEN Value(e.a, in) ELSE Turns(e, m, Value(e.b, in))

Exec(st, m) ==
    LET body == Exit(ExecAll(st.body, Enter(m)))
        branch == IF Value(st.c, m) # 0 THEN st.yes ELSE st.no
    IN  CASE st.k \in {"let", "mut"} -> New(m, st.x, Value(st.e, m))
          [] st.k = "assign" -> Set(m, st.x, Value(st.e, m))
          [] st.k = "write" ->
                [m EXCEPT !.mem[Cell(Get(m, st.x), Value(st.i, m))] = Value(st.e, m)]
          [] st.k = "if" -> Exit(ExecAll(branch, Enter(m)))
          [] st.k = "while" ->
                IF Value(st.c, m) = 0 \/ m.rounds < 0 THEN m
                ELSE Exec(st, [body EXCEPT !.rounds = @ - 1])

ExecAll(sts, m) == IF sts = <<>> THEN m ELSE ExecAll(Tail(sts), Exec(Head(sts), m))

(* What a run returns and leaves in memory, unless it takes too long. *)
Meaning(fs, args, mem, rounds) ==
    LET f == Last(fs)
        end == ExecAll(f.body, [scopes |-> <<Bound(<<>>, f.params, args)>>,
                                mem |-> mem, rounds |-> rounds,
                                funcs |-> [n \in {fs[i].fname : i \in DOMAIN fs} |->
                                              fs[CHOOSE i \in DOMAIN fs : fs[i].fname = n]]])
    IN  [ends |-> end.rounds >= 0, v |-> Value(f.tail, end), mem |-> end.mem]
=============================================================================
