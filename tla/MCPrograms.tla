------------------------------ MODULE MCPrograms ------------------------------
(* Programs that compute without memory: calls of up to eight arguments,    *)
(* recursion, division, shifts, comparisons, loops that rotate variables,   *)
(* loop expressions, and calls at compile time.  p is a number.             *)
EXTENDS Compiler

V(x) == Var(x)
P == Var("p")
Plus(a, b) == Bin("Plus", a, b)
Sub(a, b) == Bin("Minus", a, b)
Times(a, b) == Bin("Star", a, b)
Div(a, b) == Bin("Slash", a, b)
Mod(a, b) == Bin("Percent", a, b)
Lt(a, b) == Bin("Lt", a, b)
Main(body, tail) == Fn("f", <<"a", "p">>, body, tail)

(* Values in every argument place, used in another order. *)
Five == Fn("g", <<"c", "d", "e", "h", "k">>, <<>>, Sub(V("c"), Mod(V("k"), V("h"))))
Eight == Fn("g", <<"c", "d", "e", "h", "k", "l", "m", "n">>, <<>>,
            Sub(Sub(V("c"), V("n")), Sub(Times(V("k"), V("l")), Sub(V("d"), V("m")))))
Calls ==
    {<<Five, Main(<<Let("x", CallTo("g", <<P, Num(1), Num(2), Num(3), P>>))>>,
                  Plus(V("x"), CallTo("g", <<Num(1), P, Num(4), V("x"), Num(3)>>)))>>,
     <<Five, Main(<<>>, CallTo("g", <<P, Num(1), Num(2), CallTo("g", <<P, P, P, Num(2), Num(3)>>),
                                      CallTo("g", <<Num(5), P, P, Num(4), P>>)>>))>>,
     <<Eight, Main(<<Mut("x", Num(0)), Mut("y", P),
                     While(Lt(V("x"), Num(2)),
                           <<Assign("y", CallTo("g", <<V("y"), V("x"), P, Num(1),
                                                       Num(2), V("y"), V("x"), P>>)),
                             Assign("x", Plus(V("x"), Num(1)))>>)>>, Plus(V("x"), V("y")))>>}

Factorial == Fn("fac", <<"n">>, <<>>,
                Choice(Lt(V("n"), Num(1)), Num(1),
                       Times(V("n"), CallTo("fac", <<Sub(V("n"), Num(1))>>))))
Fibonacci == Fn("fib", <<"n">>, <<>>,
                Choice(Lt(V("n"), Num(2)), V("n"),
                       Plus(CallTo("fib", <<Sub(V("n"), Num(1))>>),
                            CallTo("fib", <<Sub(V("n"), Num(2))>>))))
Recursion ==
    {<<Factorial, Main(<<>>, CallTo("fac", <<Plus(P, Num(1))>>))>>,
     <<Fibonacci, Main(<<>>, CallTo("fib", <<P>>))>>}

Division ==
    {<<Main(<<>>, Plus(Div(P, d), Times(Num(3), Mod(P, d))))>> :
        d \in {Num(0), Minus(Num(1)), Num(3), Plus(P, Num(1)), P}}
    \cup {<<Main(<<Let("x", Div(Num(7), P)), Let("y", Mod(Num(7), P))>>,
                 Sub(V("x"), Sub(V("y"), Plus(P, Div(V("x"), V("y"))))))>>}

Bits ==
    {<<Main(<<>>, Bin(op, P, n))>> : op \in {"Shl", "Shr", "Amp", "Pipe", "Caret", "Star"},
                                     n \in {Num(1), Num(8), Plus(P, Num(1))}}

(* A constant on either side, and both truth values used as numbers. *)
Comparisons ==
    {<<Main(<<Let("x", Bin(op, l, r))>>,
            Choice(Bang(V("x")), Sub(P, Num(1)), Plus(P, Choice(V("x"), Num(3), P))))>> :
        op \in {"EqEq", "Ne", "Lt", "Le", "Gt", "Ge"},
        l \in {Num(2), P}, r \in {Num(0), Minus(P)}}

Rotate == <<Main(<<Mut("x", P), Mut("y", Num(5)), Mut("z", Num(9)), Mut("i", Num(0)),
                   While(Lt(V("i"), Num(2)),
                         <<Let("t", V("x")), Assign("x", V("y")), Assign("y", V("z")),
                           Assign("z", V("t")), Assign("i", Plus(V("i"), Num(1)))>>)>>,
                 Sub(Times(V("x"), Num(2)), Sub(V("y"), Times(V("z"), Num(4)))))>>

(* A loop that calls the function it is in. *)
LoopCalls == <<Fn("g", <<"n">>, <<Mut("x", Num(0)), Mut("i", Num(0)),
                  While(Lt(V("i"), V("n")),
                        <<Assign("x", Plus(V("x"), Plus(CallTo("g", <<V("i")>>), Num(1)))),
                          Assign("i", Plus(V("i"), Num(1)))>>)>>, V("x")),
               Main(<<>>, Sub(CallTo("g", <<P>>), CallTo("g", <<Num(2)>>)))>>

(* Two loops inside a third; the second uses what the first left. *)
Nested == <<Main(<<Mut("x", P), Mut("y", Num(0)), Mut("z", Num(0)), Mut("i", Num(0)),
                   While(Lt(V("i"), Num(2)),
                         <<Assign("z", Num(0)),
                           While(Lt(V("z"), Num(2)),
                                 <<Assign("y", Plus(V("y"), V("x"))),
                                   Assign("z", Plus(V("z"), Num(1)))>>),
                           While(Lt(V("z"), Num(4)),
                                 <<Assign("x", Sub(V("x"), V("y"))),
                                   Assign("z", Plus(V("z"), Num(1)))>>),
                           If(Lt(V("x"), V("y")), <<Assign("x", Plus(V("x"), Num(1)))>>,
                              <<If(Lt(V("y"), Num(3)), <<Assign("y", V("i"))>>,
                                   <<Assign("x", Num(3))>>)>>),
                           Assign("i", Plus(V("i"), Num(1)))>>)>>,
                 Sub(V("x"), V("y")))>>

(* More values alive over a call than there are registers. *)
Crowd == {<<Factorial,
           Main(<<Let("x", Plus(P, Num(1))), Let("y", Times(P, Num(3))), Let("z", Sub(P, Num(2))),
                  Let("t", CallTo("fac", <<Num(2)>>))>>,
                Sub(Plus(V("x"), V("t")), Times(Sub(V("y"), V("x")), Sub(V("z"), V("t")))))>>,
          <<Eight,
           Main(<<Let("x", Plus(P, Num(1))), Let("y", Times(P, Num(3))), Let("z", Sub(P, Num(2))),
                  Let("u", Sub(P, V("y"))), Let("w", Times(P, P)),
                  Let("t", CallTo("g", <<P, V("z"), V("y"), V("u"), V("x"), V("w"), V("u"), P>>))>>,
                Sub(Sub(Sub(Sub(Sub(V("t"), V("x")), V("y")), V("z")), V("u")), V("w")))>>}

LoopExpressions ==
    {<<Main(<<Let("x", Loop1("i", P, "j", Plus(V("i"), Num(1)), Bin("Gt", V("j"), Plus(P, Num(3))),
                             Times(V("j"), Num(2)), V("j")))>>,
            Inside("y", Plus(V("x"), P),
                   Loop1("i", V("y"), "j", Sub(V("i"), V("x")), Lt(V("j"), Minus(Num(9))),
                         Sub(V("j"), V("y")), Sub(V("i"), Num(7)))))>>}

(* Read and run at compile time where the arguments are constants. *)
Constants ==
    {<<Comptime(Factorial), Comptime(Fn("sq", <<"n">>, <<>>, Times(V("n"), V("n")))),
       Main(<<Let("x", CallTo("fac", <<Num(3)>>))>>,
            Plus(CallTo("sq", <<Plus(P, Num(0))>>),
                 Sub(V("x"), CallTo("sq", <<CallTo("fac", <<Num(2)>>)>>))))>>}

MCPure ==
    Calls \cup Recursion \cup Division \cup Bits \cup Comparisons
    \cup {Rotate, Nested, LoopCalls} \cup Crowd \cup LoopExpressions \cup Constants

-----------------------------------------------------------------------------
(* The same with p of a narrow type, and a callee that takes one.           *)
Narrowly(f) == [f EXCEPT !.types = <<"KwIntTy", "KwI8">>]
Small == [Fn("g", <<"c", "d">>, <<>>, Sub(Times(V("c"), V("d")), V("c")))
             EXCEPT !.types = <<"KwI8", "KwIntTy">>, !.result = "KwI8"]

MCNarrow ==
    {<<Narrowly(Main(<<Let("x", Bin(op, P, n))>>, Sub(V("x"), Num(9))))>> :
        op \in DOMAIN BinOf \ {"AndAnd", "OrOr"}, n \in {Num(0), Num(9), Minus(Num(1)), Plus(P, Num(3))}}
    \cup {<<Narrowly(Main(<<>>, Bin(op, Num(5), P)))>> : op \in DOMAIN BinOf \ {"AndAnd", "OrOr"}}
    \cup {<<Narrowly(Main(<<>>, Choice(Bin(op, Plus(P, Num(2)), n), Minus(P), Num(9))))>> :
              op \in DOMAIN CmpOf, n \in {Num(5), P}}
    \cup {<<Small, Narrowly(Main(<<>>, Plus(CallTo("g", <<Times(Num(5), P), P>>), P)))>>}
    \cup {<<Narrowly(Main(<<Mut("x", P), Mut("y", Num(0)),
                            While(Lt(V("x"), Num(3)),
                                  <<Assign("y", Plus(V("y"), Times(Num(3), V("x")))),
                                    Assign("x", Plus(V("x"), Num(1)))>>)>>, Sub(V("y"), V("x"))))>>}
===============================================================================
