------------------------------ MODULE MCCompiler ------------------------------
(* The suites of programs the compiler runs: those of MCPrograms, and       *)
(* programs with memory, whose parameter a is the address of an array of    *)
(* three words and p a number.                                              *)
EXTENDS MCPrograms

X == V("x")
Y == V("y")

(* Statements over two variables and the array: all pairs of a first and a  *)
(* second part, each a plain statement, a branch, a loop, or one in another. *)
Plain == {Assign("y", X), Write("a", Num(0), Plus(Y, Num(1))), Write("a", Num(0), X),
          Assign("y", At("a", Num(0)))}
Up == Assign("x", Plus(X, Num(1)))
Twice(body) == While(Lt(X, Num(3)), Append(body, Up))
Branch(yes, no) == If(Lt(X, Num(2)), yes, no)

Inner(body) == While(Lt(Y, Num(3)), body \o <<Assign("y", Plus(Y, Num(1)))>>)

Pairs == {<<s, t>> \in Plain \X Plain : s # t}
Firsts == {<<s>> : s \in Plain} \cup {<<Branch(<<s>>, <<>>)>> : s \in Plain}
          \cup {<<Twice(<<s>>)>> : s \in Plain}
Seconds == {<<Branch(<<q[1]>>, <<q[2]>>)>> : q \in Pairs}
           \cup {<<Twice(q)>> : q \in Pairs}
           \cup {<<Twice(<<Inner(<<s>>)>>)>> : s \in Plain \ {Assign("y", X)}}
           \cup {<<Twice(<<Branch(<<s>>, <<Up>>)>>)>> : s \in Plain}
           \cup {<<Twice(<<Branch(<<q[1]>>, <<q[2]>>)>>)>> : q \in Pairs}
           \cup {<<Twice(<<Mut("y", X), s>>)>> : s \in Plain}

Statements(one, two) ==
    <<Main(<<Mut("x", P), Mut("y", Num(1))>> \o one \o two
           \o <<Write("a", Num(1), Plus(X, At("a", Num(0))))>>,
           Bin("Minus", At("a", Num(1)), Y))>>

MCStatements == {Statements(one, two) : one \in Firsts, two \in Seconds}

(* The interpreter makes a load again when its value is wanted after a loop *)
(* that comes later, and in every round of one: no load is wanted there.    *)
Loads(sts) == \E i \in DOMAIN sts : sts[i].k = "assign" /\ sts[i].e.k = "at"
LoadsOutsideLoop(sts) ==
    \E i \in DOMAIN sts : Loads(sts) \/ (sts[i].k = "if" /\ Loads(sts[i].yes))
IsLoop(sts) == \E i \in DOMAIN sts : sts[i].k = "while"

MCInterpreted ==
    {Statements(one, two) : one \in {f \in Firsts : ~LoadsOutsideLoop(f)}, two \in Seconds}
    \cup {Statements(one, two) : one \in Firsts, two \in {q \in Seconds : ~IsLoop(q)}}

Inputs(ps, mem) == {[args |-> <<8, p>>, mem |-> mem] : p \in ps}
Edges == Inputs({-32, -1, 0, 2}, [x \in {8} |-> 1])
Arrays == Inputs({1, 2}, [x \in {8, 16, 24} |-> x \div 8 + 4])

MCSuites ==
    [statements |-> [sources |-> MCStatements, engines |-> {"simple", "ra"},
                     levels |-> {0}, inputs |-> Arrays, checked |-> FALSE],
     interpreter |-> [sources |-> MCInterpreted, engines |-> {"interp"},
                      levels |-> {0}, inputs |-> Arrays, checked |-> FALSE],
     pure |-> [sources |-> MCPure, engines |-> {"interp", "simple", "ra"},
               levels |-> {0, 1}, inputs |-> Edges, checked |-> TRUE],
     narrow |-> [sources |-> MCNarrow, engines |-> {"interp", "simple", "ra"},
                 levels |-> {0}, inputs |-> Edges, checked |-> TRUE]]

MCJunk == {-7}
MCVReg == 0 .. 150
===============================================================================
