----------------------------- MODULE MCSchedule -----------------------------
(* Schedule over families of small functions: every way to wire a few nodes *)
(* of each kind that the constructors and the front end can produce.        *)
EXTENDS Schedule, Sequences

Node(op, ins) ==
    [op |-> op, ins |-> ins, state_in |-> NONE, yields |-> <<NONE, NONE>>,
     brk |-> NONE, vals |-> {}, next |-> {}, params |-> {}]

P == Node("Param", {})
K == Node("ConstInt", {})
Op(a, b) == Node("Add", {a, b})
PureLoad(a) == Node("Load", {a})
Load(a, s) == [Node("Load", {a}) EXCEPT !.state_in = s]
Store(a, v, s) == [Node("Store", {a, v}) EXCEPT !.state_in = s]
Cond(p, no, yes) == [Node("Cond", {p}) EXCEPT !.yields = <<no, yes>>]
Loop(ins, params, brk, vals, next) ==
    [Node("Loop", ins) EXCEPT !.params = params, !.brk = brk,
                              !.vals = vals, !.next = next]

Fn(nodes, r) == [node |-> nodes, result |-> r, state_result |-> NONE]
FnState(nodes, r, s) == [node |-> nodes, result |-> r, state_result |-> s]

(* A conditional inside another, with values shared among the arms. *)
Conds ==
    {Fn(<<P, K, Op(1, 2), Op(x, 3), Cond(a, b, c), Cond(1, d, e), Op(6, f)>>, 7) :
        x \in {1, 3}, a \in {1, 3}, b \in {2, 4}, c \in {1, 3}, d \in 3 .. 5,
        e \in {2, 4}, f \in {2, 4, 5}}

(* A while loop: 2 is carried; 6 is a condition inside the body. *)
OneLoop ==
    {Fn(<<P, P, K, PureLoad(a), Op(2, b), Cond(d, e, f), Op(x, 5),
          Loop({3}, {2}, k, {v}, {n}), Op(8, r)>>, 9) :
        a \in {1, 2}, b \in {3, 4}, d \in {2, 4}, e \in {3, 4}, f \in {2, 5},
        x \in {4, 6}, k \in {5, 6}, v \in {2, 6}, n \in {5, 7}, r \in {1, 4}}

(* A loop in a loop, the inner one also behind a condition: 2 is carried by *)
(* the outer loop, 3 by the inner one.                                      *)
TwoLoops ==
    {Fn(<<P, P, P, K, Op(a, 4), Op(3, b), Loop({i}, {3}, 6, {v}, {n}),
          Cond(2, 4, y), Op(z, 2), Loop({4}, {2}, k, {w}, {9}), Op(10, r)>>, 11) :
        a \in {1, 2}, b \in {4, 5}, i \in {4, 5}, v \in {3, 6}, n \in {5, 6},
        y \in {5, 7}, z \in {7, 8}, k \in {5, 8}, w \in {2, 8}, r \in {1, 5}}

(* var x = 0; if c > 0 { a[0] = 1; x = a[0]; } return x;                    *)
(* x and the memory token are merged by two conditionals on one predicate.  *)
GuardedStore ==
    FnState(<<P, P, K, K, Node("CmpGt", {2, 3}), K, Store(1, 6, 4), Load(1, 7),
              Cond(5, 4, 8), Cond(5, 3, 8)>>, 10, 9)

(* The same with nothing read back: only the memory token is merged. *)
GuardedStoreOnly ==
    FnState(<<P, P, K, K, Node("CmpGt", {2, 3}), K, Store(1, 6, 4), Cond(5, 4, 7)>>,
            3, 8)

(* while (if i < n { a[i] } else { 0 }) != 0 { s = s + a[i]; i = i + 1; } *)
GuardedTest ==
    Fn(<<P, P, K, P, P, Node("CmpLt", {5, 2}), Op(1, 5), PureLoad(7), Cond(6, 3, 8),
         Node("CmpEq", {9, 3}), Op(4, 8), Op(5, 3), Loop({3}, {4, 5}, 10, {4, 5}, {11, 12}),
         Node("Proj", {13})>>, 14)

(* while i < n { a[i] = s; s = s + a[i]; i = i + 1; } with the memory token *)
(* 6 carried: 4 is s, 5 is i.                                               *)
StoreLoop ==
    FnState(<<P, P, K, P, P, P, Node("CmpGe", {5, 2}), Op(1, 5), Store(8, 4, 6),
              Load(8, 9), Op(4, 10), Op(5, 3), Loop({3}, {4, 5, 6}, 7, {4, 5, 6}, {11, 12, 10}),
              Node("Proj", {13}), Node("Proj", {13})>>, 14, 15)

(* A carried parameter is read only inside its loop. *)
ParamsStayInside(f) ==
    \A u \in Nodes(f) : \A p \in f.node[u].params :
        p \notin Leads(f, Roots(f), EdgesAround(f, {<<u, "body">>}))

SmallFunctions ==
    {f \in Conds \cup OneLoop \cup TwoLoops : ParamsStayInside(f)}
        \cup {GuardedStoreOnly, GuardedTest, StoreLoop, GuardedStore}

StoringFunctions == {GuardedStoreOnly, StoreLoop, GuardedStore}
LoadingFunctions == {StoreLoop, GuardedTest}
=============================================================================
