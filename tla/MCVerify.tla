------------------------------- MODULE MCVerify -------------------------------
(* Small graphs for the verifier: three nodes that refer to anything, also  *)
(* to themselves and to a node that does not exist; a conditional and loops *)
(* of every arity up to two; and the ways three accesses may share states.  *)
EXTENDS Verify

UpTo(n, S) == UNION {[1 .. k -> S] : k \in 0 .. n}

Fun(result, state, state_result) ==
    [params |-> <<>>, state_param |-> state, result_type |-> "word",
     result |-> result, state_result |-> state_result]

(* The function is the last node. *)
World1(nodes, conds, loops, info) ==
    [w |-> [nodes |-> Append(nodes, [Node("Func", "func", <<>>) EXCEPT !.region = 1]),
            interned |-> {}, conds |-> conds, loops |-> loops, funcs |-> <<info>>,
            module_funcs |-> <<Len(nodes) + 1>>],
     func |-> Len(nodes) + 1]

Wirings ==
    {World1(<<Node("Add", "word", a), Node("Add", "word", b), Node("Add", "word", c)>>,
            <<>>, <<>>, Fun(r, NONE, s)) :
        a \in UpTo(1, 1 .. 3), b \in UpTo(2, {1, 2, 3}), c \in UpTo(2, {1, 2, 3, 5}),
        r \in {0, 3, 5}, s \in {0, 2}}

Regions ==
    {World1(<<Node("Param", "word", <<>>), Node("ConstInt", "word", <<>>),
              [Node("Loop", "void", ins) EXCEPT !.region = 1],
              [Node("Cond", "word", <<2>>) EXCEPT !.region = 1]>>,
            <<yields>>,
            <<[params |-> params, is_break |-> 1, break_val |-> 0,
               break_vals |-> <<b>>, next_vals |-> nexts]>>, Fun(4, NONE, NONE)) :
        ins \in UpTo(2, {2}), yields \in {<<>>, <<3>>, <<2, 3>>}, params \in UpTo(2, {1}),
        nexts \in UpTo(2, {1}), b \in {1, 3, 6}}

Access(op, st) == [Node(op, "word", <<1>>) EXCEPT !.state_in = st]

States ==
    {World1(<<Node("Param", "state", <<>>), Access(o1, s1), Access(o2, s2), Access(o3, s3),
              Node("Add", "word", <<2, 4>>)>>, <<>>, <<>>, Fun(5, p, r)) :
        o1 \in {"Load", "Call"}, o2 \in {"Store", "Call"}, o3 \in {"Load"},
        s1 \in {0, 1}, s2 \in {1, 2}, s3 \in {0, 1, 2, 3}, p \in {0, 1}, r \in {0, 2, 3, 4}}

MCGraphs == Wirings \cup Regions \cup States
===============================================================================
