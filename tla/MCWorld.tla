------------------------------- MODULE MCWorld -------------------------------
(* Reductions from worlds that hold a few params and constants.             *)
EXTENDS Reductions, SequencesExt

(* The world after asking for params and constants, in this order. *)
With(types, literals) ==
    LET params == NewParams(EmptyWorld, types)
        Make(u, lit) == Konst(u, lit[1], lit[2]).w
    IN  FoldLeft(Make, params, literals)

(* Two unknowns of each width, one truth value, and every constant. *)
ArithWorld ==
    LET all == [i \in 1 .. 2 ^ Word |-> <<MinWord + i - 1, "word">>]
               \o [i \in 1 .. 2 ^ Narrow |-> <<i - 1, "narrow">>]
    IN  KonstBool(KonstBool(With(<<"word", "word", "narrow", "narrow", "bool">>,
                                 all), FALSE).w, TRUE).w

(* An i8 and an i64 argument, and the literals 1, 2 and 3. *)
MixedWorld ==
    With(<<"narrow", "word">>, <<<<1, "word">>, <<2, "word">>, <<3, "word">>>>)

ArithOps == BinOps \cup CmpOps \cup {"Neg", "Not"}

(* An unknown truth value and an unknown word, both truth values as        *)
(* constants, the memory, a multi-result loop and a function of the module. *)
GraphWorld ==
    LET base == MemStart(KonstBool(KonstBool(With(<<"bool", "word">>, <<>>),
                                             FALSE).w, TRUE).w).w
        func == BeginFunc(base, <<"word">>, "word", FALSE)
        arg == func.id - 1
        loop == MakeLoopMulti(func.w, <<arg>>, <<2>>, 1, <<2, arg>>, <<2>>)
        done == EndFunc(loop.w, func.id, arg, NONE)
    IN  AddFunc(done.w, func.id).w

(* What a compile-time call may leave: values its type does not hold. *)
GraphLiterals == {<<-1, "word">>, <<1, "narrow">>, <<-1, "bool">>}

GraphOps == {"ConstInt", "And", "CmpEq", "ConstBool", "Select", "Cond",
             "Load", "PureLoad", "Store", "Param", "Loop", "LoopMulti", "Proj",
             "Func", "EndFunc", "Call", "AddFunc", "KeepFuncs"}
=============================================================================
