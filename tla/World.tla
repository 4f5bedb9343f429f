-------------------------------- MODULE World --------------------------------
(***************************************************************************)
(* A World under its callers: the parser, the optimizer and the tests ask  *)
(* the constructors of module IR for one node after another.               *)
(***************************************************************************)
EXTENDS IR

CONSTANTS Start,        \* the world when the requests begin
          Ops,          \* the constructors that may be asked
          Literals,     \* the constants that may be asked, <<value, type>>
          Widths,       \* "agree" or "any": see Agree
          MaxRequests   \* bound: how many requests are made

TypedNode(n) ==
    /\ DOMAIN n = {"op", "type", "ins", "state_in", "imm", "region"}
    /\ n.type \in Types /\ n.state_in \in Nat
    /\ IF n.op \in ConstOps
       THEN n.imm \in ValuesOf(n.type)
       ELSE n.imm \in Nat

(* The entries of the tables tell of nodes and of types. *)
TypedTables(u) ==
    /\ \A i \in DOMAIN u.loops : u.loops[i].break_vals \in Seq(DOMAIN u.nodes)
    /\ \A i \in DOMAIN u.funcs : u.funcs[i].result_type \in Types

Typed(u) == (\A id \in DOMAIN u.nodes : TypedNode(u.nodes[id])) /\ TypedTables(u)

Owners(u, op) == {id \in DOMAIN u.nodes : u.nodes[id].op = op}

OneNodePerEntry(u, op, table) ==
    /\ table \in Seq(Range(table))
    /\ \A id \in Owners(u, op) : u.nodes[id].region \in DOMAIN table
    /\ \A k \in DOMAIN table : \E id \in Owners(u, op) : u.nodes[id].region = k
    /\ \A i, j \in Owners(u, op) : u.nodes[i].region = u.nodes[j].region => i = j

Owns(u) ==
    /\ OneNodePerEntry(u, "Func", u.funcs)
    /\ OneNodePerEntry(u, "Cond", u.conds)
    /\ OneNodePerEntry(u, "Loop", u.loops)

(* No rule of binop applies to these operands: it would make the node. *)
Irreducible(u, op, a, b) ==
    /\ IsConst(u, a) /\ IsConst(u, b) => FoldFails(op, Imm(u, b))
    /\ ~Swaps(u, op, a, b)
    /\ ~KeepsFirst(u, op, a, b)
    /\ ~GivesZero(u, op, a, b)
    /\ op = "Mul" /\ IsConst(u, b) => Log(Imm(u, b)) = {}

(* A node of the shape and the type its constructor gives it, of operands   *)
(* to which no rule of that constructor applies.                            *)
Formed(u, id) ==
    LET n == u.nodes[id]
        a == n.ins[1]
        b == n.ins[2]
        c == n.ins[3]
    IN  /\ n.op \in BinOps =>
              n = Node(n.op, Type(u, a), <<a, b>>) /\ Irreducible(u, n.op, a, b)
        /\ n.op \in CmpOps =>
              /\ n = Node(n.op, "bool", <<a, b>>)
              /\ a # b /\ ~(IsConst(u, a) /\ IsConst(u, b))
        /\ n.op \in {"Neg", "Not"} =>
              n = Node(n.op, Type(u, a), <<a>>) /\ ~IsConst(u, a)
        /\ n.op = "Select" =>
              /\ n = Node("Select", Type(u, b), <<a, b, c>>)
              /\ Type(u, c) = Type(u, b) /\ b # c /\ ~IsConst(u, a)
        /\ n.op = "Cond" =>
              /\ n.ins = <<a>>
              /\ u.conds[n.region] \in Seq(1 .. id - 1)
              /\ \A y \in Range(u.conds[n.region]) : Type(u, y) = n.type

AllFormed(u) == \A id \in DOMAIN u.nodes : Formed(u, id)

(* Where operands need not agree (see Agree) nodes are not all so formed. *)
ASSUME StartAssumption ==
    /\ WellMade(Start) /\ Typed(Start) /\ Owns(Start)
    /\ Widths = "agree" => AllFormed(Start)

ASSUME RequestsAssumption ==
    /\ Literals \subseteq Int64 \X Types
    /\ MaxRequests \in Nat

-----------------------------------------------------------------------------
(* The callers: the parser, the optimizer and the tests ask for one node    *)
(* after another, of nodes they were given before.                          *)
VARIABLES w,       \* the world
          asked,   \* the last request: [op, ins, type]
          ret,     \* the node it was answered with
          count    \* requests made

vars == <<w, asked, ret, count>>

Ids == DOMAIN w.nodes
OfOp(op) == {id \in Ids : Op(w, id) = op}
Values == {id \in Ids : Type(w, id) \in {"word", "narrow", "bool"}
                        /\ Op(w, id) # "Func"}
States == {id \in Ids : Type(w, id) = "state"}
MultiLoops == {id \in OfOp("Loop") : w.loops[w.nodes[id].region].break_vals # <<>>}

(* Params no loop and no function has claimed. *)
FreeParams ==
    OfOp("Param") \ UNION ({Range(w.loops[i].params) : i \in DOMAIN w.loops}
                           \cup {Range(w.funcs[i].params) : i \in DOMAIN w.funcs})

(* The parser converts nothing, so operands of different widths do meet.    *)
(* With Widths = "agree" they have one type, or a constant of type word     *)
(* (every literal of the source is one) stands to the right.                *)
Agree(a, b) ==
    \/ Widths = "any"
    \/ Type(w, a) = Type(w, b)
    \/ Type(w, a) = "narrow" /\ Type(w, b) = "word" /\ IsConst(w, b)

Answer(op, ins, t, r) ==
    /\ op \in Ops
    /\ asked' = [op |-> op, ins |-> ins, type |-> t]
    /\ ret' = r.id
    /\ w' = r.w
    /\ count' = count + 1

AskKonst == \E lit \in Literals :
    Answer("ConstInt", <<>>, lit[2], Konst(w, lit[1], lit[2]))

AskKonstBool == \E b \in BOOLEAN :
    Answer("ConstBool", <<>>, "bool", KonstBool(w, b))

AskBinop == \E op \in BinOps, a, b \in Values :
    /\ Agree(a, b)
    /\ Answer(op, <<a, b>>, Type(w, a), Binop(w, op, a, b))

AskCmp == \E op \in CmpOps, a, b \in Values :
    Answer(op, <<a, b>>, "bool", Cmp(w, op, a, b))

AskNeg == \E a \in Values : Answer("Neg", <<a>>, Type(w, a), Neg(w, a))

AskNot == \E a \in Values : Answer("Not", <<a>>, Type(w, a), BitNot(w, a))

AskSelect == \E c, a, b \in Values :
    /\ Type(w, a) = Type(w, b)
    /\ Answer("Select", <<c, a, b>>, Type(w, a), Select(w, c, a, b))

AskLoad == \E ptr \in Values, st \in States, t \in {"word"} :
    Answer("Load", <<ptr>>, t, Load(w, ptr, st, t))

AskPureLoad == \E ptr \in Values, t \in {"word"} :
    Answer("PureLoad", <<ptr>>, t, PureLoad(w, ptr, t))

AskStore == \E ptr, val \in Values, st \in States :
    Answer("Store", <<ptr, val>>, "state", Store(w, ptr, val, st))

AskMemStart == Answer("MemStart", <<>>, "state", MemStart(w))

AskParam == \E t \in {"word", "state"} :
    Answer("Param", <<>>, t, Param(w, t, 0))

AskCond == \E p \in Values, arms \in {2, 3} : \E yields \in [1 .. arms -> Values] :
    /\ \A k \in DOMAIN yields : Type(w, yields[k]) = Type(w, yields[1])
    /\ LET t == Type(w, yields[1])
       IN  Answer("Cond", <<p>> \o yields, t, MakeCond(w, p, t, yields))

(* A loop param is made of its initial value's type, and what ends a loop is *)
(* a truth value; the rest of the body is any value, and the param itself is *)
(* carried on.                                                               *)
Carries(p, init, is_break) ==
    Type(w, init) = Type(w, p) /\ Type(w, is_break) = "bool"

AskLoop == \E p \in FreeParams, init, is_break, break_val \in Values :
    LET t == Type(w, break_val)
    IN  /\ Carries(p, init, is_break)
        /\ Answer("Loop", <<init>>, t,
                  MakeLoop(w, <<init>>, t, <<p>>, is_break, break_val, <<p>>))

AskLoopMulti == \E p \in FreeParams, init, is_break, break_val \in Values :
    /\ Carries(p, init, is_break)
    /\ Answer("LoopMulti", <<init>>, "void",
              MakeLoopMulti(w, <<init>>, <<p>>, is_break, <<break_val, p>>, <<p>>))

AskProj == \E region \in MultiLoops :
    LET vals == w.loops[w.nodes[region].region].break_vals
    IN  \E k \in DOMAIN vals :
            Answer("Proj", <<region>>, Type(w, vals[k]),
                   Proj(w, region, k - 1, Type(w, vals[k])))

AskFunc == \E t \in {"word"}, has_state \in BOOLEAN :
    Answer("Func", <<>>, "func", BeginFunc(w, <<t>>, t, has_state))

AskEndFunc == \E func \in OfOp("Func"), result \in Values, st \in States \cup {NONE} :
    Answer("EndFunc", <<func>>, "func", EndFunc(w, func, result, st))

AskCall == \E func \in OfOp("Func") : \E arg \in Values, st \in States \cup {NONE} :
    Answer("Call", <<arg>>, Info(w, func).result_type, Call(w, func, <<arg>>, st))

AskAddFunc == \E func \in OfOp("Func") :
    /\ func \notin Range(w.module_funcs)
    /\ Answer("AddFunc", <<func>>, "func", AddFunc(w, func))

AskKeepFuncs == \E keep \in SUBSET Range(w.module_funcs) :
    Answer("KeepFuncs", <<>>, "func", KeepFuncs(w, keep))

(* The callers have what they want. *)
Finished == count = MaxRequests /\ UNCHANGED vars

Init ==
    /\ w = Start
    /\ asked = [op |-> "none", ins |-> <<>>, type |-> "void"]
    /\ ret = NONE
    /\ count = 0

Request ==
    \/ AskKonst \/ AskKonstBool \/ AskBinop \/ AskCmp \/ AskNeg \/ AskNot
    \/ AskSelect \/ AskLoad \/ AskPureLoad \/ AskStore \/ AskMemStart
    \/ AskParam \/ AskCond \/ AskLoop \/ AskLoopMulti \/ AskProj
    \/ AskFunc \/ AskEndFunc \/ AskCall \/ AskAddFunc \/ AskKeepFuncs

Next == (count < MaxRequests /\ Request) \/ Finished

Spec == Init /\ [][Next]_vars

-----------------------------------------------------------------------------
(* Every node is in the shape its op has, a constant fits its type, and     *)
(* operands are older than the node that uses them: the graph has no cycle. *)
TypeOK ==
    /\ DOMAIN w = DOMAIN EmptyWorld
    /\ \A id \in Ids : TypedNode(w.nodes[id])
    /\ OperandsOlder(w)
    /\ w.interned \subseteq Ids
    /\ ret \in Ids \cup {NONE}
    /\ count \in 0 .. MaxRequests

(* Structural equality is identity: two nodes of the value strand that      *)
(* compare equal are one node, whatever was asked for in between.           *)
HashConsed ==
    \A i, j \in Ids :
        Shared(w.nodes[i]) /\ NodeEq(w.nodes[i], w.nodes[j]) => i = j

Asked(u, op, a, b) == IF op \in CmpOps THEN Cmp(u, op, a, b) ELSE Binop(u, op, a, b)

(* A commutative operation asked for with its operands one way, the older   *)
(* first, and then the other is one node, if it compares or its operands    *)
(* have one type.  Two unknowns of different types are two nodes, of the    *)
(* same operands in the same order: the result has the type of the operand  *)
(* that was given first.                                                    *)
CommutedOnce ==
    \A op \in Commutative \cap Ops, a, b \in Values : a < b =>
        LET r == Asked(w, op, a, b)
            q == Asked(r.w, op, b, a)
        IN  IF op \in CmpOps \/ Type(w, a) = Type(w, b) THEN q = Hit(r.w, r.id)
            ELSE \/ IsConst(w, a) \/ IsConst(w, b)
                 \/ /\ q.id # r.id
                    /\ NodeEq(q.w.nodes[q.id],
                              [r.w.nodes[r.id] EXCEPT !.type = Type(w, b)])

(* Each entry of a side table belongs to exactly one node, each region node *)
(* to one entry: node comparison does not look at the entry.                *)
SideTablesOwned == Owns(w)

(* Asking again for a node that is there, as the optimizer's Cloner does,   *)
(* gives the node itself: what the constructors make is a normal form.      *)
Rebuilt(id) ==
    LET n == w.nodes[id]
    IN  CASE n.op \in BinOps -> Binop(w, n.op, n.ins[1], n.ins[2])
          [] n.op \in CmpOps -> Cmp(w, n.op, n.ins[1], n.ins[2])
          [] n.op = "Neg" -> Neg(w, n.ins[1])
          [] n.op = "Not" -> BitNot(w, n.ins[1])
          [] n.op = "Select" -> Select(w, n.ins[1], n.ins[2], n.ins[3])
          [] OTHER -> Hit(w, id)

RebuildIsIdentity == \A id \in Ids : Rebuilt(id) = Hit(w, id)
=============================================================================
