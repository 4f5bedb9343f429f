------------------------------ MODULE WorldProofs ------------------------------
(***************************************************************************)
(* Theorems about World, for any widths, any set of constructors and any   *)
(* number of requests, from any well made world; and, in the second half,  *)
(* about Reductions.                                                       *)
(***************************************************************************)
EXTENDS World, Reductions, SequenceTheorems, Recursion

(* The nodes of u are still there in v, unchanged. *)
Grown(u, v) ==
    /\ DOMAIN u.nodes \subseteq DOMAIN v.nodes
    /\ \A id \in DOMAIN u.nodes : v.nodes[id] = u.nodes[id]

(* What every constructor gives: a well made world that has grown, and one  *)
(* of its nodes.                                                            *)
Step(u, r) ==
    /\ WellMade(r.w)
    /\ Grown(u, r.w)
    /\ r.id \in DOMAIN r.w.nodes

(* A node that may be put into u. *)
Fits(u, n) ==
    /\ Operands(n) \subseteq DOMAIN u.nodes
    /\ InOrder(u, n)

-----------------------------------------------------------------------------
(* Lookup and growth of the arena. *)
LEMMA ArenaDomain ==
    ASSUME NEW u, WellMade(u)
    PROVE /\ Len(u.nodes) \in Nat
          /\ DOMAIN u.nodes = 1 .. Len(u.nodes)
BY DEF WellMade

(* The empty sequence is one over any set. *)
LEMMA EmptySeqOf ==
    ASSUME NEW S
    PROVE <<>> \in Seq(S)
BY SMT

(* A function on 1 .. n is a sequence. *)
LEMMA FunctionIsSeq ==
    ASSUME NEW n \in Nat, NEW S, NEW f \in [1 .. n -> S]
    PROVE f \in Seq(S)
BY SMT

(* A sequence over a set is one over every larger set. *)
LEMMA SeqOfMore ==
    ASSUME NEW S, NEW T, S \subseteq T, NEW s \in Seq(S)
    PROVE s \in Seq(T)
BY SMT

(* Appending a node leaves the ids of the others. *)
LEMMA ArenaAppend ==
    ASSUME NEW s, s \in Seq(Range(s)), NEW n
    PROVE LET t == Append(s, n)
          IN  /\ t \in Seq(Range(t))
              /\ Len(t) = Len(s) + 1
              /\ DOMAIN t = 1 .. Len(s) + 1
              /\ \A i \in 1 .. Len(s) : t[i] = s[i]
              /\ t[Len(s) + 1] = n
<1> DEFINE t == Append(s, n)
           S == Range(s) \cup {n}
<1>1. s \in Seq(S)
  BY SMT
<1>2. t \in Seq(S) /\ Len(t) = Len(s) + 1
  BY <1>1, SMT
<1>3. /\ DOMAIN t = 1 .. Len(s) + 1
      /\ \A i \in 1 .. Len(s) : t[i] = s[i]
      /\ t[Len(s) + 1] = n
  BY <1>1, SMT
<1>4. t \in Seq(Range(t))
  BY <1>2, <1>3, SMT DEF Range
<1> QED
  BY <1>2, <1>3, <1>4

(* Growth does not disturb the order of a node's operands. *)
LEMMA InOrderKept ==
    ASSUME NEW u, NEW v, Grown(u, v), NEW n, InOrder(u, n)
    PROVE InOrder(v, n)
<1> SUFFICES ASSUME n.op \in Commutative
             PROVE InOrder(v, n)
  BY DEF InOrder
<1>1. n.ins \in Seq(DOMAIN u.nodes) /\ Len(n.ins) = 2
  BY DEF InOrder
<1>2. n.ins[1] \in DOMAIN u.nodes /\ n.ins[2] \in DOMAIN u.nodes
  BY <1>1, SMT
<1>3. n.ins \in Seq(DOMAIN v.nodes)
  BY <1>1, SeqOfMore DEF Grown
<1>4. \A id \in DOMAIN u.nodes : IsConst(v, id) <=> IsConst(u, id)
  BY DEF IsConst, Op, Grown
<1> QED
  BY <1>1, <1>2, <1>3, <1>4 DEF InOrder

Next1(u) == Len(u.nodes) + 1

(* One more node, entered into the table or of a kind the table never holds. *)
LEMMA GrowStep ==
    ASSUME NEW u, WellMade(u), NEW n, Fits(u, n), NEW v,
           DOMAIN v = DOMAIN u,
           v.nodes = Append(u.nodes, n),
           \/ v.interned = u.interned /\ ~Shared(n)
           \/ /\ v.interned = u.interned \cup {Next1(u)}
              /\ \A id \in u.interned : ~NodeEq(u.nodes[id], n)
    PROVE Step(u, [w |-> v, id |-> Next1(u)])
<1> DEFINE new == Next1(u)
<1>1. /\ v.nodes \in Seq(Range(v.nodes))
      /\ DOMAIN v.nodes = DOMAIN u.nodes \cup {new}
      /\ DOMAIN v.nodes = 1 .. new /\ new \in Nat
      /\ DOMAIN u.nodes = 1 .. new - 1
      /\ \A i \in DOMAIN u.nodes : v.nodes[i] = u.nodes[i]
      /\ v.nodes[new] = n
  BY ArenaAppend, ArenaDomain, SMT DEF WellMade, Next1
<1> HIDE DEF new
<1>2. Grown(u, v)
  BY <1>1 DEF Grown
<1>3. \A id \in DOMAIN v.nodes : Operands(v.nodes[id]) \subseteq 1 .. id - 1
  BY <1>1, SMT DEF WellMade, OperandsOlder, Fits
<1>4. \A m : InOrder(u, m) => InOrder(v, m)
  BY <1>2, InOrderKept
<1>5. \A id \in DOMAIN v.nodes : InOrder(v, v.nodes[id])
  BY <1>1, <1>4 DEF WellMade, Fits
<1>6. /\ v.interned \subseteq DOMAIN v.nodes
      /\ \A id \in DOMAIN v.nodes : Shared(v.nodes[id]) => id \in v.interned
  BY <1>1, Zenon DEF WellMade, new
<1>7. ASSUME NEW i \in v.interned, NEW j \in v.interned,
             NodeEq(v.nodes[i], v.nodes[j])
      PROVE i = j
  <2>1. u.interned \subseteq DOMAIN u.nodes
    BY DEF WellMade
  <2>2. \A k \in v.interned : k \in u.interned \/ k = new
    BY DEF new
  <2>3. CASE i \in u.interned /\ j \in u.interned
    BY <1>1, <1>7, <2>1, <2>3, Zenon DEF WellMade
  <2>4. CASE i = new /\ j = new
    BY <2>4
  <2>5. CASE i \in u.interned /\ j = new
    <3>1. NodeEq(u.nodes[i], n)
      BY <1>1, <1>7, <2>1, <2>5
    <3>2. new \notin u.interned
      BY <1>1, <2>1, SMT
    <3> QED
      BY <2>5, <3>1, <3>2 DEF new
  <2>6. CASE j \in u.interned /\ i = new
    <3>1. NodeEq(n, u.nodes[j])
      BY <1>1, <1>7, <2>1, <2>6
    <3>2. NodeEq(u.nodes[j], n)
      BY <3>1 DEF NodeEq
    <3>3. new \notin u.interned
      BY <1>1, <2>1, SMT
    <3> QED
      BY <2>6, <3>2, <3>3 DEF new
  <2> QED
    BY <2>2, <2>3, <2>4, <2>5, <2>6
<1>8. WellMade(v)
  BY <1>1, <1>3, <1>5, <1>6, <1>7 DEF WellMade, OperandsOlder
<1> QED
  BY <1>1, <1>2, <1>8 DEF Step, new

(* Answering with a node there is changes nothing. *)
LEMMA StayStep ==
    ASSUME NEW u, WellMade(u), NEW id \in DOMAIN u.nodes
    PROVE Step(u, Hit(u, id))
BY DEF Step, Grown, Hit

(* A node of a kind that is never shared may be made without a lookup. *)
LEMMA FreshStep ==
    ASSUME NEW u, WellMade(u), NEW n, ~Shared(n), Fits(u, n)
    PROVE Step(u, Fresh(u, n))
<1> DEFINE v == [u EXCEPT !.nodes = Append(@, n)]
<1>1. /\ DOMAIN v = DOMAIN u /\ v.nodes = Append(u.nodes, n)
      /\ v.interned = u.interned
  BY SMT DEF WellMade, EmptyWorld
<1> HIDE DEF v
<1>2. Step(u, [w |-> v, id |-> Next1(u)])
  BY <1>1, GrowStep
<1> QED
  BY <1>2 DEF Fresh, Next1, v

(* World::intern: what is found is returned, what is not is made and entered. *)
LEMMA InternStep ==
    ASSUME NEW u, WellMade(u), NEW n, Fits(u, n)
    PROVE Step(u, Intern(u, n))
<1> DEFINE known == {id \in u.interned : NodeEq(u.nodes[id], n)}
           made == Fresh(u, n)
           v == [made.w EXCEPT !.interned = @ \cup {made.id}]
<1>1. CASE known # {}
  <2> DEFINE id == CHOOSE k \in known : TRUE
  <2>1. id \in known
    BY <1>1
  <2>2. id \in DOMAIN u.nodes
    BY <2>1 DEF WellMade
  <2>3. Intern(u, n) = Hit(u, id)
    BY <1>1 DEF Intern, Hit
  <2> QED
    BY <2>2, <2>3, StayStep
<1>2. CASE known = {}
  <2>1. /\ DOMAIN v = DOMAIN u /\ v.nodes = Append(u.nodes, n)
        /\ v.interned = u.interned \cup {Next1(u)}
    BY SMT DEF WellMade, EmptyWorld, Fresh, Next1
  <2>2. \A id \in u.interned : ~NodeEq(u.nodes[id], n)
    BY <1>2
  <2>3. Intern(u, n) = [w |-> v, id |-> Next1(u)]
    BY <1>2, SMT DEF Intern, Fresh, Next1
  <2> HIDE DEF v
  <2> QED
    BY <2>1, <2>2, <2>3, GrowStep
<1> QED
  BY <1>1, <1>2

-----------------------------------------------------------------------------
(* The constructors of values. *)
LEMMA StepTrans ==
    ASSUME NEW u, NEW r, NEW q, Step(u, r), Step(r.w, q)
    PROVE Step(u, q)
BY Zenon DEF Step, Grown

(* A node that is not commutative fits wherever its operands are. *)
LEMMA PlainFits ==
    ASSUME NEW u, NEW n,
           n.op \notin Commutative,
           n.ins \in Seq(DOMAIN u.nodes),
           n.state_in \in DOMAIN u.nodes \cup {NONE}
    PROVE Fits(u, n)
<1>1. Range(n.ins) \subseteq DOMAIN u.nodes
  BY SMT DEF Range
<1> QED
  BY <1>1 DEF Fits, Operands, InOrder

(* World::konst, also of a value its type does not hold. *)
LEMMA KonstStep ==
    ASSUME NEW u, WellMade(u), NEW v, NEW t
    PROVE Step(u, Konst(u, v, t))
<1> DEFINE n == [Node("ConstInt", t, <<>>) EXCEPT !.imm = Trunc(v, t)]
<1>1. /\ n.op \notin Commutative
      /\ n.ins \in Seq(DOMAIN u.nodes)
      /\ n.state_in \in DOMAIN u.nodes \cup {NONE}
  BY SMT DEF Node, Commutative
<1> HIDE DEF n
<1>2. Step(u, Intern(u, n))
  BY <1>1, PlainFits, InternStep
<1> QED
  BY <1>2 DEF Konst, n

(* World::konst_bool. *)
LEMMA KonstBoolStep ==
    ASSUME NEW u, WellMade(u), NEW b
    PROVE Step(u, KonstBool(u, b))
<1> DEFINE n == [Node("ConstBool", "bool", <<>>) EXCEPT !.imm = IF b THEN 1 ELSE 0]
<1>1. /\ n.op \notin Commutative
      /\ n.ins \in Seq(DOMAIN u.nodes)
      /\ n.state_in \in DOMAIN u.nodes \cup {NONE}
  BY SMT DEF Node, Commutative
<1> HIDE DEF n
<1>2. Step(u, Intern(u, n))
  BY <1>1, PlainFits, InternStep
<1> QED
  BY <1>2 DEF KonstBool, n

(* Interning a node that is not commutative. *)
LEMMA PlainStep ==
    ASSUME NEW u, WellMade(u), NEW op, op \notin Commutative, NEW t,
           NEW ins \in Seq(DOMAIN u.nodes)
    PROVE Step(u, Intern(u, Node(op, t, ins)))
<1>1. Fits(u, Node(op, t, ins))
  BY PlainFits, SMT DEF Node
<1> QED
  BY <1>1, InternStep

(* Up to three elements make a sequence. *)
LEMMA ShortSeqs ==
    ASSUME NEW S, NEW a \in S, NEW b \in S, NEW c \in S
    PROVE <<a>> \in Seq(S) /\ <<a, b>> \in Seq(S) /\ <<a, b, c>> \in Seq(S)
BY SMT

(* The shift a multiplication by a power of two becomes. *)
LEMMA ShiftStep ==
    ASSUME NEW u, WellMade(u), NEW a \in DOMAIN u.nodes, NEW k \in DOMAIN u.nodes
    PROVE Step(u, ShiftBy(u, a, k))
<1>1. <<a, k>> \in Seq(DOMAIN u.nodes)
  BY ShortSeqs
<1>2. Step(u, Intern(u, Node("Shl", Type(u, a), <<a, k>>)))
  BY <1>1, PlainStep DEF Commutative
<1>3. Step(u, Hit(u, a))
  BY StayStep
<1> QED
  BY <1>2, <1>3 DEF ShiftBy

(* A commutative node fits when its operands stand in canonical order. *)
LEMMA PairFits ==
    ASSUME NEW u, NEW op, NEW t, NEW a \in DOMAIN u.nodes, NEW b \in DOMAIN u.nodes,
           op \in Commutative =>
               IF op \in CmpOps THEN a < b
               ELSE ~IsConst(u, a) /\ (IsConst(u, b) \/ a <= b)
    PROVE Fits(u, Node(op, t, <<a, b>>))
<1> DEFINE n == Node(op, t, <<a, b>>)
<1>1. /\ n.op = op /\ n.ins = <<a, b>> /\ n.state_in = NONE
      /\ n.ins[1] = a /\ n.ins[2] = b /\ Len(n.ins) = 2
  BY DEF Node
<1>2. n.ins \in Seq(DOMAIN u.nodes)
  BY <1>1, ShortSeqs
<1>3. Range(n.ins) \subseteq DOMAIN u.nodes
  BY <1>2, SMT DEF Range
<1> HIDE DEF n
<1> QED
  BY <1>1, <1>2, <1>3 DEF Fits, Operands, InOrder, n

(* World::binop: folds, identities, strength reduction and the swap. *)
LEMMA BinopStep ==
    ASSUME NEW u, WellMade(u), NEW op \in BinOps,
           NEW first \in DOMAIN u.nodes, NEW second \in DOMAIN u.nodes
    PROVE Step(u, Binop(u, op, first, second))
<1> DEFINE t == Type(u, first)
           x == Imm(u, first)
           y == Imm(u, second)
           a == IF Swaps(u, op, first, second) THEN second ELSE first
           b == IF Swaps(u, op, first, second) THEN first ELSE second
           powers == IF op = "Mul" /\ IsConst(u, b) THEN Log(Imm(u, b)) ELSE {}
           times == Konst(u, CHOOSE k \in powers : TRUE, t)
           folded == IsConst(u, first) /\ IsConst(u, second) /\ ~FoldFails(op, y)
<1>1. a \in DOMAIN u.nodes /\ b \in DOMAIN u.nodes
  OBVIOUS
<1>2. Step(u, Konst(u, FoldBinop(op, x, y, t), t)) /\ Step(u, Konst(u, 0, t))
  BY KonstStep
<1>3. Step(u, Hit(u, a))
  BY <1>1, StayStep
<1>4. Step(u, ShiftBy(times.w, a, times.id))
  <2>1. Step(u, times)
    BY KonstStep
  <2>2. WellMade(times.w) /\ a \in DOMAIN times.w.nodes /\ times.id \in DOMAIN times.w.nodes
    BY <1>1, <2>1 DEF Step, Grown
  <2> HIDE DEF times, a
  <2>3. Step(times.w, ShiftBy(times.w, a, times.id))
    BY <2>2, ShiftStep
  <2> QED
    BY <2>1, <2>3, StepTrans
<1>5. ASSUME ~folded
      PROVE Step(u, Intern(u, Node(op, t, <<a, b>>)))
  <2>1. DOMAIN u.nodes \subseteq Nat
    BY ArenaDomain, SMT
  <2>2. ASSUME op \in Commutative
        PROVE op \notin CmpOps /\ ~IsConst(u, a) /\ (IsConst(u, b) \/ a <= b)
    <3>1. op \notin CmpOps /\ ~FoldFails(op, y)
      BY <2>2 DEF Commutative, CmpOps, BinOps, FoldFails
    <3>2. ~(IsConst(u, first) /\ IsConst(u, second))
      BY <1>5, <3>1
    <3>3. CASE Swaps(u, op, first, second)
      <4>1. a = second /\ b = first /\ ~IsConst(u, second)
        BY <3>3 DEF Swaps
      <4>2. IsConst(u, first) \/ second <= first
        BY <2>1, <3>3, SMT DEF Swaps
      <4> QED
        BY <3>1, <4>1, <4>2
    <3>4. CASE ~Swaps(u, op, first, second)
      <4>1. a = first /\ b = second
        BY <3>4
      <4>2. ~IsConst(u, first) /\ (IsConst(u, second) \/ ~(first > second))
        BY <2>2, <3>2, <3>4 DEF Swaps
      <4>3. ~(first > second) => first <= second
        BY <2>1, SMT
      <4> QED
        BY <3>1, <4>1, <4>2, <4>3
    <3> QED
      BY <3>3, <3>4
  <2> HIDE DEF a, b, t
  <2>3. Fits(u, Node(op, t, <<a, b>>))
    BY <1>1, <2>2, PairFits
  <2> QED
    BY <2>3, InternStep
<1>6. Binop(u, op, first, second) =
        IF folded THEN Konst(u, FoldBinop(op, x, y, t), t)
        ELSE IF KeepsFirst(u, op, a, b) THEN Hit(u, a)
        ELSE IF GivesZero(u, op, a, b) THEN Konst(u, 0, t)
        ELSE IF powers # {} THEN ShiftBy(times.w, a, times.id)
        ELSE Intern(u, Node(op, t, <<a, b>>))
  BY Zenon DEF Binop
<1> HIDE DEF t, x, y, a, b, powers, times, folded
<1> QED
  BY <1>2, <1>3, <1>4, <1>5, <1>6

(* World::cmp: what is interned after the swap stands in order. *)
LEMMA CmpStep ==
    ASSUME NEW u, WellMade(u), NEW op \in CmpOps,
           NEW first \in DOMAIN u.nodes, NEW second \in DOMAIN u.nodes
    PROVE Step(u, Cmp(u, op, first, second))
<1> DEFINE swap == op \in Commutative /\ first > second
           ins == IF swap THEN <<second, first>> ELSE <<first, second>>
<1>1. \A b : Step(u, KonstBool(u, b))
  BY KonstBoolStep
<1>2. ASSUME first # second
      PROVE Step(u, Intern(u, Node(op, "bool", ins)))
  <2>1. first \in Nat /\ second \in Nat
    BY ArenaDomain, SMT
  <2>2. CASE swap
    <3>1. second < first
      BY <2>1, <2>2, SMT
    <3>2. Fits(u, Node(op, "bool", <<second, first>>))
      BY <3>1, PairFits
    <3> QED
      BY <2>2, <3>2, InternStep
  <2>3. CASE ~swap
    <3>1. op \in Commutative => first < second
      BY <1>2, <2>1, <2>3, SMT
    <3>2. Fits(u, Node(op, "bool", <<first, second>>))
      BY <3>1, PairFits
    <3> QED
      BY <2>3, <3>2, InternStep
  <2> QED
    BY <2>2, <2>3
<1>3. Cmp(u, op, first, second) =
        IF IsConst(u, first) /\ IsConst(u, second)
        THEN KonstBool(u, Holds(op, Imm(u, first), Imm(u, second)))
        ELSE IF first = second
        THEN KonstBool(u, op \in {"CmpEq", "CmpLe", "CmpGe"})
        ELSE Intern(u, Node(op, "bool", ins))
  BY Zenon DEF Cmp
<1> HIDE DEF ins
<1> QED
  BY <1>1, <1>2, <1>3

(* World::neg and World::bit_not. *)
LEMMA UnaryStep ==
    ASSUME NEW u, WellMade(u), NEW a \in DOMAIN u.nodes
    PROVE Step(u, Neg(u, a)) /\ Step(u, BitNot(u, a))
<1>1. <<a>> \in Seq(DOMAIN u.nodes)
  BY ShortSeqs
<1>2. \A t : \A op \in {"Neg", "Not"} : Step(u, Intern(u, Node(op, t, <<a>>)))
  BY <1>1, PlainStep DEF Commutative
<1> QED
  BY <1>2, KonstStep DEF Neg, BitNot

(* World::select. *)
LEMMA SelectStep ==
    ASSUME NEW u, WellMade(u), NEW c \in DOMAIN u.nodes,
           NEW a \in DOMAIN u.nodes, NEW b \in DOMAIN u.nodes
    PROVE Step(u, Select(u, c, a, b))
<1>1. <<c, a, b>> \in Seq(DOMAIN u.nodes)
  BY ShortSeqs
<1>2. Step(u, Intern(u, Node("Select", Type(u, a), <<c, a, b>>)))
  BY <1>1, PlainStep DEF Commutative
<1>3. Step(u, Hit(u, a)) /\ Step(u, Hit(u, b))
  BY StayStep
<1> QED
  BY <1>2, <1>3 DEF Select

-----------------------------------------------------------------------------
(* The constructors of memory operations and regions. *)
LEMMA EffectStep ==
    ASSUME NEW u, WellMade(u), NEW n,
           n.op \in {"Load", "Store", "Call"}, n.state_in \in DOMAIN u.nodes,
           n.ins \in Seq(DOMAIN u.nodes)
    PROVE Step(u, Fresh(u, n))
<1>1. n.state_in # NONE
  BY ArenaDomain, SMT DEF NONE
<1>2. ~Shared(n)
  BY <1>1 DEF Shared, ConstOps, BinOps, CmpOps
<1>3. Fits(u, n)
  BY PlainFits DEF Commutative
<1> QED
  BY <1>2, <1>3, FreshStep

(* The tables of parts take no part in what makes a world well made. *)
LEMMA SameArena ==
    ASSUME NEW u, WellMade(u), NEW v, DOMAIN v = DOMAIN u,
           v.nodes = u.nodes, v.interned = u.interned
    PROVE WellMade(v) /\ Grown(u, v)
<1>1. Grown(u, v)
  BY DEF Grown
<1>2. \A n : InOrder(u, n) => InOrder(v, n)
  BY <1>1, InOrderKept
<1> QED
  BY <1>1, <1>2 DEF WellMade, OperandsOlder

(* A node in the World v that u became by growing in its tables only. *)
LEMMA RegionStep ==
    ASSUME NEW u, WellMade(u), NEW v, DOMAIN v = DOMAIN u,
           v.nodes = u.nodes, v.interned = u.interned,
           NEW n, n.op \in RegionOps \cup {"Param", "Call"},
           n.ins \in Seq(DOMAIN u.nodes), n.state_in \in DOMAIN u.nodes \cup {NONE}
    PROVE Step(u, Fresh(v, n))
<1>1. WellMade(v) /\ Grown(u, v)
  BY SameArena
<1>2. ~Shared(n) /\ n.op \notin Commutative
  BY DEF Shared, ConstOps, BinOps, CmpOps, RegionOps, Commutative
<1>3. Fits(v, n)
  BY <1>2, PlainFits
<1>4. Step(v, Fresh(v, n))
  BY <1>1, <1>2, <1>3, FreshStep
<1> QED
  BY <1>1, <1>4 DEF Step, Grown

(* World::make_cond, with its answers that make no region. *)
LEMMA CondStep ==
    ASSUME NEW u, WellMade(u), NEW p \in DOMAIN u.nodes, NEW t,
           NEW yields, \A k \in DOMAIN yields : yields[k] \in DOMAIN u.nodes,
           {1, 2} \subseteq DOMAIN yields
    PROVE Step(u, MakeCond(u, p, t, yields))
<1> DEFINE false == KonstBool(u, FALSE)
           v == [u EXCEPT !.conds = Append(@, yields)]
           n == [Node("Cond", t, <<p>>) EXCEPT !.region = Len(u.conds) + 1]
           chosen == ArmOf(Imm(u, p), yields)
<1>1. \A k \in DOMAIN yields : Step(u, Hit(u, yields[k]))
  BY StayStep
<1>2. Step(u, Hit(u, p))
  BY StayStep
<1>3. Step(u, Cmp(false.w, "CmpEq", p, false.id))
  <2>1. Step(u, false)
    BY KonstBoolStep
  <2>2. /\ WellMade(false.w) /\ p \in DOMAIN false.w.nodes
        /\ false.id \in DOMAIN false.w.nodes
    BY <2>1 DEF Step, Grown
  <2> HIDE DEF false
  <2>3. Step(false.w, Cmp(false.w, "CmpEq", p, false.id))
    BY <2>2, CmpStep DEF CmpOps
  <2> QED
    BY <2>1, <2>3, StepTrans
<1>4. Step(u, NewCond(u, p, t, yields))
  <2>1. DOMAIN v = DOMAIN u /\ v.nodes = u.nodes /\ v.interned = u.interned
    BY SMT DEF WellMade, EmptyWorld
  <2>2. /\ n.op \in RegionOps \cup {"Param", "Call"}
        /\ n.ins = <<p>> /\ n.state_in = NONE
    BY DEF Node, RegionOps
  <2>3. n.ins \in Seq(DOMAIN u.nodes)
    BY <2>2, ShortSeqs
  <2> HIDE DEF v, n
  <2>4. Step(u, Fresh(v, n))
    BY <2>1, <2>2, <2>3, RegionStep
  <2> QED
    BY <2>4 DEF NewCond, v, n
<1>5. MakeCond(u, p, t, yields) =
        IF IsConst(u, p) /\ chosen \in DOMAIN yields THEN Hit(u, yields[chosen])
        ELSE IF Len(yields) = 2 /\ yields[1] = yields[2] THEN Hit(u, yields[1])
        ELSE IF YieldTruth(u, p, t, yields, 0, 1) THEN Hit(u, p)
        ELSE IF YieldTruth(u, p, t, yields, 1, 0)
        THEN Cmp(false.w, "CmpEq", p, false.id)
        ELSE NewCond(u, p, t, yields)
  BY Zenon DEF MakeCond
<1> HIDE DEF false, v, n, chosen
<1> QED
  BY <1>1, <1>2, <1>3, <1>4, <1>5

(* World::make_loop and World::make_loop_multi. *)
LEMMA LoopStep ==
    ASSUME NEW u, WellMade(u), NEW inits \in Seq(DOMAIN u.nodes), NEW t, NEW ps,
           NEW is_break, NEW break_val, NEW break_vals, NEW next
    PROVE Step(u, NewLoop(u, inits, t, ps, is_break, break_val, break_vals, next))
<1> DEFINE info == [params |-> ps, is_break |-> is_break, break_val |-> break_val,
                    break_vals |-> break_vals, next_vals |-> next]
           v == [u EXCEPT !.loops = Append(@, info)]
           n == [Node("Loop", t, inits) EXCEPT !.region = Len(u.loops) + 1]
<1>1. DOMAIN v = DOMAIN u /\ v.nodes = u.nodes /\ v.interned = u.interned
  BY SMT DEF WellMade, EmptyWorld
<1>2. /\ n.op \in RegionOps \cup {"Param", "Call"}
      /\ n.ins = inits /\ n.state_in = NONE
  BY DEF Node, RegionOps
<1>3. NewLoop(u, inits, t, ps, is_break, break_val, break_vals, next) = Fresh(v, n)
  BY DEF NewLoop
<1> HIDE DEF v, n
<1> QED
  BY <1>1, <1>2, <1>3, RegionStep

(* World::proj. *)
LEMMA ProjStep ==
    ASSUME NEW u, WellMade(u), NEW region \in DOMAIN u.nodes, NEW k, NEW t
    PROVE Step(u, Proj(u, region, k, t))
<1> DEFINE n == [Node("Proj", t, <<region>>) EXCEPT !.imm = k]
<1>1. n.op = "Proj" /\ n.ins = <<region>> /\ n.state_in = NONE
  BY DEF Node
<1>2. n.ins \in Seq(DOMAIN u.nodes)
  BY <1>1, ShortSeqs
<1> HIDE DEF n
<1>3. Step(u, Intern(u, n))
  BY <1>1, <1>2, PlainFits, InternStep DEF Commutative
<1> QED
  BY <1>3 DEF Proj, n

(* World::param: params are never shared, whatever their index. *)
LEMMA ParamStep ==
    ASSUME NEW u, WellMade(u), NEW t, NEW k
    PROVE Step(u, Param(u, t, k))
<1> DEFINE n == [Node("Param", t, <<>>) EXCEPT !.imm = k]
<1>1. n.op = "Param" /\ n.ins = <<>> /\ n.state_in = NONE
  BY DEF Node
<1>2. n.ins \in Seq(DOMAIN u.nodes)
  BY <1>1, EmptySeqOf
<1> HIDE DEF n
<1>3. Step(u, Fresh(u, n))
  BY <1>1, <1>2, RegionStep
<1> QED
  BY <1>3 DEF Param, n
(* A call that answers with no new node. *)
Kept(u, v) == WellMade(v) /\ Grown(u, v)

(* Appending several nodes leaves the ids of the others. *)
LEMMA ArenaConcat ==
    ASSUME NEW S, NEW s \in Seq(S), NEW ps \in Seq(S)
    PROVE LET t == s \o ps
          IN  /\ t \in Seq(Range(t))
              /\ Len(t) = Len(s) + Len(ps)
              /\ DOMAIN t = 1 .. Len(s) + Len(ps)
              /\ \A i \in 1 .. Len(s) : t[i] = s[i]
              /\ \A i \in Len(s) + 1 .. Len(t) :
                    i - Len(s) \in DOMAIN ps /\ t[i] = ps[i - Len(s)]
<1> DEFINE t == s \o ps
<1>1. t \in Seq(S) /\ Len(t) = Len(s) + Len(ps)
  BY SMT
<1>2. /\ Len(s) \in Nat /\ Len(ps) \in Nat
      /\ DOMAIN s = 1 .. Len(s) /\ DOMAIN ps = 1 .. Len(ps)
  BY SMT
<1>3. \A i \in 1 .. Len(s) + Len(ps) :
          t[i] = IF i <= Len(s) THEN s[i] ELSE ps[i - Len(s)]
  BY ConcatProperties
<1>4. DOMAIN t = 1 .. Len(s) + Len(ps)
  BY <1>1, SMT
<1> HIDE DEF t
<1>5. \A i \in 1 .. Len(s) : t[i] = s[i]
  BY <1>2, <1>3, SMT
<1>6. \A i \in Len(s) + 1 .. Len(t) : i - Len(s) \in DOMAIN ps /\ t[i] = ps[i - Len(s)]
  BY <1>1, <1>2, <1>3, SMT
<1>7. t \in Seq(Range(t))
  <2>1. t \in [1 .. Len(s) + Len(ps) -> Range(t)]
    BY <1>1, <1>4, SMT DEF Range
  <2> QED
    BY <1>2, <2>1, FunctionIsSeq, SMT
<1> QED
  BY <1>1, <1>4, <1>5, <1>6, <1>7 DEF t

(* The parameters of a function are new nodes, none of them shared. *)
LEMMA NewParamsKept ==
    ASSUME NEW u, WellMade(u), NEW T, NEW types \in Seq(T)
    PROVE Kept(u, NewParams(u, types))
<1> DEFINE ps == [i \in DOMAIN types |-> [Node("Param", types[i], <<>>) EXCEPT !.imm = i - 1]]
           v == NewParams(u, types)
           S == Range(u.nodes) \cup Range(ps)
<1>1. /\ DOMAIN v = DOMAIN u /\ v.interned = u.interned
      /\ v.nodes = u.nodes \o ps
  BY SMT DEF NewParams, WellMade, EmptyWorld
<1>2. ps \in Seq(S) /\ u.nodes \in Seq(S)
  <2>1. DOMAIN types = 1 .. Len(types) /\ Len(types) \in Nat
    BY SMT
  <2>2. \A i \in DOMAIN ps : ps[i] \in S
    BY DEF Range
  <2>3. ps \in [1 .. Len(types) -> S]
    BY <2>1, <2>2
  <2> HIDE DEF ps
  <2>4. ps \in Seq(S)
    BY <2>1, <2>3, FunctionIsSeq
  <2>5. u.nodes \in Seq(S)
    BY SeqOfMore DEF WellMade
  <2> QED
    BY <2>4, <2>5
<1>3. \A i \in DOMAIN ps : /\ ps[i].op = "Param" /\ ps[i].ins = <<>>
                           /\ ps[i].state_in = NONE
  BY SMT DEF Node
<1> HIDE DEF ps, S
<1>4. /\ v.nodes \in Seq(Range(v.nodes))
      /\ DOMAIN u.nodes \subseteq DOMAIN v.nodes
      /\ \A i \in DOMAIN u.nodes : v.nodes[i] = u.nodes[i]
      /\ \A i \in DOMAIN v.nodes : i \in DOMAIN u.nodes \/ v.nodes[i] \in Range(ps)
  <2> DEFINE s == u.nodes
  <2>1. /\ v.nodes = s \o ps /\ s \in Seq(S) /\ ps \in Seq(S)
        /\ Len(s) \in Nat /\ Len(ps) \in Nat /\ DOMAIN s = 1 .. Len(s)
    BY <1>1, <1>2, ArenaDomain, SMT
  <2>2. /\ v.nodes \in Seq(Range(v.nodes))
        /\ Len(v.nodes) = Len(s) + Len(ps)
        /\ DOMAIN v.nodes = 1 .. Len(s) + Len(ps)
        /\ \A i \in 1 .. Len(s) : v.nodes[i] = s[i]
        /\ \A i \in Len(s) + 1 .. Len(v.nodes) :
              i - Len(s) \in DOMAIN ps /\ v.nodes[i] = ps[i - Len(s)]
    BY <2>1, ArenaConcat
  <2>3. \A i \in DOMAIN v.nodes : i \in 1 .. Len(s) \/ i \in Len(s) + 1 .. Len(v.nodes)
    BY <2>1, <2>2, SMT
  <2>4. DOMAIN s \subseteq DOMAIN v.nodes
    BY <2>1, <2>2, SMT
  <2> QED
    BY <2>1, <2>2, <2>3, <2>4 DEF Range
<1>5. \A n \in Range(ps) : /\ n.op = "Param" /\ n.state_in = NONE
                           /\ Range(n.ins) = {}
  <2>1. Range(<<>>) = {}
    BY SMT DEF Range
  <2> QED
    BY <1>3, <2>1 DEF Range
<1>6. \A n \in Range(ps) : ~Shared(n) /\ Operands(n) = {}
                           /\ \A m : InOrder(m, n)
  BY <1>5 DEF Shared, ConstOps, BinOps, CmpOps, Operands, InOrder, Commutative
<1>7. \A m : InOrder(u, m) => InOrder(v, m)
  BY <1>4, InOrderKept DEF Grown
<1> HIDE DEF v
<1>8. OperandsOlder(v)
  BY <1>4, <1>6 DEF WellMade, OperandsOlder
<1>9. \A id \in DOMAIN v.nodes : InOrder(v, v.nodes[id])
  BY <1>4, <1>6, <1>7 DEF WellMade
<1>10. /\ v.interned \subseteq DOMAIN v.nodes
       /\ \A id \in DOMAIN v.nodes : Shared(v.nodes[id]) => id \in v.interned
  BY <1>1, <1>4, <1>6 DEF WellMade
<1>11. \A i, j \in v.interned : NodeEq(v.nodes[i], v.nodes[j]) => i = j
  BY <1>1, <1>4, Zenon DEF WellMade
<1> QED
  BY <1>1, <1>4, <1>8, <1>9, <1>10, <1>11 DEF WellMade, Kept, Grown, v

(* World::begin_func, with and without a state parameter. *)
LEMMA FuncStep ==
    ASSUME NEW u, WellMade(u), NEW T, NEW param_types \in Seq(T), NEW t, NEW has_state
    PROVE Step(u, BeginFunc(u, param_types, t, has_state))
<1> DEFINE types == IF has_state THEN Append(param_types, "state") ELSE param_types
           all == NewParams(u, types)
           info == [params |-> [i \in DOMAIN param_types |-> Len(u.nodes) + i],
                    state_param |-> IF has_state THEN Len(all.nodes) ELSE NONE,
                    result_type |-> t, result |-> NONE, state_result |-> NONE]
           v == [all EXCEPT !.funcs = Append(@, info)]
           n == [Node("Func", "func", <<>>) EXCEPT !.region = Len(u.funcs) + 1]
<1>1. types \in Seq(T \cup {"state"})
  <2>1. param_types \in Seq(T \cup {"state"})
    BY SeqOfMore
  <2>2. Append(param_types, "state") \in Seq(T \cup {"state"})
    BY <2>1, SMT
  <2> QED
    BY <2>1, <2>2
<1> HIDE DEF types
<1>2. Kept(u, all)
  BY <1>1, NewParamsKept
<1>3. BeginFunc(u, param_types, t, has_state) = Fresh(v, n)
  BY DEF BeginFunc, types
<1>4. DOMAIN v = DOMAIN all /\ v.nodes = all.nodes /\ v.interned = all.interned
  BY <1>2, SMT DEF Kept, WellMade, EmptyWorld
<1>5. n.op = "Func" /\ n.ins = <<>> /\ n.state_in = NONE
  BY DEF Node
<1> HIDE DEF all, v, n
<1>6. n.ins \in Seq(DOMAIN all.nodes)
  BY <1>5, EmptySeqOf
<1>7. Step(all, Fresh(v, n))
  BY <1>2, <1>4, <1>5, <1>6, RegionStep DEF Kept, RegionOps
<1> QED
  BY <1>2, <1>3, <1>7, Zenon DEF Kept, Step, Grown

(* World::call: calls are never shared. *)
LEMMA CallStep ==
    ASSUME NEW u, WellMade(u), NEW func, NEW args \in Seq(DOMAIN u.nodes),
           NEW st \in DOMAIN u.nodes \cup {NONE}
    PROVE Step(u, Call(u, func, args, st))
<1> DEFINE n == [Node("Call", Info(u, func).result_type, args)
                    EXCEPT !.state_in = st, !.imm = func]
<1>1. n.op = "Call" /\ n.ins = args /\ n.state_in = st
  BY DEF Node
<1> HIDE DEF n
<1>2. Step(u, Fresh(u, n))
  BY <1>1, RegionStep
<1> QED
  BY <1>2 DEF Call, n

(* World::load and World::store make nodes, World::pure_load shares them. *)
LEMMA MemoryStep ==
    ASSUME NEW u, WellMade(u), NEW ptr \in DOMAIN u.nodes, NEW val \in DOMAIN u.nodes,
           NEW st \in DOMAIN u.nodes, NEW t
    PROVE /\ Step(u, Load(u, ptr, st, t))
          /\ Step(u, Store(u, ptr, val, st))
          /\ Step(u, PureLoad(u, ptr, t))
<1> DEFINE load == [Node("Load", t, <<ptr>>) EXCEPT !.state_in = st]
           store == [Node("Store", "state", <<ptr, val>>) EXCEPT !.state_in = st]
<1>1. /\ load.op = "Load" /\ load.ins = <<ptr>> /\ load.state_in = st
      /\ store.op = "Store" /\ store.ins = <<ptr, val>> /\ store.state_in = st
  BY DEF Node
<1>2. <<ptr>> \in Seq(DOMAIN u.nodes) /\ <<ptr, val>> \in Seq(DOMAIN u.nodes)
  BY ShortSeqs
<1> HIDE DEF load, store
<1>3. Step(u, Fresh(u, load)) /\ Step(u, Fresh(u, store))
  BY <1>1, <1>2, EffectStep
<1>4. Step(u, Intern(u, Node("Load", t, <<ptr>>)))
  BY <1>2, PlainStep DEF Commutative
<1> QED
  BY <1>3, <1>4 DEF Load, Store, PureLoad, load, store

(* World::end_func, add_func and keep_funcs touch no node. *)
LEMMA FunctionListKept ==
    ASSUME NEW u, WellMade(u), NEW func
    PROVE /\ \A a, b : Kept(u, EndFunc(u, func, a, b).w)
          /\ Kept(u, AddFunc(u, func).w)
          /\ \A keep : Kept(u, KeepFuncs(u, keep).w)
<1>1. ASSUME NEW x
      PROVE Kept(u, [u EXCEPT !.funcs = x]) /\ Kept(u, [u EXCEPT !.module_funcs = x])
  <2>1. /\ DOMAIN [u EXCEPT !.funcs = x] = DOMAIN u
        /\ [u EXCEPT !.funcs = x].nodes = u.nodes
        /\ [u EXCEPT !.funcs = x].interned = u.interned
    BY SMT DEF WellMade, EmptyWorld
  <2>2. /\ DOMAIN [u EXCEPT !.module_funcs = x] = DOMAIN u
        /\ [u EXCEPT !.module_funcs = x].nodes = u.nodes
        /\ [u EXCEPT !.module_funcs = x].interned = u.interned
    BY SMT DEF WellMade, EmptyWorld
  <2> QED
    BY <2>1, <2>2, SameArena DEF Kept
<1> QED
  BY <1>1 DEF EndFunc, AddFunc, KeepFuncs, Hit

-----------------------------------------------------------------------------
(* The arithmetic of the folds stays within a word. *)
(* Division rounds down, and the remainder is below the divisor. *)
LEMMA Division ==
    ASSUME NEW x \in Int, NEW y \in Nat \ {0}
    PROVE  /\ x \div y \in Int
           /\ y * (x \div y) <= x
           /\ x < y * (x \div y) + y
           /\ x % y \in 0 .. y - 1
<1>1. x \div y \in Int
  OBVIOUS
<1>2. y * (x \div y) <= x
  BY SMT
<1>3. x < y * (x \div y) + y
  BY SMT
<1>4. x % y \in 0 .. y - 1
  OBVIOUS
<1> QED
  BY <1>1, <1>2, <1>3, <1>4

(* A set of n + 1 elements has twice the subsets of one of n. *)
LEMMA PowerDoubles ==
    ASSUME NEW n \in Nat
    PROVE  2 ^ n \in Nat /\ 2 ^ n >= 1 /\ 2 ^ (n + 1) = 2 * 2 ^ n
<1> DEFINE A == SUBSET (1 .. n)
           B == {X \cup {n + 1} : X \in A}
           f == [X \in A |-> X \cup {n + 1}]
<1>1. /\ IsFiniteSet(1 .. n) /\ Cardinality(1 .. n) = n
      /\ IsFiniteSet(1 .. n + 1) /\ Cardinality(1 .. n + 1) = n + 1
  BY FS_Interval
<1>2. IsFiniteSet(A) /\ Cardinality(A) = 2 ^ n
  BY <1>1, FS_SUBSET
<1>3. Cardinality(SUBSET (1 .. n + 1)) = 2 ^ (n + 1)
  BY <1>1, FS_SUBSET
<1>4. SUBSET (1 .. n + 1) = A \cup B
  <2>1. 1 .. n + 1 = (1 .. n) \cup {n + 1}
    OBVIOUS
  <2>2. ASSUME NEW X \in SUBSET (1 .. n + 1), X \notin A PROVE X \in B
    <3>1. X = (X \ {n + 1}) \cup {n + 1} /\ X \ {n + 1} \in A
      BY <2>1, <2>2
    <3> QED
      BY <3>1
  <2>3. ASSUME NEW X \in A \cup B PROVE X \in SUBSET (1 .. n + 1)
    BY <2>1
  <2> QED
    BY <2>2, <2>3
<1>5. A \cap B = {}
  OBVIOUS
<1>6. f \in Bijection(A, B)
  <2>1. \A X, Y \in A : X \cup {n + 1} = Y \cup {n + 1} => X = Y
    <3> SUFFICES ASSUME NEW X \in A, NEW Y \in A, X \cup {n + 1} = Y \cup {n + 1}
                 PROVE  X = Y
      OBVIOUS
    <3>1. n + 1 \notin X /\ n + 1 \notin Y
      OBVIOUS
    <3> QED
      BY <3>1
  <2>2. \A X \in A : f[X] = X \cup {n + 1} /\ f[X] \in B
    OBVIOUS
  <2>3. \A Y \in B : \E X \in A : f[X] = Y
    OBVIOUS
  <2>4. f \in [A -> B]
    BY <2>2
  <2> HIDE DEF A, B, f
  <2>5. f \in Injection(A, B)
    BY <2>1, <2>2, <2>4, Zenon DEF Injection, IsInjective
  <2>6. f \in Surjection(A, B)
    BY <2>3, <2>4, Zenon DEF Surjection
  <2> QED
    BY <2>5, <2>6 DEF Bijection
<1>7. IsFiniteSet(B) /\ Cardinality(B) = Cardinality(A)
  <2> HIDE DEF A, B, f
  <2>1. ExistsBijection(A, B)
    BY <1>6 DEF ExistsBijection
  <2> QED
    BY <1>2, <2>1, FS_Bijection
<1>8. {} \in A /\ Cardinality(A) # 0
  BY <1>2, FS_EmptySet
<1> HIDE DEF A, B, f
<1>9. Cardinality(A \cup B) = Cardinality(A) + Cardinality(B) - Cardinality({})
  BY <1>2, <1>5, <1>7, FS_Union
<1>10. Cardinality(A) \in Nat /\ Cardinality({}) = 0
  BY <1>2, FS_CardinalityType, FS_EmptySet
<1>11. 2 ^ n \in Nat /\ 2 ^ n # 0
  BY <1>2, <1>8, <1>10
<1>12. Cardinality(A \cup B) = Cardinality(A) + Cardinality(A)
  BY <1>7, <1>9, <1>10
<1>13. Cardinality(A \cup B) = 2 ^ (n + 1)
  BY <1>3, <1>4, Zenon
<1>14. 2 ^ (n + 1) = 2 ^ n + 2 ^ n
  BY <1>2, <1>12, <1>13, Zenon
<1> QED
  BY <1>11, <1>14

(* Powers of two grow with their exponents. *)
LEMMA PowerGrows ==
    ASSUME NEW n \in Nat, NEW m \in 0 .. n
    PROVE  2 ^ m <= 2 ^ n
<1>1. /\ IsFiniteSet(1 .. n) /\ Cardinality(1 .. n) = n
      /\ IsFiniteSet(1 .. m) /\ Cardinality(1 .. m) = m
  BY FS_Interval
<1>2. /\ IsFiniteSet(SUBSET (1 .. n)) /\ Cardinality(SUBSET (1 .. n)) = 2 ^ n
      /\ Cardinality(SUBSET (1 .. m)) = 2 ^ m
  BY <1>1, FS_SUBSET
<1>3. SUBSET (1 .. m) \subseteq SUBSET (1 .. n)
  OBVIOUS
<1>4. Cardinality(SUBSET (1 .. m)) <= Cardinality(SUBSET (1 .. n))
  BY <1>2, <1>3, FS_Subset
<1> QED
  BY <1>2, <1>4, Zenon

(* The numbers a word holds, and that those of the narrow type are among them. *)
LEMMA WordFacts ==
    /\ Word \in Nat \ {0} /\ Word - 1 \in Nat /\ Narrow \in Nat \ {0} /\ Narrow - 1 \in Nat
    /\ MinWord \in Int /\ MaxWord \in Int /\ MinWord = -MaxWord - 1 /\ MaxWord >= 1
    /\ 2 ^ (Narrow - 1) \in Nat /\ 2 ^ (Narrow - 1) >= 1 /\ 2 ^ (Narrow - 1) <= MaxWord + 1
<1>1. /\ Word \in Nat \ {0} /\ Word - 1 \in Nat /\ Narrow \in Nat \ {0} /\ Narrow - 1 \in Nat
      /\ Word - 2 \in Nat /\ Narrow - 1 \in 0 .. Word - 1 /\ (Word - 2) + 1 = Word - 1
  BY WordsAssumption
<1> DEFINE half == 2 ^ (Word - 1)
           low == 2 ^ (Narrow - 1)
           quarter == 2 ^ (Word - 2)
<1>2. half \in Nat
  BY <1>1, PowerDoubles
<1>3. low \in Nat /\ low >= 1
  BY <1>1, PowerDoubles
<1>4. low <= half
  BY <1>1, PowerGrows
<1>5. quarter \in Nat /\ quarter >= 1
  BY <1>1, PowerDoubles
<1>6. 2 ^ ((Word - 2) + 1) = 2 * quarter
  BY <1>1, PowerDoubles
<1>7. half = 2 * quarter
  BY <1>1, <1>6
<1>8. MinWord = -half /\ MaxWord = half - 1
  BY DEF MinWord, MaxWord
<1> HIDE DEF half, quarter, low
<1>9. /\ MinWord \in Int /\ MaxWord \in Int /\ MinWord = -MaxWord - 1 /\ MaxWord >= 1
      /\ low <= MaxWord + 1
  BY <1>2, <1>3, <1>4, <1>5, <1>7, <1>8
<1> QED
  BY <1>1, <1>3, <1>9 DEF low

(* What wraps at n + 1 bits is a signed number of n + 1 bits. *)
LEMMA WrapFits ==
    ASSUME NEW n \in Nat, NEW v \in Int
    PROVE  Wrap(v, n + 1) \in -(2 ^ n) .. 2 ^ n - 1
<1> DEFINE p == 2 ^ n
           u == v % 2 ^ (n + 1)
<1>1. p \in Nat /\ p >= 1
  BY PowerDoubles
<1>2. 2 ^ (n + 1) = 2 * p
  BY PowerDoubles
<1>3. 2 * p \in Nat \ {0}
  BY <1>1
<1>4. u \in 0 .. 2 * p - 1
  <2> HIDE DEF p
  <2>1. v % (2 * p) \in 0 .. 2 * p - 1
    BY <1>3, Division
  <2> QED
    BY <1>2, <2>1
<1>5. (n + 1) - 1 = n
  OBVIOUS
<1>6. Wrap(v, n + 1) = IF u >= p THEN u - 2 * p ELSE u
  BY <1>2, <1>5 DEF Wrap
<1> HIDE DEF p, u
<1>7. (IF u >= p THEN u - 2 * p ELSE u) \in -p .. p - 1
  BY <1>1, <1>4
<1> QED
  BY <1>6, <1>7 DEF p

(* So wrapping to a width gives a value of that width. *)
LEMMA WrapWord ==
    ASSUME NEW v \in Int
    PROVE  /\ Wrap(v, Word) \in Int64
           /\ Wrap(v, Narrow) \in ValuesOf("narrow")
<1>1. (Word - 1) + 1 = Word /\ (Narrow - 1) + 1 = Narrow
  BY WordFacts
<1>2. Wrap(v, (Word - 1) + 1) \in -(2 ^ (Word - 1)) .. 2 ^ (Word - 1) - 1
  BY WordFacts, WrapFits
<1>3. Wrap(v, (Narrow - 1) + 1) \in -(2 ^ (Narrow - 1)) .. 2 ^ (Narrow - 1) - 1
  BY WordFacts, WrapFits
<1> QED
  BY <1>1, <1>2, <1>3 DEF Int64, MinWord, MaxWord, ValuesOf

(* The values of every type are among the words, *)
LEMMA ValuesAreWords ==
    ASSUME NEW t
    PROVE  ValuesOf(t) \subseteq Int64
<1>1. 0 .. 1 \subseteq Int64
  BY WordFacts DEF Int64
<1>2. -(2 ^ (Narrow - 1)) .. 2 ^ (Narrow - 1) - 1 \subseteq Int64
  <2> DEFINE low == 2 ^ (Narrow - 1)
  <2>1. low \in Nat /\ low <= MaxWord + 1 /\ MinWord = -MaxWord - 1 /\ MaxWord \in Int
    BY WordFacts
  <2> HIDE DEF low
  <2>2. -low .. low - 1 \subseteq MinWord .. MaxWord
    BY <2>1
  <2> QED
    BY <2>2 DEF low, Int64
<1> QED
  BY <1>1, <1>2 DEF ValuesOf

(* zero is among the values of every type, *)
LEMMA ZeroFits ==
    ASSUME NEW t
    PROVE  0 \in ValuesOf(t)
<1>1. 0 \in Int64
  BY WordFacts DEF Int64
<1>2. 0 \in -(2 ^ (Narrow - 1)) .. 2 ^ (Narrow - 1) - 1
  <2> DEFINE low == 2 ^ (Narrow - 1)
  <2>1. low \in Nat /\ low >= 1
    BY WordFacts
  <2> HIDE DEF low
  <2>2. 0 \in -low .. low - 1
    BY <2>1
  <2> QED
    BY <2>2 DEF low
<1> QED
  BY <1>1, <1>2 DEF ValuesOf

(* and World::trunc of a word is a value of the type. *)
LEMMA TruncFits ==
    ASSUME NEW v \in Int64, NEW t
    PROVE  Trunc(v, t) \in ValuesOf(t)
<1>1. v \in Int
  BY WordFacts DEF Int64
<1>2. v % 2 \in 0 .. 1
  BY <1>1
<1> QED
  BY <1>1, <1>2, WrapWord DEF Trunc, ValuesOf

(* Division of magnitudes. *)
LEMMA DivideFits ==
    ASSUME NEW x \in Nat, NEW y \in Nat \ {0}, NEW q, q = x \div y
    PROVE  /\ q \in 0 .. x
           /\ y >= 2 /\ x > 0 => q < x
           /\ x - y * q \in 0 .. y - 1
<1>1. q \in Int /\ y * q <= x /\ x < y * q + y
  BY Division
<1>2. q >= 0
  <2>1. SUFFICES ASSUME q <= -1 PROVE FALSE
    BY <1>1
  <2>2. y * q + y <= 0
    BY <1>1, <2>1, SMT
  <2> QED
    BY <1>1, <2>2
<1>3. q <= y * q
  BY <1>1, <1>2, SMT
<1>4. y >= 2 => 2 * q <= y * q
  BY <1>1, <1>2, SMT
<1>5. y * q \in Int
  BY <1>1
<1> QED
  BY <1>1, <1>2, <1>3, <1>4, <1>5

(* Dividing words gives words, but for the least one by -1, which the fold does *)
(* not compute.                                                                 *)
LEMMA QuotientFits ==
    ASSUME NEW a \in Int64, NEW b \in Int64 \ {0}, ~ (a = MinWord /\ b = -1)
    PROVE  Quotient(a, b) \in Int64 /\ Remainder(a, b) \in Int64
<1> DEFINE x == Magnitude(a)
           y == Magnitude(b)
           q == x \div y
<1>1. /\ a \in Int /\ b \in Int /\ b # 0
      /\ MinWord <= a /\ a <= MaxWord /\ MinWord <= b /\ b <= MaxWord
      /\ MinWord \in Int /\ MaxWord \in Int /\ MinWord = -MaxWord - 1
  BY WordFacts DEF Int64
<1>2. /\ x \in Nat /\ y \in Nat \ {0} /\ y <= MaxWord + 1
      /\ x = (IF a < 0 THEN -a ELSE a) /\ y = (IF b < 0 THEN -b ELSE b)
  BY <1>1 DEF Magnitude
<1>3. /\ q \in 0 .. x
      /\ y >= 2 /\ x > 0 => q < x
      /\ x - y * q \in 0 .. y - 1
  <2> HIDE DEF x, y
  <2> QED
    BY <1>2, DivideFits
<1>4. Quotient(a, b) = IF (a < 0) = (b < 0) THEN q ELSE -q
  BY DEF Quotient
<1>5. Remainder(a, b) = a - b * Quotient(a, b)
  BY DEF Remainder
<1> HIDE DEF x, y, q
<1>6. Quotient(a, b) \in Int64
  <2>1. CASE y >= 2
    BY <1>1, <1>2, <1>3, <1>4, <2>1 DEF Int64
  <2>2. CASE y = 1
    BY <1>1, <1>2, <1>3, <1>4, <2>2 DEF Int64
  <2> QED
    BY <1>2, <2>1, <2>2
<1>7. Remainder(a, b) = IF a < 0 THEN -(x - y * q) ELSE x - y * q
  <2>1. CASE a < 0 /\ b < 0
    <3>1. Quotient(a, b) = q /\ a = -x /\ b = -y
      BY <1>1, <1>2, <1>4, <2>1
    <3>2. (-x) - (-y) * q = -(x - y * q)
      BY <1>2, <1>3
    <3> QED
      BY <1>5, <2>1, <3>1, <3>2
  <2>2. CASE a < 0 /\ ~ (b < 0)
    <3>1. Quotient(a, b) = -q /\ a = -x /\ b = y
      BY <1>1, <1>2, <1>4, <2>2
    <3>2. (-x) - y * (-q) = -(x - y * q)
      BY <1>2, <1>3
    <3> QED
      BY <1>5, <2>2, <3>1, <3>2
  <2>3. CASE ~ (a < 0) /\ b < 0
    <3>1. Quotient(a, b) = -q /\ a = x /\ b = -y
      BY <1>1, <1>2, <1>4, <2>3
    <3>2. x - (-y) * (-q) = x - y * q
      BY <1>2, <1>3
    <3> QED
      BY <1>5, <2>3, <3>1, <3>2
  <2>4. CASE ~ (a < 0) /\ ~ (b < 0)
    <3>1. Quotient(a, b) = q /\ a = x /\ b = y
      BY <1>1, <1>2, <1>4, <2>4
    <3> QED
      BY <1>5, <2>4, <3>1
  <2> QED
    BY <2>1, <2>2, <2>3, <2>4
<1>8. Remainder(a, b) \in Int64
  <2> DEFINE r == x - y * q
  <2>1. r \in 0 .. y - 1 /\ Remainder(a, b) = IF a < 0 THEN -r ELSE r
    BY <1>3, <1>7
  <2> HIDE DEF r
  <2> QED
    BY <1>1, <1>2, <2>1 DEF Int64
<1> QED
  BY <1>6, <1>8

(* The number that bits make, bit by bit. *)
LEMMA OfBitsUnfold ==
    ASSUME NEW bits
    PROVE  \E low : /\ low[0] = 0
                    /\ \A n \in Nat :
                          /\ low[n] \in Int
                          /\ low[n + 1] = low[n] + (IF n \in bits THEN 2 ^ n ELSE 0)
                    /\ OfBits(bits) = Wrap(low[Word], Word)
<1> DEFINE Low == CHOOSE g : g = [n \in Nat |->
                    IF n = 0 THEN 0
                    ELSE g[n - 1] + (IF n - 1 \in bits THEN 2 ^ (n - 1) ELSE 0)]
           step == [k \in Nat \X Int |-> k[2] + (IF k[1] \in bits THEN 2 ^ k[1] ELSE 0)]
<1>1. step \in [Nat \X Int -> Int]
  <2>1. ASSUME NEW k \in Nat \X Int
        PROVE  k[2] + (IF k[1] \in bits THEN 2 ^ k[1] ELSE 0) \in Int
    <3>1. k[1] \in Nat /\ k[2] \in Int
      OBVIOUS
    <3>2. 2 ^ k[1] \in Nat
      BY <3>1, PowerDoubles
    <3> QED
      BY <3>1, <3>2
  <2> QED
    BY <2>1
<1>2. PICK g : Recurses(g, Int, 0, step)
  <2> DEFINE S == Int
             base == 0
  <2>1. base \in S /\ step \in [Nat \X S -> S]
    BY <1>1
  <2> HIDE DEF step, S, base
  <2>2. \E g : Recurses(g, S, base, step)
    BY <2>1, RecursionExists
  <2> QED
    BY <2>2 DEF S, base
<1>3. /\ g \in [Nat -> Int] /\ g[0] = 0
      /\ \A n \in Nat : g[n + 1] = g[n] + (IF n \in bits THEN 2 ^ n ELSE 0)
  BY <1>2 DEF Recurses
<1>4. g = [n \in Nat |-> IF n = 0 THEN 0
                         ELSE g[n - 1] + (IF n - 1 \in bits THEN 2 ^ (n - 1) ELSE 0)]
  <2>1. ASSUME NEW n \in Nat
        PROVE  g[n] = IF n = 0 THEN 0
                      ELSE g[n - 1] + (IF n - 1 \in bits THEN 2 ^ (n - 1) ELSE 0)
    <3>1. CASE n = 0
      BY <1>3, <3>1
    <3>2. CASE n # 0
      <4>1. n - 1 \in Nat /\ (n - 1) + 1 = n
        BY <3>2
      <4>2. g[(n - 1) + 1] = g[n - 1] + (IF n - 1 \in bits THEN 2 ^ (n - 1) ELSE 0)
        BY <1>3, <4>1
      <4> QED
        BY <3>2, <4>1, <4>2
    <3> QED
      BY <3>1, <3>2
  <2> QED
    BY <1>3, <2>1
<1>5. Low = [n \in Nat |-> IF n = 0 THEN 0
                         ELSE Low[n - 1] + (IF n - 1 \in bits THEN 2 ^ (n - 1) ELSE 0)]
  BY <1>4
<1> HIDE DEF Low
<1>6. ASSUME NEW n \in Nat
      PROVE  Low[n] = IF n = 0 THEN 0
                      ELSE Low[n - 1] + (IF n - 1 \in bits THEN 2 ^ (n - 1) ELSE 0)
  BY <1>5
<1>7. \A n \in Nat : Low[n] \in Int
  <2> DEFINE T == {n \in Nat : Low[n] \in Int}
  <2>1. 0 \in T
    BY <1>6
  <2>2. ASSUME NEW n \in Nat, n \in T PROVE n + 1 \in T
    <3>1. Low[n + 1] = Low[(n + 1) - 1]
                       + (IF (n + 1) - 1 \in bits THEN 2 ^ ((n + 1) - 1) ELSE 0)
      BY <1>6
    <3>2. Low[n + 1] = Low[n] + (IF n \in bits THEN 2 ^ n ELSE 0)
      BY <3>1
    <3>3. Low[n] \in Int /\ 2 ^ n \in Int
      BY <2>2, PowerDoubles
    <3> QED
      BY <3>2, <3>3
  <2>3. Nat \subseteq T
    <3> HIDE DEF T
    <3> QED
      BY <2>1, <2>2, SetInduction
  <2> QED
    BY <2>3
<1>8. ASSUME NEW n \in Nat
      PROVE  Low[n + 1] = Low[n] + (IF n \in bits THEN 2 ^ n ELSE 0)
  <2>1. Low[n + 1] = Low[(n + 1) - 1]
                     + (IF (n + 1) - 1 \in bits THEN 2 ^ ((n + 1) - 1) ELSE 0)
    BY <1>6
  <2> QED
    BY <2>1
<1>9. OfBits(bits) = Wrap(Low[Word], Word)
  BY DEF OfBits, Low
<1>10. Low[0] = 0
  BY <1>6
<1> QED
  BY <1>7, <1>8, <1>9, <1>10

(* Whatever bits are put together make a word. *)
LEMMA OfBitsFits ==
    ASSUME NEW bits
    PROVE  OfBits(bits) \in Int64
<1>1. PICK low : /\ \A n \in Nat : low[n] \in Int
                 /\ OfBits(bits) = Wrap(low[Word], Word)
  BY OfBitsUnfold
<1>2. low[Word] \in Int
  BY <1>1, WordFacts
<1> QED
  BY <1>1, <1>2, WrapWord

(* The other operations of C++ on words give words. *)
LEMMA CalcFits ==
    ASSUME NEW op \in BinOps \ {"SDiv", "SRem"}, NEW a \in Int64, NEW b \in Int64
    PROVE  Calc(op, a, b) \in Int64
<1> DEFINE places == b % Word
           p == 2 ^ places
<1>1. /\ a \in Int /\ b \in Int /\ Word \in Nat \ {0}
      /\ MinWord <= a /\ a <= MaxWord /\ MinWord \in Int /\ MaxWord \in Int
      /\ MinWord <= -1 /\ MaxWord >= 0
  BY WordFacts DEF Int64
<1>2. places \in Nat
  BY <1>1, Division
<1> HIDE DEF places
<1>3. p \in Nat \ {0}
  BY <1>2, PowerDoubles
<1>4. 2 ^ Word \in Nat \ {0}
  BY <1>1, PowerDoubles
<1>5. a % 2 ^ Word \in Int
  <2> DEFINE m == 2 ^ Word
  <2> HIDE DEF m
  <2>1. m \in Nat \ {0}
    BY <1>4 DEF m
  <2>2. a % m \in Int
    BY <1>1, <2>1, Division
  <2> QED
    BY <2>2 DEF m
<1> HIDE DEF p
<1>6. a \div p \in Int64
  <2> DEFINE q == a \div p
  <2>1. q \in Int /\ p * q <= a /\ a < p * q + p
    BY <1>1, <1>3, Division
  <2> HIDE DEF q
  <2>2. CASE a >= 0
    <3>1. q >= 0
      <4>1. SUFFICES ASSUME q <= -1 PROVE FALSE
        BY <2>1
      <4>2. p * q + p <= 0
        BY <1>3, <2>1, <4>1, SMT
      <4>3. p * q + p \in Int
        BY <1>3, <2>1
      <4> QED
        BY <1>1, <2>1, <2>2, <4>2, <4>3
    <3>2. q <= p * q
      BY <1>3, <2>1, <3>1, SMT
    <3>3. p * q \in Int
      BY <1>3, <2>1
    <3>4. q <= a
      BY <1>1, <2>1, <3>2, <3>3
    <3> QED
      BY <1>1, <2>1, <3>1, <3>4 DEF Int64, q
  <2>3. CASE a < 0
    <3>1. q <= -1
      <4>1. SUFFICES ASSUME q >= 0 PROVE FALSE
        BY <2>1
      <4>2. p * q >= 0
        BY <1>3, <2>1, <4>1, SMT
      <4>3. p * q \in Int
        BY <1>3, <2>1
      <4> QED
        BY <1>1, <2>1, <2>3, <4>2, <4>3
    <3>2. p * q + p <= q + 1
      BY <1>3, <2>1, <3>1, SMT
    <3>3. p * q \in Int
      BY <1>3, <2>1
    <3>4. a <= q
      BY <1>1, <1>3, <2>1, <3>2, <3>3
    <3> QED
      BY <1>1, <2>1, <3>1, <3>4 DEF Int64, q
  <2> QED
    BY <1>1, <2>2, <2>3
<1>7. (a % 2 ^ Word) \div p \in Int
  BY <1>3, <1>5, Division
<1>8. /\ a + b \in Int /\ a - b \in Int /\ a * b \in Int /\ a * p \in Int
  BY <1>1, <1>3
<1>9. Calc(op, a, b) \in {Wrap(a + b, Word), Wrap(a - b, Word), Wrap(a * b, Word),
                          OfBits(OneBits(a) \cap OneBits(b)),
                          OfBits(OneBits(a) \cup OneBits(b)),
                          OfBits((OneBits(a) \cup OneBits(b)) \ (OneBits(a) \cap OneBits(b))),
                          Wrap(a * p, Word), a \div p, Wrap((a % 2 ^ Word) \div p, Word)}
  BY DEF Calc, BinOps, p, places
<1>10. ASSUME NEW v \in Int PROVE Wrap(v, Word) \in Int64
  BY WrapWord
<1> QED
  BY <1>6, <1>7, <1>8, <1>9, <1>10, OfBitsFits

(* World::fold_binop: whatever is folded is a word. *)
LEMMA FoldFits ==
    ASSUME NEW op \in BinOps, NEW a \in Int64, NEW b \in Int64, ~FoldFails(op, b), NEW t
    PROVE  FoldBinop(op, a, b, t) \in Int64
<1>1. \A v \in Int64 : Trunc(v, t) \in Int64
  BY TruncFits, ValuesAreWords
<1>2. CASE a = MinWord /\ b = -1 /\ op \in {"SDiv", "SRem"}
  <2>1. 0 \in Int64
    BY WordFacts DEF Int64
  <2> QED
    BY <1>1, <1>2, <2>1 DEF FoldBinop
<1>3. CASE ~ (a = MinWord /\ b = -1) /\ op \in {"SDiv", "SRem"}
  <2>1. b \in Int64 \ {0}
    BY <1>3 DEF FoldFails
  <2>2. Quotient(a, b) \in Int64 /\ Remainder(a, b) \in Int64
    BY <1>3, <2>1, QuotientFits
  <2> QED
    BY <1>1, <1>3, <2>2 DEF FoldBinop
<1>4. CASE op \notin {"SDiv", "SRem"}
  <2>1. Calc(op, a, b) \in Int64
    BY <1>4, CalcFits
  <2> QED
    BY <1>1, <1>4, <2>1 DEF FoldBinop
<1> QED
  BY <1>2, <1>3, <1>4

(* Every number is below the power of two it is the exponent of. *)
LEMMA PowerExceeds ==
    ASSUME NEW n \in Nat
    PROVE  n < 2 ^ n
<1> DEFINE T == {k \in Nat : k + 1 <= 2 ^ k}
<1>1. 0 \in T
  BY PowerDoubles
<1>2. ASSUME NEW k \in Nat, k \in T PROVE k + 1 \in T
  <2> DEFINE p == 2 ^ k
  <2>1. k + 1 <= p /\ p \in Nat /\ p >= 1
    BY <1>2, PowerDoubles
  <2>2. 2 ^ (k + 1) = 2 * p
    BY PowerDoubles
  <2> HIDE DEF p
  <2>3. (k + 1) + 1 <= 2 * p
    BY <2>1
  <2>4. (k + 1) + 1 <= 2 ^ (k + 1)
    BY <2>2, <2>3
  <2> QED
    BY <2>4
<1>3. Nat \subseteq T
  <2> HIDE DEF T
  <2> QED
    BY <1>1, <1>2, SetInduction
<1>4. n + 1 <= 2 ^ n /\ 2 ^ n \in Nat
  BY <1>3, PowerDoubles
<1> DEFINE p == 2 ^ n
<1>5. n + 1 <= p /\ p \in Nat
  BY <1>4
<1> HIDE DEF p
<1>6. n < p
  BY <1>5
<1> QED
  BY <1>6 DEF p

(* The exponent of a power of two that is a word is a word. *)
LEMMA LogFits ==
    ASSUME NEW c \in Int64, NEW k \in Log(c)
    PROVE  k \in Int64
<1>1. k \in Nat /\ c = 2 ^ k
  BY WordFacts DEF Log
<1>2. k < 2 ^ k
  BY <1>1, PowerExceeds
<1>3. k < c
  BY <1>1, <1>2
<1> QED
  BY <1>1, <1>3, WordFacts DEF Int64

-----------------------------------------------------------------------------
(* Nodes keep their shapes, and tables their owners. *)
Good(u) == Typed(u) /\ Owns(u)

(* A node of another kind leaves a table with the owners it had, *)
LEMMA TableKept ==
    ASSUME NEW u, WellMade(u), NEW op, NEW table, OneNodePerEntry(u, op, table),
           NEW n, n.op # op, NEW v, v.nodes = Append(u.nodes, n)
    PROVE  OneNodePerEntry(v, op, table)
<1>1. /\ DOMAIN v.nodes = DOMAIN u.nodes \cup {Next1(u)}
      /\ \A i \in DOMAIN u.nodes : v.nodes[i] = u.nodes[i]
      /\ v.nodes[Next1(u)] = n
  BY ArenaAppend, ArenaDomain, SMT DEF WellMade, Next1
<1>2. Owners(v, op) = Owners(u, op)
  BY <1>1 DEF Owners
<1>3. \A id \in Owners(u, op) : v.nodes[id] = u.nodes[id]
  BY <1>1 DEF Owners
<1> QED
  BY <1>2, <1>3 DEF OneNodePerEntry

(* and one of its kind, made with an entry for it, owns that entry. *)
LEMMA TableGrows ==
    ASSUME NEW u, WellMade(u), NEW op, NEW table, OneNodePerEntry(u, op, table),
           NEW n, n.op = op, n.region = Len(table) + 1,
           NEW v, v.nodes = Append(u.nodes, n), NEW e
    PROVE  OneNodePerEntry(v, op, Append(table, e))
<1> DEFINE new == Next1(u)
           mine == Owners(u, op)
           longer == Append(table, e)
<1>1. /\ DOMAIN v.nodes = DOMAIN u.nodes \cup {new}
      /\ \A i \in DOMAIN u.nodes : v.nodes[i] = u.nodes[i]
      /\ v.nodes[new] = n
      /\ new \notin DOMAIN u.nodes
  BY ArenaAppend, ArenaDomain, SMT DEF WellMade, Next1
<1>2. /\ table \in Seq(Range(table)) /\ Len(table) \in Nat /\ DOMAIN table = 1 .. Len(table)
      /\ \A i \in mine : u.nodes[i].region \in DOMAIN table
      /\ \A k \in DOMAIN table : \E i \in mine : u.nodes[i].region = k
      /\ \A i, j \in mine : u.nodes[i].region = u.nodes[j].region => i = j
  BY SMT DEF OneNodePerEntry
<1>3. longer \in Seq(Range(longer)) /\ DOMAIN longer = 1 .. Len(table) + 1
  BY <1>2, ArenaAppend
<1>4. Owners(v, op) = mine \cup {new}
  BY <1>1 DEF Owners
<1>5. \A i \in mine : v.nodes[i].region = u.nodes[i].region
  BY <1>1 DEF Owners
<1>6. v.nodes[new].region = Len(table) + 1
  BY <1>1
<1>7. \A i \in mine : u.nodes[i].region # Len(table) + 1
  BY <1>2
<1> HIDE DEF new, mine, longer
<1>8. ASSUME NEW i \in mine \cup {new} PROVE v.nodes[i].region \in DOMAIN longer
  <2>1. CASE i = new
    <3>1. Len(table) + 1 \in DOMAIN longer
      BY <1>2, <1>3
    <3> QED
      BY <1>6, <2>1, <3>1
  <2>2. CASE i \in mine
    <3>1. u.nodes[i].region \in 1 .. Len(table)
      BY <1>2, <2>2
    <3>2. u.nodes[i].region \in DOMAIN longer
      BY <1>2, <1>3, <3>1
    <3> QED
      BY <1>5, <2>2, <3>2
  <2> QED
    BY <2>1, <2>2
<1>9. ASSUME NEW k \in DOMAIN longer
      PROVE  \E i \in mine \cup {new} : v.nodes[i].region = k
  <2>1. CASE k = Len(table) + 1
    BY <1>6, <2>1
  <2>2. CASE k # Len(table) + 1
    <3>1. k \in DOMAIN table
      BY <1>2, <1>3, <2>2
    <3> QED
      BY <1>2, <1>5, <3>1
  <2> QED
    BY <2>1, <2>2
<1>10. ASSUME NEW i \in mine \cup {new}, NEW j \in mine \cup {new},
              v.nodes[i].region = v.nodes[j].region
       PROVE  i = j
  <2>1. CASE i \in mine /\ j \in mine
    <3>1. u.nodes[i].region = u.nodes[j].region
      BY <1>5, <1>10, <2>1
    <3> QED
      BY <1>2, <2>1, <3>1
  <2>2. CASE i = new /\ j = new
    BY <2>2
  <2>3. CASE i \in mine /\ j = new
    <3>1. u.nodes[i].region = Len(table) + 1
      BY <1>5, <1>6, <1>10, <2>3
    <3> QED
      BY <1>7, <2>3, <3>1
  <2>4. CASE j \in mine /\ i = new
    <3>1. u.nodes[j].region = Len(table) + 1
      BY <1>5, <1>6, <1>10, <2>4
    <3> QED
      BY <1>7, <2>4, <3>1
  <2> QED
    BY <2>1, <2>2, <2>3, <2>4
<1> QED
  BY <1>3, <1>4, <1>8, <1>9, <1>10 DEF OneNodePerEntry, longer

(* One more node of a good shape leaves the nodes as they should be. *)
LEMMA TypedGrows ==
    ASSUME NEW u, WellMade(u), \A id \in DOMAIN u.nodes : TypedNode(u.nodes[id]),
           NEW n, TypedNode(n), NEW v, v.nodes = Append(u.nodes, n)
    PROVE  /\ \A id \in DOMAIN v.nodes : TypedNode(v.nodes[id])
           /\ DOMAIN u.nodes \subseteq DOMAIN v.nodes
<1>1. /\ DOMAIN v.nodes = DOMAIN u.nodes \cup {Next1(u)}
      /\ \A i \in DOMAIN u.nodes : v.nodes[i] = u.nodes[i]
      /\ v.nodes[Next1(u)] = n
  BY ArenaAppend, ArenaDomain, SMT DEF WellMade, Next1
<1> HIDE DEF TypedNode
<1> QED
  BY <1>1

(* The tables tell of the nodes of a grown arena, too. *)
LEMMA TablesStayTyped ==
    ASSUME NEW u, NEW v, TypedTables(u), v.loops = u.loops, v.funcs = u.funcs,
           DOMAIN u.nodes \subseteq DOMAIN v.nodes
    PROVE  TypedTables(v)
  BY SeqOfMore DEF TypedTables

(* A node that is no region. *)
LEMMA PlainGood ==
    ASSUME NEW u, WellMade(u), Good(u), NEW n, TypedNode(n), n.op \notin RegionOps
    PROVE  Good(Fresh(u, n).w) /\ Good(Intern(u, n).w)
<1>1. ASSUME NEW v, v.nodes = Append(u.nodes, n), v.conds = u.conds,
             v.loops = u.loops, v.funcs = u.funcs
      PROVE  Good(v)
  <2>1. Owns(v)
    BY <1>1, TableKept DEF Good, Owns, RegionOps
  <2>2. (\A id \in DOMAIN v.nodes : TypedNode(v.nodes[id])) /\ DOMAIN u.nodes \subseteq DOMAIN v.nodes
    BY <1>1, TypedGrows DEF Good, Typed
  <2>3. TypedTables(v)
    BY <1>1, <2>2, TablesStayTyped DEF Good, Typed
  <2> QED
    BY <2>1, <2>2, <2>3 DEF Good, Typed
<1> DEFINE made == [u EXCEPT !.nodes = Append(@, n)]
           known == [made EXCEPT !.interned = @ \cup {Next1(u)}]
<1>2. /\ made.nodes = Append(u.nodes, n) /\ made.conds = u.conds
      /\ made.loops = u.loops /\ made.funcs = u.funcs
      /\ known.nodes = Append(u.nodes, n) /\ known.conds = u.conds
      /\ known.loops = u.loops /\ known.funcs = u.funcs
  BY SMT DEF WellMade, EmptyWorld
<1>3. Fresh(u, n).w = made
  BY DEF Fresh
<1>4. Intern(u, n).w \in {u, known}
  <2> DEFINE hits == {id \in u.interned : NodeEq(u.nodes[id], n)}
             fresh == Fresh(u, n)
  <2>1. Intern(u, n) = IF hits # {} THEN [w |-> u, id |-> CHOOSE id \in hits : TRUE]
                       ELSE [fresh EXCEPT !.w.interned = @ \cup {fresh.id}]
    BY DEF Intern
  <2>2. fresh = [w |-> made, id |-> Next1(u)]
    BY DEF Fresh, Next1
  <2> HIDE DEF hits, fresh, made
  <2>3. [fresh EXCEPT !.w.interned = @ \cup {fresh.id}].w = [made EXCEPT !.interned = @ \cup {Next1(u)}]
    BY <2>2
  <2> QED
    BY <2>1, <2>3
<1> HIDE DEF made, known
<1> QED
  BY <1>1, <1>2, <1>3, <1>4

(* What a node that is there tells. *)
LEMMA NodeFacts ==
    ASSUME NEW u, WellMade(u), Good(u), NEW a \in DOMAIN u.nodes
    PROVE  /\ Type(u, a) \in Types /\ a \in Nat
           /\ IsConst(u, a) => Imm(u, a) \in Int64
<1>1. TypedNode(u.nodes[a])
  BY DEF Good, Typed
<1>2. a \in Nat
  BY ArenaDomain, SMT
<1>3. IsConst(u, a) => Imm(u, a) \in Int64
  BY <1>1, ValuesAreWords DEF TypedNode, IsConst, Op, Imm
<1> QED
  BY <1>1, <1>2, <1>3 DEF TypedNode, Type

(* Nodes that hold no number are of a good shape as they are made. *)
LEMMA NodeTyped ==
    ASSUME NEW op, op \notin ConstOps, NEW t \in Types, NEW ins,
           NEW st \in Nat, NEW k \in Nat, NEW r
    PROVE  /\ TypedNode(Node(op, t, ins))
           /\ TypedNode([Node(op, t, ins) EXCEPT !.state_in = st])
           /\ TypedNode([Node(op, t, ins) EXCEPT !.imm = k])
           /\ TypedNode([Node(op, t, ins) EXCEPT !.region = r])
           /\ TypedNode([Node(op, t, ins) EXCEPT !.state_in = st, !.imm = k])
  BY DEF TypedNode, Node, NONE

(* World::konst of a word. *)
LEMMA KonstGood ==
    ASSUME NEW u, WellMade(u), Good(u), NEW v \in Int64, NEW t \in Types
    PROVE  Good(Konst(u, v, t).w)
<1> DEFINE x == Trunc(v, t)
           n == [Node("ConstInt", t, <<>>) EXCEPT !.imm = x]
<1>1. x \in ValuesOf(t)
  BY TruncFits
<1> HIDE DEF x
<1>2. TypedNode(n) /\ n.op \notin RegionOps
  BY <1>1 DEF TypedNode, Node, NONE, ConstOps, RegionOps
<1>3. Konst(u, v, t) = Intern(u, n)
  BY DEF Konst, x
<1> HIDE DEF n
<1> QED
  BY <1>2, <1>3, PlainGood

(* World::konst_bool. *)
LEMMA KonstBoolGood ==
    ASSUME NEW u, WellMade(u), Good(u), NEW b
    PROVE  Good(KonstBool(u, b).w)
<1> DEFINE x == IF b THEN 1 ELSE 0
           n == [Node("ConstBool", "bool", <<>>) EXCEPT !.imm = x]
<1>1. x \in ValuesOf("bool")
  BY DEF ValuesOf
<1> HIDE DEF x
<1>2. TypedNode(n) /\ n.op \notin RegionOps
  BY <1>1 DEF TypedNode, Node, NONE, ConstOps, RegionOps, Types
<1>3. KonstBool(u, b) = Intern(u, n)
  BY DEF KonstBool, x
<1> HIDE DEF n
<1> QED
  BY <1>2, <1>3, PlainGood

(* Interning a node that holds no number. *)
LEMMA InternGood ==
    ASSUME NEW u, WellMade(u), Good(u), NEW op, op \notin ConstOps \cup RegionOps,
           NEW t \in Types, NEW ins
    PROVE  Good(Intern(u, Node(op, t, ins)).w)
<1>1. TypedNode(Node(op, t, ins)) /\ Node(op, t, ins).op = op
  BY NodeTyped DEF Node
<1> QED
  BY <1>1, PlainGood

(* An answer that makes nothing. *)
LEMMA HitGood ==
    ASSUME NEW u, Good(u), NEW a
    PROVE  Good(Hit(u, a).w)
  BY DEF Hit

(* World::binop: whatever it folds or makes, the constants fit their types. *)
LEMMA BinopGood ==
    ASSUME NEW u, WellMade(u), Good(u), NEW op \in BinOps,
           NEW first \in DOMAIN u.nodes, NEW second \in DOMAIN u.nodes
    PROVE  Good(Binop(u, op, first, second).w)
<1> DEFINE t == Type(u, first)
           x == Imm(u, first)
           y == Imm(u, second)
           a == IF Swaps(u, op, first, second) THEN second ELSE first
           b == IF Swaps(u, op, first, second) THEN first ELSE second
           powers == IF op = "Mul" /\ IsConst(u, b) THEN Log(Imm(u, b)) ELSE {}
           times == Konst(u, CHOOSE k \in powers : TRUE, t)
           folded == IsConst(u, first) /\ IsConst(u, second) /\ ~FoldFails(op, y)
<1>1. a \in DOMAIN u.nodes /\ b \in DOMAIN u.nodes /\ t \in Types
  BY NodeFacts
<1>2. ASSUME folded PROVE Good(Konst(u, FoldBinop(op, x, y, t), t).w)
  <2>1. x \in Int64 /\ y \in Int64
    BY <1>2, NodeFacts
  <2>2. FoldBinop(op, x, y, t) \in Int64
    BY <1>2, <2>1, FoldFits
  <2> HIDE DEF x, y, t
  <2> QED
    BY <1>1, <2>2, KonstGood
<1>3. Good(Konst(u, 0, t).w)
  <2>1. 0 \in Int64
    BY WordFacts DEF Int64
  <2> QED
    BY <1>1, <2>1, KonstGood
<1>4. ASSUME powers # {} PROVE Good(ShiftBy(times.w, a, times.id).w)
  <2> DEFINE k == CHOOSE k \in powers : TRUE
  <2>1. k \in powers
    BY <1>4
  <2>2. k \in Log(Imm(u, b)) /\ IsConst(u, b)
    BY <2>1
  <2>3. k \in Int64
    BY <1>1, <2>2, NodeFacts, LogFits
  <2>4. times = Konst(u, k, t)
    OBVIOUS
  <2> HIDE DEF k, times, a, t
  <2>5. Good(times.w)
    BY <1>1, <2>3, <2>4, KonstGood
  <2>6. Step(u, times)
    BY <2>4, KonstStep
  <2>7. WellMade(times.w) /\ a \in DOMAIN times.w.nodes
    BY <1>1, <2>6 DEF Step, Grown
  <2>8. Type(times.w, a) \in Types
    BY <2>5, <2>7, NodeFacts
  <2>9. Good(Intern(times.w, Node("Shl", Type(times.w, a), <<a, times.id>>)).w)
    BY <2>5, <2>7, <2>8, InternGood DEF ConstOps, RegionOps
  <2> QED
    BY <2>5, <2>9, HitGood DEF ShiftBy
<1>5. Good(Intern(u, Node(op, t, <<a, b>>)).w)
  BY <1>1, InternGood DEF ConstOps, RegionOps, BinOps
<1>6. Binop(u, op, first, second) =
        IF folded THEN Konst(u, FoldBinop(op, x, y, t), t)
        ELSE IF KeepsFirst(u, op, a, b) THEN Hit(u, a)
        ELSE IF GivesZero(u, op, a, b) THEN Konst(u, 0, t)
        ELSE IF powers # {} THEN ShiftBy(times.w, a, times.id)
        ELSE Intern(u, Node(op, t, <<a, b>>))
  BY Zenon DEF Binop
<1> HIDE DEF t, x, y, a, b, powers, times, folded
<1> QED
  BY <1>2, <1>3, <1>4, <1>5, <1>6, HitGood

(* World::cmp. *)
LEMMA CmpGood ==
    ASSUME NEW u, WellMade(u), Good(u), NEW op \in CmpOps, NEW first, NEW second
    PROVE  Good(Cmp(u, op, first, second).w)
<1>1. \A ins : Good(Intern(u, Node(op, "bool", ins)).w)
  BY InternGood DEF ConstOps, RegionOps, CmpOps, Types
<1> QED
  BY <1>1, KonstBoolGood DEF Cmp

(* World::neg and World::bit_not: minus the least word is itself. *)
LEMMA UnaryGood ==
    ASSUME NEW u, WellMade(u), Good(u), NEW a \in DOMAIN u.nodes
    PROVE  Good(Neg(u, a).w) /\ Good(BitNot(u, a).w)
<1> DEFINE t == Type(u, a)
           x == Imm(u, a)
<1>1. t \in Types
  BY NodeFacts
<1>2. \A op \in {"Neg", "Not"} : Good(Intern(u, Node(op, t, <<a>>)).w)
  BY <1>1, InternGood DEF ConstOps, RegionOps
<1>3. ASSUME IsConst(u, a)
      PROVE  /\ Good(Konst(u, Trunc(Wrap(0 - x, Word), t), t).w)
             /\ Good(Konst(u, Trunc(-x - 1, t), t).w)
  <2>1. x \in Int64
    BY <1>3, NodeFacts
  <2> HIDE DEF x, t
  <2>2. 0 - x \in Int /\ -x - 1 \in Int64
    BY <2>1, WordFacts DEF Int64
  <2>3. Wrap(0 - x, Word) \in Int64
    BY <2>2, WrapWord
  <2>4. Trunc(Wrap(0 - x, Word), t) \in Int64 /\ Trunc(-x - 1, t) \in Int64
    BY <2>2, <2>3, TruncFits, ValuesAreWords
  <2> QED
    BY <1>1, <2>4, KonstGood
<1> HIDE DEF t, x
<1> QED
  BY <1>2, <1>3 DEF Neg, BitNot, t, x

(* World::select. *)
LEMMA SelectGood ==
    ASSUME NEW u, WellMade(u), Good(u), NEW c, NEW a \in DOMAIN u.nodes, NEW b
    PROVE  Good(Select(u, c, a, b).w)
<1>1. Good(Intern(u, Node("Select", Type(u, a), <<c, a, b>>)).w)
  BY NodeFacts, InternGood DEF ConstOps, RegionOps
<1> QED
  BY <1>1, HitGood DEF Select

(* Loads, stores, parameters, projections and calls. *)
LEMMA EffectGood ==
    ASSUME NEW u, WellMade(u), Good(u), NEW st \in Nat, NEW k \in Nat,
           NEW t \in Types, NEW ins, NEW op \in {"Load", "Store", "Param", "Proj", "Call"}
    PROVE  /\ Good(Fresh(u, [Node(op, t, ins) EXCEPT !.state_in = st]).w)
           /\ Good(Fresh(u, [Node(op, t, ins) EXCEPT !.imm = k]).w)
           /\ Good(Intern(u, [Node(op, t, ins) EXCEPT !.imm = k]).w)
           /\ Good(Fresh(u, [Node(op, t, ins) EXCEPT !.state_in = st, !.imm = k]).w)
<1> DEFINE load == [Node(op, t, ins) EXCEPT !.state_in = st]
           param == [Node(op, t, ins) EXCEPT !.imm = k]
           call == [Node(op, t, ins) EXCEPT !.state_in = st, !.imm = k]
<1>1. TypedNode(load) /\ TypedNode(param) /\ TypedNode(call)
  BY NodeTyped DEF ConstOps
<1>2. load.op \notin RegionOps /\ param.op \notin RegionOps /\ call.op \notin RegionOps
  BY DEF Node, RegionOps
<1> HIDE DEF load, param, call
<1>3. Good(Fresh(u, load).w)
  BY <1>1, <1>2, PlainGood
<1>4. Good(Fresh(u, param).w) /\ Good(Intern(u, param).w)
  BY <1>1, <1>2, PlainGood
<1>5. Good(Fresh(u, call).w)
  BY <1>1, <1>2, PlainGood
<1> QED
  BY <1>3, <1>4, <1>5 DEF load, param, call

(* A region node is made together with the entry it owns.  u has become v   *)
(* by one more entry in the table of the node's kind, which is typed.       *)
LEMMA RegionGood ==
    ASSUME NEW u, WellMade(u), Good(u), NEW v, NEW n, NEW e, TypedNode(n),
           v.nodes = u.nodes, TypedTables(v),
           \/ /\ n.op = "Func" /\ n.region = Len(u.funcs) + 1
              /\ v.funcs = Append(u.funcs, e) /\ v.conds = u.conds /\ v.loops = u.loops
           \/ /\ n.op = "Cond" /\ n.region = Len(u.conds) + 1
              /\ v.conds = Append(u.conds, e) /\ v.funcs = u.funcs /\ v.loops = u.loops
           \/ /\ n.op = "Loop" /\ n.region = Len(u.loops) + 1
              /\ v.loops = Append(u.loops, e) /\ v.conds = u.conds /\ v.funcs = u.funcs,
           NEW x, x.nodes = Append(v.nodes, n), x.funcs = v.funcs,
           x.conds = v.conds, x.loops = v.loops
    PROVE  Good(x)
<1>1. x.nodes = Append(u.nodes, n)
  OBVIOUS
<1>2. (\A id \in DOMAIN x.nodes : TypedNode(x.nodes[id])) /\ DOMAIN u.nodes \subseteq DOMAIN x.nodes
  BY <1>1, TypedGrows DEF Good, Typed
<1>3. TypedTables(x)
  BY <1>2, TablesStayTyped
<1>4. /\ OneNodePerEntry(u, "Func", u.funcs)
      /\ OneNodePerEntry(u, "Cond", u.conds)
      /\ OneNodePerEntry(u, "Loop", u.loops)
  BY DEF Good, Owns
<1>5. CASE /\ n.op = "Func" /\ n.region = Len(u.funcs) + 1
           /\ v.funcs = Append(u.funcs, e) /\ v.conds = u.conds /\ v.loops = u.loops
  <2>1. OneNodePerEntry(x, "Func", Append(u.funcs, e))
    BY <1>1, <1>4, <1>5, TableGrows
  <2>2. OneNodePerEntry(x, "Cond", u.conds) /\ OneNodePerEntry(x, "Loop", u.loops)
    BY <1>1, <1>4, <1>5, TableKept
  <2> QED
    BY <1>5, <2>1, <2>2, <1>2, <1>3 DEF Good, Typed, Owns
<1>6. CASE /\ n.op = "Cond" /\ n.region = Len(u.conds) + 1
           /\ v.conds = Append(u.conds, e) /\ v.funcs = u.funcs /\ v.loops = u.loops
  <2>1. OneNodePerEntry(x, "Cond", Append(u.conds, e))
    BY <1>1, <1>4, <1>6, TableGrows
  <2>2. OneNodePerEntry(x, "Func", u.funcs) /\ OneNodePerEntry(x, "Loop", u.loops)
    BY <1>1, <1>4, <1>6, TableKept
  <2> QED
    BY <1>6, <2>1, <2>2, <1>2, <1>3 DEF Good, Typed, Owns
<1>7. CASE /\ n.op = "Loop" /\ n.region = Len(u.loops) + 1
           /\ v.loops = Append(u.loops, e) /\ v.conds = u.conds /\ v.funcs = u.funcs
  <2>1. OneNodePerEntry(x, "Loop", Append(u.loops, e))
    BY <1>1, <1>4, <1>7, TableGrows
  <2>2. OneNodePerEntry(x, "Func", u.funcs) /\ OneNodePerEntry(x, "Cond", u.conds)
    BY <1>1, <1>4, <1>7, TableKept
  <2> QED
    BY <1>7, <2>1, <2>2, <1>2, <1>3 DEF Good, Typed, Owns
<1> QED
  BY <1>5, <1>6, <1>7

(* What a node put into a world shows of it. *)
LEMMA FreshFields ==
    ASSUME NEW u, DOMAIN u = DOMAIN EmptyWorld, NEW n
    PROVE  /\ Fresh(u, n).w.nodes = Append(u.nodes, n)
           /\ Fresh(u, n).w.funcs = u.funcs /\ Fresh(u, n).w.conds = u.conds
           /\ Fresh(u, n).w.loops = u.loops
  BY DEF Fresh, EmptyWorld

(* World::make_cond. *)
LEMMA CondGood ==
    ASSUME NEW u, WellMade(u), Good(u), NEW p \in DOMAIN u.nodes, NEW t \in Types,
           NEW yields
    PROVE  Good(MakeCond(u, p, t, yields).w)
<1> DEFINE false == KonstBool(u, FALSE)
           v == [u EXCEPT !.conds = Append(@, yields)]
           n == [Node("Cond", t, <<p>>) EXCEPT !.region = Len(u.conds) + 1]
           chosen == ArmOf(Imm(u, p), yields)
<1>1. Good(Cmp(false.w, "CmpEq", p, false.id).w)
  <2>1. Step(u, false) /\ Good(false.w)
    BY KonstBoolStep, KonstBoolGood
  <2>2. WellMade(false.w)
    BY <2>1 DEF Step
  <2> HIDE DEF false
  <2> QED
    BY <2>1, <2>2, CmpGood DEF CmpOps
<1>2. Good(NewCond(u, p, t, yields).w)
  <2>1. /\ v.nodes = u.nodes /\ v.conds = Append(u.conds, yields)
        /\ v.funcs = u.funcs /\ v.loops = u.loops /\ DOMAIN v = DOMAIN EmptyWorld
    BY SMT DEF WellMade, EmptyWorld
  <2>2. TypedNode(n) /\ n.op = "Cond" /\ n.region = Len(u.conds) + 1
    BY NodeTyped DEF ConstOps, Node
  <2>3. NewCond(u, p, t, yields) = Fresh(v, n)
    BY DEF NewCond
  <2> HIDE DEF v, n
  <2>4. TypedTables(v)
    BY <2>1, TablesStayTyped DEF Good, Typed
  <2> DEFINE x == Fresh(v, n).w
  <2>5. /\ x.nodes = Append(v.nodes, n) /\ x.funcs = v.funcs
        /\ x.conds = v.conds /\ x.loops = v.loops
    BY <2>1, FreshFields
  <2> HIDE DEF x
  <2>6. Good(x)
    BY <2>1, <2>2, <2>4, <2>5, RegionGood
  <2> QED
    BY <2>3, <2>6 DEF x
<1>3. MakeCond(u, p, t, yields) =
        IF IsConst(u, p) /\ chosen \in DOMAIN yields THEN Hit(u, yields[chosen])
        ELSE IF Len(yields) = 2 /\ yields[1] = yields[2] THEN Hit(u, yields[1])
        ELSE IF YieldTruth(u, p, t, yields, 0, 1) THEN Hit(u, p)
        ELSE IF YieldTruth(u, p, t, yields, 1, 0)
        THEN Cmp(false.w, "CmpEq", p, false.id)
        ELSE NewCond(u, p, t, yields)
  BY Zenon DEF MakeCond
<1> HIDE DEF false, v, n, chosen
<1> QED
  BY <1>1, <1>2, <1>3, HitGood

(* World::make_loop and World::make_loop_multi. *)
LEMMA LoopGood ==
    ASSUME NEW u, WellMade(u), Good(u), NEW inits, NEW t \in Types, NEW ps,
           NEW is_break, NEW break_val, NEW break_vals \in Seq(DOMAIN u.nodes), NEW next
    PROVE  Good(NewLoop(u, inits, t, ps, is_break, break_val, break_vals, next).w)
<1> DEFINE info == [params |-> ps, is_break |-> is_break, break_val |-> break_val,
                    break_vals |-> break_vals, next_vals |-> next]
           v == [u EXCEPT !.loops = Append(@, info)]
           n == [Node("Loop", t, inits) EXCEPT !.region = Len(u.loops) + 1]
<1>1. /\ v.nodes = u.nodes /\ v.loops = Append(u.loops, info)
      /\ v.funcs = u.funcs /\ v.conds = u.conds /\ DOMAIN v = DOMAIN EmptyWorld
  BY SMT DEF WellMade, EmptyWorld
<1>2. TypedNode(n) /\ n.op = "Loop" /\ n.region = Len(u.loops) + 1
  BY NodeTyped DEF ConstOps, Node
<1>3. NewLoop(u, inits, t, ps, is_break, break_val, break_vals, next) = Fresh(v, n)
  BY DEF NewLoop
<1>4. info.break_vals = break_vals
  OBVIOUS
<1> HIDE DEF v, n, info
<1>5. TypedTables(v)
  <2>1. u.loops \in Seq(Range(u.loops)) /\ TypedTables(u)
    BY DEF Good, Owns, OneNodePerEntry, Typed
  <2>2. /\ DOMAIN v.loops = 1 .. Len(u.loops) + 1
        /\ \A i \in 1 .. Len(u.loops) : v.loops[i] = u.loops[i]
        /\ v.loops[Len(u.loops) + 1] = info
    BY <1>1, <2>1, ArenaAppend
  <2>3. Len(u.loops) \in Nat /\ DOMAIN u.loops = 1 .. Len(u.loops)
    BY <2>1, SMT
  <2>4. ASSUME NEW i \in DOMAIN v.loops PROVE v.loops[i].break_vals \in Seq(DOMAIN v.nodes)
    <3>1. CASE i = Len(u.loops) + 1
      BY <1>1, <1>4, <2>2, <3>1
    <3>2. CASE i # Len(u.loops) + 1
      <4>1. i \in DOMAIN u.loops
        BY <2>2, <2>3, <3>2
      <4> QED
        BY <1>1, <2>1, <2>2, <2>3, <4>1 DEF TypedTables
    <3> QED
      BY <3>1, <3>2
  <2> QED
    BY <1>1, <2>1, <2>4 DEF TypedTables
<1> DEFINE x == Fresh(v, n).w
<1>6. /\ x.nodes = Append(v.nodes, n) /\ x.funcs = v.funcs
      /\ x.conds = v.conds /\ x.loops = v.loops
  BY <1>1, FreshFields
<1> HIDE DEF x
<1>7. Good(x)
  BY <1>1, <1>2, <1>5, <1>6, RegionGood
<1> QED
  BY <1>3, <1>7 DEF x

(* The parameters of a function are no regions. *)
LEMMA NewParamsGood ==
    ASSUME NEW u, WellMade(u), Good(u), NEW types \in Seq(Types)
    PROVE  Good(NewParams(u, types))
<1> DEFINE ps == [i \in DOMAIN types |-> [Node("Param", types[i], <<>>) EXCEPT !.imm = i - 1]]
           v == NewParams(u, types)
           S == Range(u.nodes) \cup Range(ps)
           s == u.nodes
<1>1. /\ v.conds = u.conds /\ v.loops = u.loops /\ v.funcs = u.funcs
      /\ v.nodes = s \o ps
  BY SMT DEF NewParams, WellMade, EmptyWorld
<1>2. ASSUME NEW i \in DOMAIN ps PROVE TypedNode(ps[i]) /\ ps[i].op = "Param"
  <2>1. types[i] \in Types /\ i - 1 \in Nat
    BY SMT
  <2>2. TypedNode([Node("Param", types[i], <<>>) EXCEPT !.imm = i - 1])
    BY <2>1, NodeTyped DEF ConstOps
  <2> QED
    BY <2>2 DEF Node
<1>3. ps \in Seq(S) /\ s \in Seq(S)
  <2>1. DOMAIN types = 1 .. Len(types) /\ Len(types) \in Nat
    BY SMT
  <2>2. \A i \in DOMAIN ps : ps[i] \in S
    BY DEF Range
  <2>3. ps \in [1 .. Len(types) -> S]
    BY <2>1, <2>2
  <2> HIDE DEF ps
  <2>4. ps \in Seq(S)
    BY <2>1, <2>3, FunctionIsSeq
  <2>5. s \in Seq(S)
    BY SeqOfMore DEF WellMade
  <2> QED
    BY <2>4, <2>5
<1> HIDE DEF ps, v, S
<1>4. /\ \A i \in DOMAIN s : i \in DOMAIN v.nodes /\ v.nodes[i] = s[i]
      /\ \A i \in DOMAIN v.nodes : \/ i \in DOMAIN s
                                   \/ \E k \in DOMAIN ps : v.nodes[i] = ps[k]
  <2>1. /\ Len(s) \in Nat /\ Len(ps) \in Nat /\ DOMAIN s = 1 .. Len(s)
    BY <1>3, ArenaDomain, SMT
  <2>2. /\ Len(v.nodes) = Len(s) + Len(ps)
        /\ DOMAIN v.nodes = 1 .. Len(s) + Len(ps)
        /\ \A i \in 1 .. Len(s) : v.nodes[i] = s[i]
        /\ \A i \in Len(s) + 1 .. Len(v.nodes) :
              i - Len(s) \in DOMAIN ps /\ v.nodes[i] = ps[i - Len(s)]
    BY <1>1, <1>3, ArenaConcat
  <2>3. \A i \in DOMAIN v.nodes : i \in 1 .. Len(s) \/ i \in Len(s) + 1 .. Len(v.nodes)
    BY <2>1, <2>2, SMT
  <2>4. DOMAIN s \subseteq DOMAIN v.nodes
    BY <2>1, <2>2, SMT
  <2> QED
    BY <2>1, <2>2, <2>3, <2>4
<1>5. \A id \in DOMAIN v.nodes : TypedNode(v.nodes[id])
  BY <1>2, <1>4 DEF Good, Typed
<1>6. TypedTables(v)
  BY <1>1, <1>4, TablesStayTyped DEF Good, Typed
<1>7. ASSUME NEW op \in RegionOps, NEW table, OneNodePerEntry(u, op, table)
      PROVE  OneNodePerEntry(v, op, table)
  <2>1. Owners(v, op) = Owners(u, op)
    BY <1>2, <1>4 DEF Owners, RegionOps
  <2>2. \A id \in Owners(u, op) : v.nodes[id] = u.nodes[id]
    BY <1>4 DEF Owners
  <2> QED
    BY <1>7, <2>1, <2>2 DEF OneNodePerEntry
<1> QED
  BY <1>1, <1>5, <1>6, <1>7 DEF Good, Typed, Owns, RegionOps, v

(* World::begin_func. *)
LEMMA FuncGood ==
    ASSUME NEW u, WellMade(u), Good(u), NEW param_types \in Seq(Types),
           NEW t \in Types, NEW has_state
    PROVE  Good(BeginFunc(u, param_types, t, has_state).w)
<1> DEFINE types == IF has_state THEN Append(param_types, "state") ELSE param_types
           all == NewParams(u, types)
           info == [params |-> [i \in DOMAIN param_types |-> Len(u.nodes) + i],
                    state_param |-> IF has_state THEN Len(all.nodes) ELSE NONE,
                    result_type |-> t, result |-> NONE, state_result |-> NONE]
           v == [all EXCEPT !.funcs = Append(@, info)]
           n == [Node("Func", "func", <<>>) EXCEPT !.region = Len(u.funcs) + 1]
<1>1. types \in Seq(Types)
  BY SMT DEF Types
<1> HIDE DEF types
<1>2. Good(all) /\ WellMade(all) /\ all.funcs = u.funcs
  <2>1. all.funcs = u.funcs
    BY SMT DEF NewParams, WellMade, EmptyWorld
  <2> QED
    BY <1>1, <2>1, NewParamsGood, NewParamsKept DEF Kept
<1>3. BeginFunc(u, param_types, t, has_state) = Fresh(v, n)
  BY DEF BeginFunc, types
<1> HIDE DEF all
<1>4. /\ v.nodes = all.nodes /\ v.funcs = Append(all.funcs, info)
      /\ v.loops = all.loops /\ v.conds = all.conds /\ DOMAIN v = DOMAIN EmptyWorld
  BY <1>2, SMT DEF WellMade, EmptyWorld
<1>5. TypedNode(n) /\ n.op = "Func" /\ n.region = Len(all.funcs) + 1
  BY <1>2, NodeTyped DEF ConstOps, Node, Types
<1>6. info.result_type = t
  OBVIOUS
<1> HIDE DEF v, n, info
<1>7. TypedTables(v)
  <2>1. all.funcs \in Seq(Range(all.funcs)) /\ TypedTables(all)
    BY <1>2 DEF Good, Owns, OneNodePerEntry, Typed
  <2>2. /\ DOMAIN v.funcs = 1 .. Len(all.funcs) + 1
        /\ \A i \in 1 .. Len(all.funcs) : v.funcs[i] = all.funcs[i]
        /\ v.funcs[Len(all.funcs) + 1] = info
    BY <1>4, <2>1, ArenaAppend
  <2>3. Len(all.funcs) \in Nat /\ DOMAIN all.funcs = 1 .. Len(all.funcs)
    BY <2>1, SMT
  <2>4. ASSUME NEW i \in DOMAIN v.funcs PROVE v.funcs[i].result_type \in Types
    <3>1. CASE i = Len(all.funcs) + 1
      BY <1>6, <2>2, <3>1
    <3>2. CASE i # Len(all.funcs) + 1
      <4>1. i \in DOMAIN all.funcs
        BY <2>2, <2>3, <3>2
      <4> QED
        BY <2>1, <2>2, <2>3, <4>1 DEF TypedTables
    <3> QED
      BY <3>1, <3>2
  <2> QED
    BY <1>4, <2>1, <2>4 DEF TypedTables
<1> DEFINE x == Fresh(v, n).w
<1>8. /\ x.nodes = Append(v.nodes, n) /\ x.funcs = v.funcs
      /\ x.conds = v.conds /\ x.loops = v.loops
  BY <1>4, FreshFields
<1> HIDE DEF x
<1>9. Good(x)
  BY <1>2, <1>4, <1>5, <1>7, <1>8, RegionGood
<1> QED
  BY <1>3, <1>9 DEF x

(* The list of the module's functions is no table of parts. *)
LEMMA ListGood ==
    ASSUME NEW u, WellMade(u), Good(u), NEW x
    PROVE  Good([u EXCEPT !.module_funcs = x])
<1> DEFINE v == [u EXCEPT !.module_funcs = x]
<1>1. /\ v.nodes = u.nodes /\ v.conds = u.conds /\ v.loops = u.loops
      /\ v.funcs = u.funcs
  BY SMT DEF WellMade, EmptyWorld
<1> HIDE DEF v
<1>2. Good(v)
  BY <1>1 DEF Good, Typed, TypedTables, Owns, OneNodePerEntry, Owners
<1> QED
  BY <1>2 DEF v

(* World::end_func fills in the entry of its function. *)
LEMMA FunctionListGood ==
    ASSUME NEW u, WellMade(u), Good(u), NEW func \in Owners(u, "Func")
    PROVE  /\ \A a, b : Good(EndFunc(u, func, a, b).w)
           /\ Good(AddFunc(u, func).w)
<1>1. ASSUME NEW a, NEW b PROVE Good(EndFunc(u, func, a, b).w)
  <2> DEFINE k == u.nodes[func].region
             info == [Info(u, func) EXCEPT !.result = a, !.state_result = b]
             v == [u EXCEPT !.funcs[k] = info]
             fs == u.funcs
  <2>1. EndFunc(u, func, a, b).w = v
    BY DEF EndFunc, Hit
  <2>2. k \in DOMAIN fs /\ Info(u, func) = fs[k] /\ fs \in Seq(Range(fs))
    BY DEF Good, Owns, OneNodePerEntry, Info
  <2>3. /\ v.nodes = u.nodes /\ v.conds = u.conds /\ v.loops = u.loops
        /\ v.funcs = [fs EXCEPT ![k] = info]
    BY SMT DEF WellMade, EmptyWorld
  <2>4. TypedTables(u) /\ OneNodePerEntry(u, "Func", fs)
    BY DEF Good, Typed, Owns
  <2>5. info.result_type = fs[k].result_type
    BY <2>2
  <2> HIDE DEF k, info, v, fs
  <2>6. /\ DOMAIN v.funcs = DOMAIN fs
        /\ \A i \in DOMAIN fs : v.funcs[i] = IF i = k THEN info ELSE fs[i]
    BY <2>3
  <2>7. v.funcs \in Seq(Range(v.funcs))
    <3>1. v.funcs \in [1 .. Len(fs) -> Range(v.funcs)] /\ Len(fs) \in Nat
      <4>1. DOMAIN fs = 1 .. Len(fs) /\ Len(fs) \in Nat
        BY <2>2, SMT
      <4>2. \A i \in DOMAIN v.funcs : v.funcs[i] \in Range(v.funcs)
        BY DEF Range
      <4> QED
        BY <2>3, <2>6, <4>1, <4>2
    <3> QED
      BY <3>1, FunctionIsSeq
  <2>8. OneNodePerEntry(v, "Func", v.funcs)
    BY <2>3, <2>4, <2>6, <2>7 DEF OneNodePerEntry, Owners
  <2>9. OneNodePerEntry(v, "Cond", v.conds) /\ OneNodePerEntry(v, "Loop", v.loops)
    BY <2>3 DEF Good, Owns, OneNodePerEntry, Owners
  <2>10. TypedTables(v)
    BY <2>2, <2>3, <2>4, <2>5, <2>6 DEF TypedTables, fs
  <2>11. \A id \in DOMAIN v.nodes : TypedNode(v.nodes[id])
    BY <2>3 DEF Good, Typed
  <2>12. Good(v)
    BY <2>8, <2>9, <2>10, <2>11 DEF Good, Typed, Owns
  <2> QED
    BY <2>1, <2>12
<1> QED
  BY <1>1, ListGood DEF AddFunc, Hit

-----------------------------------------------------------------------------
(* The requests. *)
Answered == Kept(w, w') /\ ret' \in DOMAIN w'.nodes \cup {NONE}

(* A request answered with a node of the new world keeps the invariant, *)
LEMMA AnswerKeeps ==
    ASSUME NEW op, NEW ins, NEW t, NEW r, Answer(op, ins, t, r), Step(w, r)
    PROVE Answered
BY DEF Answered, Answer, Step, Kept

(* and so does one answered with a node there was. *)
LEMMA OldAnswerKeeps ==
    ASSUME NEW op, NEW ins, NEW t, NEW r, Answer(op, ins, t, r), Kept(w, r.w),
           r.id \in DOMAIN w.nodes \cup {NONE}
    PROVE Answered
BY DEF Answered, Answer, Kept, Grown

(* What requests are made of are nodes of the arena. *)
LEMMA ValuesAreIds ==
    /\ Values \subseteq DOMAIN w.nodes
    /\ States \subseteq DOMAIN w.nodes
    /\ \A op : OfOp(op) \subseteq DOMAIN w.nodes
    /\ MultiLoops \subseteq DOMAIN w.nodes
BY DEF Values, States, OfOp, MultiLoops, Ids

(* Whatever value is asked for, the world stays well made and grows. *)
LEMMA ValueRequests ==
    ASSUME WellMade(w),
           \/ AskKonst \/ AskKonstBool \/ AskBinop \/ AskCmp
           \/ AskNeg \/ AskNot \/ AskSelect
    PROVE Answered
<1>1. CASE AskKonst
  BY <1>1, KonstStep, AnswerKeeps DEF AskKonst
<1>2. CASE AskKonstBool
  BY <1>2, KonstBoolStep, AnswerKeeps DEF AskKonstBool
<1>3. CASE AskBinop
  <2>1. PICK op \in BinOps, a \in Values, b \in Values :
            Answer(op, <<a, b>>, Type(w, a), Binop(w, op, a, b))
    BY <1>3, Zenon DEF AskBinop
  <2>2. Step(w, Binop(w, op, a, b))
    BY ValuesAreIds, BinopStep
  <2> QED
    BY <2>1, <2>2, AnswerKeeps
<1>4. CASE AskCmp
  <2>1. PICK op \in CmpOps, a \in Values, b \in Values :
            Answer(op, <<a, b>>, "bool", Cmp(w, op, a, b))
    BY <1>4, Zenon DEF AskCmp
  <2>2. Step(w, Cmp(w, op, a, b))
    BY ValuesAreIds, CmpStep
  <2> QED
    BY <2>1, <2>2, AnswerKeeps
<1>5. CASE AskNeg
  BY <1>5, ValuesAreIds, UnaryStep, AnswerKeeps DEF AskNeg
<1>6. CASE AskNot
  BY <1>6, ValuesAreIds, UnaryStep, AnswerKeeps DEF AskNot
<1>7. CASE AskSelect
  <2>1. PICK c \in Values, a \in Values, b \in Values :
            Answer("Select", <<c, a, b>>, Type(w, a), Select(w, c, a, b))
    BY <1>7, Zenon DEF AskSelect
  <2>2. Step(w, Select(w, c, a, b))
    BY ValuesAreIds, SelectStep
  <2> QED
    BY <2>1, <2>2, AnswerKeeps
<1> QED
  BY <1>1, <1>2, <1>3, <1>4, <1>5, <1>6, <1>7

(* So it does whatever memory operation is asked for, *)
LEMMA MemoryRequests ==
    ASSUME WellMade(w),
           AskLoad \/ AskPureLoad \/ AskStore \/ AskMemStart \/ AskParam
    PROVE Answered
<1>1. CASE AskLoad
  BY <1>1, ValuesAreIds, MemoryStep, AnswerKeeps DEF AskLoad
<1>2. CASE AskPureLoad
  <2>1. PICK ptr \in Values, t \in {"word"} :
            Answer("PureLoad", <<ptr>>, t, PureLoad(w, ptr, t))
    BY <1>2 DEF AskPureLoad
  <2>2. Step(w, PureLoad(w, ptr, t))
    BY ValuesAreIds, MemoryStep
  <2> QED
    BY <2>1, <2>2, AnswerKeeps
<1>3. CASE AskStore
  <2>1. PICK ptr \in Values, val \in Values, st \in States :
            Answer("Store", <<ptr, val>>, "state", Store(w, ptr, val, st))
    BY <1>3, Zenon DEF AskStore
  <2>2. Step(w, Store(w, ptr, val, st))
    BY ValuesAreIds, MemoryStep
  <2> QED
    BY <2>1, <2>2, AnswerKeeps
<1>4. CASE AskMemStart
  <2>1. Step(w, Intern(w, Node("ConstInt", "state", <<>>)))
    BY EmptySeqOf, PlainStep DEF Commutative
  <2> QED
    BY <1>4, <2>1, AnswerKeeps DEF AskMemStart, MemStart
<1>5. CASE AskParam
  BY <1>5, ParamStep, AnswerKeeps DEF AskParam
<1> QED
  BY <1>1, <1>2, <1>3, <1>4, <1>5

(* and whatever conditional, loop or projection, *)
LEMMA RegionRequests ==
    ASSUME WellMade(w), AskCond \/ AskLoop \/ AskLoopMulti \/ AskProj
    PROVE Answered
<1>1. CASE AskCond
  <2>1. PICK p \in Values, arms \in {2, 3} : \E yields \in [1 .. arms -> Values] :
            LET t == Type(w, yields[1])
            IN  Answer("Cond", <<p>> \o yields, t, MakeCond(w, p, t, yields))
    BY <1>1, Zenon DEF AskCond
  <2>2. PICK yields \in [1 .. arms -> Values] :
            Answer("Cond", <<p>> \o yields, Type(w, yields[1]),
                   MakeCond(w, p, Type(w, yields[1]), yields))
    BY <2>1
  <2>3. /\ \A k \in DOMAIN yields : yields[k] \in DOMAIN w.nodes
        /\ {1, 2} \subseteq DOMAIN yields
        /\ p \in DOMAIN w.nodes
    BY ValuesAreIds, SMT
  <2>4. Step(w, MakeCond(w, p, Type(w, yields[1]), yields))
    BY <2>3, CondStep
  <2> QED
    BY <2>2, <2>4, AnswerKeeps
<1>2. CASE AskLoop
  <2>1. PICK p \in FreeParams, init \in Values, is_break \in Values, break_val \in Values :
            Answer("Loop", <<init>>, Type(w, break_val),
                   MakeLoop(w, <<init>>, Type(w, break_val), <<p>>, is_break, break_val, <<p>>))
    BY <1>2, Zenon DEF AskLoop
  <2>2. <<init>> \in Seq(DOMAIN w.nodes)
    BY ValuesAreIds, ShortSeqs
  <2>3. Step(w, MakeLoop(w, <<init>>, Type(w, break_val), <<p>>, is_break, break_val, <<p>>))
    BY <2>2, LoopStep DEF MakeLoop
  <2> QED
    BY <2>1, <2>3, AnswerKeeps
<1>3. CASE AskLoopMulti
  <2>1. PICK p \in FreeParams, init \in Values, is_break \in Values, break_val \in Values :
            Answer("LoopMulti", <<init>>, "void",
                   MakeLoopMulti(w, <<init>>, <<p>>, is_break, <<break_val, p>>, <<p>>))
    BY <1>3, Zenon DEF AskLoopMulti
  <2>2. <<init>> \in Seq(DOMAIN w.nodes)
    BY ValuesAreIds, ShortSeqs
  <2>3. Step(w, MakeLoopMulti(w, <<init>>, <<p>>, is_break, <<break_val, p>>, <<p>>))
    BY <2>2, LoopStep DEF MakeLoopMulti
  <2> QED
    BY <2>1, <2>3, AnswerKeeps
<1>4. CASE AskProj
  <2>1. PICK region \in MultiLoops : \E k, t :
            Answer("Proj", <<region>>, t, Proj(w, region, k - 1, t))
    BY <1>4, Zenon DEF AskProj
  <2>2. \A k, t : Step(w, Proj(w, region, k, t))
    BY ValuesAreIds, ProjStep
  <2> QED
    BY <2>1, <2>2, AnswerKeeps
<1> QED
  BY <1>1, <1>2, <1>3, <1>4

(* and whatever is done to functions. *)
LEMMA FunctionRequests ==
    ASSUME WellMade(w),
           AskFunc \/ AskEndFunc \/ AskCall \/ AskAddFunc \/ AskKeepFuncs
    PROVE Answered
<1>1. CASE AskFunc
  <2>1. PICK t \in {"word"}, has_state \in BOOLEAN :
            Answer("Func", <<>>, "func", BeginFunc(w, <<t>>, t, has_state))
    BY <1>1 DEF AskFunc
  <2>2. <<t>> \in Seq({"word"})
    BY ShortSeqs
  <2>3. Step(w, BeginFunc(w, <<t>>, t, has_state))
    BY <2>2, FuncStep
  <2> QED
    BY <2>1, <2>3, AnswerKeeps
<1>2. CASE AskEndFunc
  <2>1. PICK func \in OfOp("Func") : \E a, b : Answer("EndFunc", <<func>>, "func", EndFunc(w, func, a, b))
    BY <1>2, Zenon DEF AskEndFunc
  <2>2. \A a, b : Kept(w, EndFunc(w, func, a, b).w) /\ EndFunc(w, func, a, b).id = func
    BY FunctionListKept DEF EndFunc, Hit
  <2> QED
    BY <2>1, <2>2, ValuesAreIds, OldAnswerKeeps
<1>3. CASE AskCall
  <2>1. PICK func \in OfOp("Func"), arg \in Values, st \in States \cup {NONE} :
            Answer("Call", <<arg>>, Info(w, func).result_type, Call(w, func, <<arg>>, st))
    BY <1>3, Zenon DEF AskCall
  <2>2. <<arg>> \in Seq(DOMAIN w.nodes) /\ st \in DOMAIN w.nodes \cup {NONE}
    BY ValuesAreIds, ShortSeqs
  <2>3. Step(w, Call(w, func, <<arg>>, st))
    BY <2>2, CallStep
  <2> QED
    BY <2>1, <2>3, AnswerKeeps
<1>4. CASE AskAddFunc
  <2>1. PICK func \in OfOp("Func") : Answer("AddFunc", <<func>>, "func", AddFunc(w, func))
    BY <1>4 DEF AskAddFunc
  <2>2. Kept(w, AddFunc(w, func).w) /\ AddFunc(w, func).id = func
    BY FunctionListKept DEF AddFunc, Hit
  <2> QED
    BY <2>1, <2>2, ValuesAreIds, OldAnswerKeeps
<1>5. CASE AskKeepFuncs
  <2>1. PICK keep : Answer("KeepFuncs", <<>>, "func", KeepFuncs(w, keep))
    BY <1>5, Zenon DEF AskKeepFuncs
  <2>2. \A func : Kept(w, KeepFuncs(w, keep).w)
    BY FunctionListKept
  <2>3. KeepFuncs(w, keep).id = NONE
    BY DEF KeepFuncs, Hit
  <2> QED
    BY <2>1, <2>2, <2>3, OldAnswerKeeps
<1> QED
  BY <1>1, <1>2, <1>3, <1>4, <1>5

(* Every step keeps the world well made and every node as it is. *)
LEMMA NextKeeps ==
    ASSUME WellMade(w), [Next]_vars
    PROVE Kept(w, w')
<1>1. CASE Request
  BY <1>1, ValueRequests, MemoryRequests, RegionRequests, FunctionRequests
     DEF Request, Answered
<1>2. CASE UNCHANGED vars
  BY <1>2 DEF vars, Kept, Grown
<1> QED
  BY <1>1, <1>2 DEF Next, Finished

(* A request answered well leaves a good world. *)
LEMMA AnswerGood ==
    ASSUME NEW op, NEW ins, NEW t, NEW r, Answer(op, ins, t, r), Good(r.w)
    PROVE  Good(w')
  BY DEF Answer

(* The answers to requests for values are good, *)
LEMMA ValuesGood ==
    ASSUME WellMade(w), Good(w),
           \/ AskKonst \/ AskKonstBool \/ AskBinop \/ AskCmp
           \/ AskNeg \/ AskNot \/ AskSelect
    PROVE  Good(w')
<1>1. CASE AskKonst
  <2>1. PICK lit \in Literals :
            Answer("ConstInt", <<>>, lit[2], Konst(w, lit[1], lit[2]))
    BY <1>1, Zenon DEF AskKonst
  <2>2. lit[1] \in Int64 /\ lit[2] \in Types
    BY RequestsAssumption
  <2>3. Good(Konst(w, lit[1], lit[2]).w)
    BY <2>2, KonstGood
  <2> QED
    BY <2>1, <2>3, AnswerGood
<1>2. CASE AskKonstBool
  BY <1>2, KonstBoolGood, AnswerGood DEF AskKonstBool
<1>3. CASE AskBinop
  <2>1. PICK op \in BinOps, a \in Values, b \in Values :
            Answer(op, <<a, b>>, Type(w, a), Binop(w, op, a, b))
    BY <1>3, Zenon DEF AskBinop
  <2>2. Good(Binop(w, op, a, b).w)
    BY ValuesAreIds, BinopGood
  <2> QED
    BY <2>1, <2>2, AnswerGood
<1>4. CASE AskCmp
  <2>1. PICK op \in CmpOps, a \in Values, b \in Values :
            Answer(op, <<a, b>>, "bool", Cmp(w, op, a, b))
    BY <1>4, Zenon DEF AskCmp
  <2>2. Good(Cmp(w, op, a, b).w)
    BY CmpGood
  <2> QED
    BY <2>1, <2>2, AnswerGood
<1>5. CASE AskNeg
  BY <1>5, ValuesAreIds, UnaryGood, AnswerGood DEF AskNeg
<1>6. CASE AskNot
  BY <1>6, ValuesAreIds, UnaryGood, AnswerGood DEF AskNot
<1>7. CASE AskSelect
  <2>1. PICK c \in Values, a \in Values, b \in Values :
            Answer("Select", <<c, a, b>>, Type(w, a), Select(w, c, a, b))
    BY <1>7, Zenon DEF AskSelect
  <2>2. Good(Select(w, c, a, b).w)
    BY ValuesAreIds, SelectGood
  <2> QED
    BY <2>1, <2>2, AnswerGood
<1> QED
  BY <1>1, <1>2, <1>3, <1>4, <1>5, <1>6, <1>7

(* to requests for memory operations, *)
LEMMA MemoryGood ==
    ASSUME WellMade(w), Good(w),
           AskLoad \/ AskPureLoad \/ AskStore \/ AskMemStart \/ AskParam
    PROVE  Good(w')
<1>1. CASE AskLoad
  <2>1. PICK ptr \in Values, st \in States, t \in {"word"} :
            Answer("Load", <<ptr>>, t, Load(w, ptr, st, t))
    BY <1>1, Zenon DEF AskLoad
  <2>2. st \in Nat /\ t \in Types /\ 0 \in Nat
    BY ValuesAreIds, NodeFacts DEF Types
  <2>3. Good(Load(w, ptr, st, t).w)
    BY <2>2, EffectGood DEF Load
  <2> QED
    BY <2>1, <2>3, AnswerGood
<1>2. CASE AskPureLoad
  <2>1. PICK ptr \in Values, t \in {"word"} :
            Answer("PureLoad", <<ptr>>, t, PureLoad(w, ptr, t))
    BY <1>2 DEF AskPureLoad
  <2>2. Good(PureLoad(w, ptr, t).w)
    BY InternGood DEF PureLoad, ConstOps, RegionOps, Types
  <2> QED
    BY <2>1, <2>2, AnswerGood
<1>3. CASE AskStore
  <2>1. PICK ptr \in Values, val \in Values, st \in States :
            Answer("Store", <<ptr, val>>, "state", Store(w, ptr, val, st))
    BY <1>3, Zenon DEF AskStore
  <2>2. st \in Nat /\ "state" \in Types /\ 0 \in Nat
    BY ValuesAreIds, NodeFacts DEF Types
  <2>3. Good(Store(w, ptr, val, st).w)
    BY <2>2, EffectGood DEF Store
  <2> QED
    BY <2>1, <2>3, AnswerGood
<1>4. CASE AskMemStart
  <2>1. 0 \in ValuesOf("state")
    BY ZeroFits
  <2>2. TypedNode(Node("ConstInt", "state", <<>>))
    BY <2>1 DEF TypedNode, Node, NONE, ConstOps, Types
  <2>3. Node("ConstInt", "state", <<>>).op \notin RegionOps
    BY DEF Node, RegionOps
  <2>4. Good(MemStart(w).w)
    BY <2>2, <2>3, PlainGood DEF MemStart
  <2> QED
    BY <1>4, <2>4, AnswerGood DEF AskMemStart
<1>5. CASE AskParam
  <2>1. PICK t \in {"word", "state"} : Answer("Param", <<>>, t, Param(w, t, 0))
    BY <1>5 DEF AskParam
  <2>2. t \in Types /\ 0 \in Nat
    BY DEF Types
  <2>3. Good(Param(w, t, 0).w)
    BY <2>2, EffectGood DEF Param
  <2> QED
    BY <2>1, <2>3, AnswerGood
<1> QED
  BY <1>1, <1>2, <1>3, <1>4, <1>5

(* to requests for regions and projections, *)
LEMMA RegionsGood ==
    ASSUME WellMade(w), Good(w), AskCond \/ AskLoop \/ AskLoopMulti \/ AskProj
    PROVE  Good(w')
<1>1. CASE AskCond
  <2>1. PICK p \in Values, arms \in {2, 3} : \E yields \in [1 .. arms -> Values] :
            LET t == Type(w, yields[1])
            IN  Answer("Cond", <<p>> \o yields, t, MakeCond(w, p, t, yields))
    BY <1>1, Zenon DEF AskCond
  <2>2. PICK yields \in [1 .. arms -> Values] :
            Answer("Cond", <<p>> \o yields, Type(w, yields[1]),
                   MakeCond(w, p, Type(w, yields[1]), yields))
    BY <2>1
  <2>3. yields[1] \in DOMAIN w.nodes /\ p \in DOMAIN w.nodes
    BY ValuesAreIds, SMT
  <2>4. Type(w, yields[1]) \in Types
    BY <2>3, NodeFacts
  <2>5. Good(MakeCond(w, p, Type(w, yields[1]), yields).w)
    BY <2>3, <2>4, CondGood
  <2> QED
    BY <2>2, <2>5, AnswerGood
<1>2. CASE AskLoop
  <2>1. PICK p \in FreeParams, init \in Values, is_break \in Values, break_val \in Values :
            Answer("Loop", <<init>>, Type(w, break_val),
                   MakeLoop(w, <<init>>, Type(w, break_val), <<p>>, is_break, break_val, <<p>>))
    BY <1>2, Zenon DEF AskLoop
  <2>2. Type(w, break_val) \in Types /\ <<>> \in Seq(DOMAIN w.nodes)
    BY ValuesAreIds, NodeFacts, EmptySeqOf
  <2>3. Good(MakeLoop(w, <<init>>, Type(w, break_val), <<p>>, is_break, break_val, <<p>>).w)
    BY <2>2, LoopGood DEF MakeLoop
  <2> QED
    BY <2>1, <2>3, AnswerGood
<1>3. CASE AskLoopMulti
  <2>1. PICK p \in FreeParams, init \in Values, is_break \in Values, break_val \in Values :
            Answer("LoopMulti", <<init>>, "void",
                   MakeLoopMulti(w, <<init>>, <<p>>, is_break, <<break_val, p>>, <<p>>))
    BY <1>3, Zenon DEF AskLoopMulti
  <2>2. p \in DOMAIN w.nodes /\ break_val \in DOMAIN w.nodes
    BY ValuesAreIds DEF FreeParams
  <2>3. <<break_val, p>> \in Seq(DOMAIN w.nodes) /\ "void" \in Types
    BY <2>2, ShortSeqs DEF Types
  <2>4. Good(MakeLoopMulti(w, <<init>>, <<p>>, is_break, <<break_val, p>>, <<p>>).w)
    BY <2>3, LoopGood DEF MakeLoopMulti
  <2> QED
    BY <2>1, <2>4, AnswerGood
<1>4. CASE AskProj
  <2>1. PICK region \in MultiLoops :
            \E k \in DOMAIN w.loops[w.nodes[region].region].break_vals :
                LET t == Type(w, w.loops[w.nodes[region].region].break_vals[k])
                IN  Answer("Proj", <<region>>, t, Proj(w, region, k - 1, t))
    BY <1>4, Zenon DEF AskProj
  <2> DEFINE entry == w.nodes[region].region
             vals == w.loops[entry].break_vals
  <2>2. PICK k \in DOMAIN vals :
            LET t == Type(w, vals[k])
            IN  Answer("Proj", <<region>>, t, Proj(w, region, k - 1, t))
    BY <2>1
  <2>3. region \in Owners(w, "Loop")
    BY DEF MultiLoops, OfOp, Ids, Owners, Op
  <2>4. entry \in DOMAIN w.loops
    BY <2>3 DEF Good, Owns, OneNodePerEntry
  <2>5. vals \in Seq(DOMAIN w.nodes)
    BY <2>4 DEF Good, Typed, TypedTables
  <2> HIDE DEF vals
  <2>6. vals[k] \in DOMAIN w.nodes /\ k - 1 \in Nat
    BY <2>5, SMT
  <2> DEFINE t == Type(w, vals[k])
  <2>7. t \in Types
    BY <2>6, NodeFacts
  <2>8. Answer("Proj", <<region>>, t, Proj(w, region, k - 1, t))
    BY <2>2
  <2> HIDE DEF t
  <2>9. Good(Proj(w, region, k - 1, t).w)
    BY <2>6, <2>7, EffectGood DEF Proj
  <2> QED
    BY <2>8, <2>9, AnswerGood
<1> QED
  BY <1>1, <1>2, <1>3, <1>4

(* and to requests about functions. *)
LEMMA FunctionsGood ==
    ASSUME WellMade(w), Good(w),
           AskFunc \/ AskEndFunc \/ AskCall \/ AskAddFunc \/ AskKeepFuncs
    PROVE  Good(w')
<1>0. OfOp("Func") = Owners(w, "Func")
  BY DEF OfOp, Ids, Owners, Op
<1>1. CASE AskFunc
  <2>1. PICK t \in {"word"}, has_state \in BOOLEAN :
            Answer("Func", <<>>, "func", BeginFunc(w, <<t>>, t, has_state))
    BY <1>1 DEF AskFunc
  <2>2. t \in Types /\ <<t>> \in Seq(Types)
    BY ShortSeqs DEF Types
  <2>3. Good(BeginFunc(w, <<t>>, t, has_state).w)
    BY <2>2, FuncGood
  <2> QED
    BY <2>1, <2>3, AnswerGood
<1>2. CASE AskEndFunc
  <2>1. PICK func \in OfOp("Func") : \E a, b : Answer("EndFunc", <<func>>, "func", EndFunc(w, func, a, b))
    BY <1>2, Zenon DEF AskEndFunc
  <2>2. \A a, b : Good(EndFunc(w, func, a, b).w)
    BY <1>0, FunctionListGood
  <2> QED
    BY <2>1, <2>2, AnswerGood
<1>3. CASE AskCall
  <2>1. PICK func \in OfOp("Func"), arg \in Values, st \in States \cup {NONE} :
            Answer("Call", <<arg>>, Info(w, func).result_type, Call(w, func, <<arg>>, st))
    BY <1>3, Zenon DEF AskCall
  <2> DEFINE t == Info(w, func).result_type
  <2>2. func \in Owners(w, "Func") /\ func \in DOMAIN w.nodes
    BY <1>0, ValuesAreIds
  <2>3. t \in Types
    BY <2>2 DEF Good, Owns, OneNodePerEntry, Typed, TypedTables, Info
  <2>4. st \in Nat /\ func \in Nat
    BY <2>2, ValuesAreIds, NodeFacts DEF NONE
  <2>5. Call(w, func, <<arg>>, st)
            = Fresh(w, [Node("Call", t, <<arg>>) EXCEPT !.state_in = st, !.imm = func])
    BY DEF Call
  <2> HIDE DEF t
  <2>6. Good(Call(w, func, <<arg>>, st).w)
    BY <2>3, <2>4, <2>5, EffectGood
  <2> QED
    BY <2>1, <2>6, AnswerGood
<1>4. CASE AskAddFunc
  <2>1. PICK func \in OfOp("Func") : Answer("AddFunc", <<func>>, "func", AddFunc(w, func))
    BY <1>4 DEF AskAddFunc
  <2>2. Good(AddFunc(w, func).w)
    BY <1>0, FunctionListGood
  <2> QED
    BY <2>1, <2>2, AnswerGood
<1>5. CASE AskKeepFuncs
  <2>1. PICK keep : Answer("KeepFuncs", <<>>, "func", KeepFuncs(w, keep))
    BY <1>5, Zenon DEF AskKeepFuncs
  <2>2. Good(KeepFuncs(w, keep).w)
    BY ListGood DEF KeepFuncs, Hit
  <2> QED
    BY <2>1, <2>2, AnswerGood
<1> QED
  BY <1>1, <1>2, <1>3, <1>4, <1>5

-----------------------------------------------------------------------------
(* A world stays well made: the table holds every node of the value strand  *)
(* once, operands are older than their users and in canonical order.        *)
THEOREM Invariance == Spec => []WellMade(w)
<1>1. Init => WellMade(w)
  BY StartAssumption DEF Init
<1>2. WellMade(w) /\ [Next]_vars => WellMade(w)'
  BY NextKeeps DEF Kept
<1> QED
  BY <1>1, <1>2, PTL DEF Spec

(* Structural equality is identity, as World::intern intends: whatever was  *)
(* asked for, no two nodes of the value strand compare equal.               *)
THEOREM StructureIsIdentity == Spec => []HashConsed
<1>1. WellMade(w) => HashConsed
  <2> SUFFICES ASSUME WellMade(w), NEW i \in Ids, NEW j \in Ids,
                      Shared(w.nodes[i]), NodeEq(w.nodes[i], w.nodes[j])
               PROVE i = j
    BY DEF HashConsed
  <2>1. Shared(w.nodes[j])
    BY DEF Shared, NodeEq
  <2>2. i \in w.interned /\ j \in w.interned
    BY <2>1 DEF WellMade, Ids
  <2> QED
    BY <2>2 DEF WellMade
<1> QED
  BY <1>1, Invariance, PTL

(* No request changes a node that is there: an id keeps its meaning.        *)
THEOREM NodesNeverChange == Spec => [][Grown(w, w')]_vars
<1>1. WellMade(w) /\ [Next]_vars => [Grown(w, w')]_vars
  BY NextKeeps DEF Kept
<1> QED
  BY <1>1, Invariance, PTL DEF Spec

-----------------------------------------------------------------------------
(* Every request counts. *)
LEMMA RequestCounts ==
    ASSUME Request
    PROVE  count' = count + 1
  BY Zenon DEF Request, AskKonst, AskKonstBool, AskBinop, AskCmp, AskNeg, AskNot,
         AskSelect, AskLoad, AskPureLoad, AskStore, AskMemStart, AskParam, AskCond,
         AskLoop, AskLoopMulti, AskProj, AskFunc, AskEndFunc, AskCall, AskAddFunc,
         AskKeepFuncs, Answer

(* The world, the tables of its regions, and the answer last given. *)
WorldIInv ==
    /\ WellMade(w) /\ Good(w)
    /\ ret \in Ids \cup {NONE}
    /\ count \in 0 .. MaxRequests

(* The world is sound throughout: well made, and its nodes and the entries  *)
(* of its tables are of the shapes they should be, each with its owner.     *)
THEOREM WorldInvariance == Spec => []WorldIInv
<1>1. Init => WorldIInv
  BY StartAssumption, RequestsAssumption DEF Init, WorldIInv, Good
<1>2. WorldIInv /\ [Next]_vars => WorldIInv'
  <2> SUFFICES ASSUME WorldIInv, [Next]_vars PROVE WorldIInv'
    OBVIOUS
  <2>1. CASE count < MaxRequests /\ Request
    <3>1. Answered
      BY <2>1, ValueRequests, MemoryRequests, RegionRequests, FunctionRequests
         DEF Request, WorldIInv
    <3>2. Good(w')
      BY <2>1, ValuesGood, MemoryGood, RegionsGood, FunctionsGood DEF Request, WorldIInv
    <3>3. count' \in 0 .. MaxRequests
      BY <2>1, RequestCounts, RequestsAssumption DEF WorldIInv
    <3> QED
      BY <3>1, <3>2, <3>3 DEF WorldIInv, Answered, Kept, Ids
  <2>2. CASE UNCHANGED vars
    BY <2>2 DEF vars, WorldIInv, Ids
  <2> QED
    BY <2>1, <2>2 DEF Next, Finished
<1> QED
  BY <1>1, <1>2, PTL DEF Spec

(* Whatever is asked for, at whatever widths: every node is in the shape    *)
(* its op has, every constant is a value of its type, the graph is acyclic. *)
THEOREM NodesKeepTheirShapes == Spec => []TypeOK
<1>1. WorldIInv => TypeOK
  <2> SUFFICES ASSUME WorldIInv PROVE TypeOK
    OBVIOUS
  <2>1. DOMAIN w = DOMAIN EmptyWorld /\ OperandsOlder(w) /\ w.interned \subseteq Ids
    BY DEF WorldIInv, WellMade, Ids
  <2>2. \A id \in Ids : TypedNode(w.nodes[id])
    BY DEF WorldIInv, Good, Typed, Ids
  <2> QED
    BY <2>1, <2>2 DEF WorldIInv, TypeOK
<1> QED
  BY <1>1, WorldInvariance, PTL

(* Every entry of the tables of functions, conditionals and loops belongs   *)
(* to exactly one node, however the constructors fold, share or hit: no     *)
(* two region nodes ever speak of one body.                                 *)
THEOREM RegionsOwnTheirTables == Spec => []SideTablesOwned
<1>1. WorldIInv => SideTablesOwned
  BY DEF WorldIInv, Good, SideTablesOwned
<1> QED
  BY <1>1, WorldInvariance, PTL


-----------------------------------------------------------------------------
(***************************************************************************)
(* The rewrites of the constructors: for words of any width and any        *)
(* requests whose operands agree (see Agree), what is built is in normal   *)
(* form and has the value that was asked for.                              *)
(***************************************************************************)
(* The conditionals of u still have their arms in v. *)
SameArms(u, v) == \A k \in DOMAIN u.conds : k \in DOMAIN v.conds /\ v.conds[k] = u.conds[k]

-----------------------------------------------------------------------------
(* Normal forms survive growth. *)

(* What is asked of a node there is has the same answer in a grown world. *)
LEMMA SameAnswers ==
    ASSUME NEW u, NEW v, Grown(u, v), NEW a \in DOMAIN u.nodes
    PROVE  /\ a \in DOMAIN v.nodes /\ v.nodes[a] = u.nodes[a]
           /\ Op(v, a) = Op(u, a) /\ Type(v, a) = Type(u, a) /\ Imm(v, a) = Imm(u, a)
           /\ IsConst(v, a) <=> IsConst(u, a)
           /\ \A k : ConstIs(v, a, k) <=> ConstIs(u, a, k)
  BY DEF Grown, Op, Type, Imm, IsConst, ConstIs

(* No rule comes to apply. *)
LEMMA StaysIrreducible ==
    ASSUME NEW u, NEW v, Grown(u, v), NEW op, NEW a \in DOMAIN u.nodes,
           NEW b \in DOMAIN u.nodes, Irreducible(u, op, a, b)
    PROVE  Irreducible(v, op, a, b)
<1>1. /\ Imm(v, b) = Imm(u, b) /\ (IsConst(v, a) <=> IsConst(u, a))
      /\ IsConst(v, b) <=> IsConst(u, b)
      /\ \A k : ConstIs(v, b, k) <=> ConstIs(u, b, k)
  BY SameAnswers
<1>2. /\ Swaps(v, op, a, b) <=> Swaps(u, op, a, b)
      /\ KeepsFirst(v, op, a, b) <=> KeepsFirst(u, op, a, b)
      /\ GivesZero(v, op, a, b) <=> GivesZero(u, op, a, b)
  BY <1>1 DEF Swaps, KeepsFirst, GivesZero
<1> QED
  BY <1>1, <1>2 DEF Irreducible

(* The operands of a node in the shape its constructor gives it. *)
LEMMA ShapedOperands ==
    ASSUME NEW u, WellMade(u), NEW id \in DOMAIN u.nodes, NEW op, NEW t, NEW ins,
           u.nodes[id] = Node(op, t, ins), NEW k \in DOMAIN ins
    PROVE  ins[k] \in 1 .. id - 1 /\ ins[k] \in DOMAIN u.nodes
<1>1. Range(ins) \subseteq Operands(u.nodes[id])
  BY DEF Operands, Node
<1>2. ins[k] \in 1 .. id - 1
  BY <1>1 DEF WellMade, OperandsOlder, Range
<1> QED
  BY <1>2, ArenaDomain, SMT

(* A formed node stays formed. *)
LEMMA StaysFormed ==
    ASSUME NEW u, WellMade(u), Good(u), NEW v, Grown(u, v), SameArms(u, v),
           NEW id \in DOMAIN u.nodes, Formed(u, id)
    PROVE  Formed(v, id)
<1> DEFINE n == u.nodes[id]
           a == n.ins[1]
           b == n.ins[2]
           c == n.ins[3]
<1>1. v.nodes[id] = n
  BY DEF Grown
<1>2. ASSUME n.op \in BinOps
      PROVE  n = Node(n.op, Type(v, a), <<a, b>>) /\ Irreducible(v, n.op, a, b)
  <2>1. n = Node(n.op, Type(u, a), <<a, b>>) /\ Irreducible(u, n.op, a, b)
    BY <1>2 DEF Formed
  <2>2. a \in DOMAIN u.nodes /\ b \in DOMAIN u.nodes
    <3> DEFINE ins == <<a, b>>
    <3>1. 1 \in DOMAIN ins /\ 2 \in DOMAIN ins /\ ins[1] = a /\ ins[2] = b
      OBVIOUS
    <3> HIDE DEF ins, a, b, n
    <3>2. u.nodes[id] = Node(n.op, Type(u, a), ins)
      BY <2>1 DEF ins, n
    <3> QED
      BY <3>1, <3>2, ShapedOperands
  <2> HIDE DEF n, a, b
  <2> QED
    BY <2>1, <2>2, SameAnswers, StaysIrreducible
<1>3. ASSUME n.op \in CmpOps
      PROVE  /\ n = Node(n.op, "bool", <<a, b>>)
             /\ a # b /\ ~(IsConst(v, a) /\ IsConst(v, b))
  <2>1. n = Node(n.op, "bool", <<a, b>>) /\ a # b /\ ~(IsConst(u, a) /\ IsConst(u, b))
    BY <1>3 DEF Formed
  <2>2. a \in DOMAIN u.nodes /\ b \in DOMAIN u.nodes
    <3> DEFINE ins == <<a, b>>
    <3>1. 1 \in DOMAIN ins /\ 2 \in DOMAIN ins /\ ins[1] = a /\ ins[2] = b
      OBVIOUS
    <3> HIDE DEF ins, a, b, n
    <3>2. u.nodes[id] = Node(n.op, "bool", ins)
      BY <2>1 DEF ins, n
    <3> QED
      BY <3>1, <3>2, ShapedOperands
  <2> HIDE DEF n, a, b
  <2> QED
    BY <2>1, <2>2, SameAnswers
<1>4. ASSUME n.op \in {"Neg", "Not"}
      PROVE  n = Node(n.op, Type(v, a), <<a>>) /\ ~IsConst(v, a)
  <2>1. n = Node(n.op, Type(u, a), <<a>>) /\ ~IsConst(u, a)
    BY <1>4 DEF Formed
  <2>2. a \in DOMAIN u.nodes
    <3> DEFINE ins == <<a>>
    <3>1. 1 \in DOMAIN ins /\ ins[1] = a
      OBVIOUS
    <3> HIDE DEF ins, a, n
    <3>2. u.nodes[id] = Node(n.op, Type(u, a), ins)
      BY <2>1 DEF ins, n
    <3> QED
      BY <3>1, <3>2, ShapedOperands
  <2> HIDE DEF n, a
  <2> QED
    BY <2>1, <2>2, SameAnswers
<1>5. ASSUME n.op = "Select"
      PROVE  /\ n = Node("Select", Type(v, b), <<a, b, c>>)
             /\ Type(v, c) = Type(v, b) /\ b # c /\ ~IsConst(v, a)
  <2>1. /\ n = Node("Select", Type(u, b), <<a, b, c>>)
        /\ Type(u, c) = Type(u, b) /\ b # c /\ ~IsConst(u, a)
    BY <1>5 DEF Formed
  <2>2. a \in DOMAIN u.nodes /\ b \in DOMAIN u.nodes /\ c \in DOMAIN u.nodes
    <3> DEFINE ins == <<a, b, c>>
    <3>1. {1, 2, 3} \subseteq DOMAIN ins /\ ins[1] = a /\ ins[2] = b /\ ins[3] = c
      OBVIOUS
    <3> HIDE DEF ins, a, b, c, n
    <3>2. u.nodes[id] = Node("Select", Type(u, b), ins)
      BY <2>1 DEF ins, n
    <3> QED
      BY <3>1, <3>2, ShapedOperands
  <2> HIDE DEF n, a, b, c
  <2> QED
    BY <2>1, <2>2, SameAnswers
<1>6. ASSUME n.op = "Cond"
      PROVE  /\ n.ins = <<a>> /\ v.conds[n.region] \in Seq(1 .. id - 1)
             /\ \A y \in Range(v.conds[n.region]) : Type(v, y) = n.type
  <2>1. /\ n.ins = <<a>> /\ u.conds[n.region] \in Seq(1 .. id - 1)
        /\ \A y \in Range(u.conds[n.region]) : Type(u, y) = n.type
    BY <1>6 DEF Formed
  <2>2. n.region \in DOMAIN u.conds
    BY <1>6 DEF Good, Owns, OneNodePerEntry, Owners
  <2>3. v.conds[n.region] = u.conds[n.region]
    BY <2>2 DEF SameArms
  <2>4. Range(u.conds[n.region]) \subseteq DOMAIN u.nodes
    <3>1. Range(u.conds[n.region]) \subseteq 1 .. id - 1
      <4> DEFINE s == u.conds[n.region]
                 S == 1 .. id - 1
      <4>1. s \in Seq(S)
        BY <2>1
      <4> HIDE DEF s, S
      <4>2. Range(s) \subseteq S
        BY <4>1, SMT DEF Range
      <4> QED
        BY <4>2 DEF s, S
    <3> QED
      BY <3>1, ArenaDomain, SMT
  <2> HIDE DEF n, a
  <2> QED
    BY <2>1, <2>3, <2>4, SameAnswers
<1> QED
  BY <1>1, <1>2, <1>3, <1>4, <1>5, <1>6, Zenon DEF Formed

(* Growth by formed nodes. *)
LEMMA GrowFormed ==
    ASSUME NEW u, WellMade(u), Good(u), AllFormed(u), NEW v, Grown(u, v), SameArms(u, v),
           \A id \in DOMAIN v.nodes \ DOMAIN u.nodes : Formed(v, id)
    PROVE  AllFormed(v)
  BY StaysFormed DEF AllFormed

(* A node that will be formed wherever it stands in a world grown from u. *)
Forms(u, n) == \A v, id : Grown(u, v) /\ v.nodes[id] = n => Formed(v, id)

(* Nodes that are no computation have no normal form to keep. *)
LEMMA PlainForms ==
    ASSUME NEW u, NEW n, n.op \notin Computed
    PROVE  Forms(u, n)
  BY Zenon DEF Forms, Formed, Computed

(* One more node, looked up or not. *)
LEMMA NodeFormed ==
    ASSUME NEW u, WellMade(u), Good(u), AllFormed(u), NEW n, Forms(u, n)
    PROVE  /\ Step(u, Fresh(u, n)) => AllFormed(Fresh(u, n).w)
           /\ Step(u, Intern(u, n)) => AllFormed(Intern(u, n).w)
<1>1. DOMAIN u = DOMAIN EmptyWorld /\ u.nodes \in Seq(Range(u.nodes))
  BY DEF WellMade
<1>2. ASSUME NEW v, v.nodes = Append(u.nodes, n), v.conds = u.conds, Grown(u, v)
      PROVE  AllFormed(v)
  <2>1. DOMAIN v.nodes \ DOMAIN u.nodes = {Len(u.nodes) + 1} /\ v.nodes[Len(u.nodes) + 1] = n
    BY <1>1, <1>2, ArenaAppend, ArenaDomain, SMT
  <2>2. SameArms(u, v)
    BY <1>2 DEF SameArms
  <2>3. Formed(v, Len(u.nodes) + 1)
    BY <1>2, <2>1 DEF Forms
  <2> QED
    BY <1>2, <2>1, <2>2, <2>3, GrowFormed
<1>3. Fresh(u, n).w.nodes = Append(u.nodes, n) /\ Fresh(u, n).w.conds = u.conds
  BY <1>1, FreshFields
<1>4. Step(u, Fresh(u, n)) => AllFormed(Fresh(u, n).w)
  BY <1>2, <1>3 DEF Step
<1>5. \/ Intern(u, n).w = u
      \/ Intern(u, n).w.nodes = Append(u.nodes, n) /\ Intern(u, n).w.conds = u.conds
  BY <1>1, SMT DEF Intern, Fresh, EmptyWorld
<1>6. Step(u, Intern(u, n)) => AllFormed(Intern(u, n).w)
  BY <1>2, <1>5 DEF Step
<1> QED
  BY <1>4, <1>6

(* Nodes in the shape of their op, of operands no rule applies to. *)
LEMMA ComputedForms ==
    ASSUME NEW u, NEW a \in DOMAIN u.nodes, NEW b \in DOMAIN u.nodes,
           NEW c \in DOMAIN u.nodes
    PROVE  /\ \A op \in BinOps :
                Irreducible(u, op, a, b) => Forms(u, Node(op, Type(u, a), <<a, b>>))
           /\ \A op \in CmpOps :
                a # b /\ ~(IsConst(u, a) /\ IsConst(u, b))
                   => Forms(u, Node(op, "bool", <<a, b>>))
           /\ \A op \in {"Neg", "Not"} :
                ~IsConst(u, a) => Forms(u, Node(op, Type(u, a), <<a>>))
           /\ ~IsConst(u, c) /\ a # b /\ Type(u, a) = Type(u, b)
                => Forms(u, Node("Select", Type(u, a), <<c, a, b>>))
<1>1. ASSUME NEW op \in BinOps, Irreducible(u, op, a, b),
             NEW v, NEW id, Grown(u, v), v.nodes[id] = Node(op, Type(u, a), <<a, b>>)
      PROVE  Formed(v, id)
  <2> DEFINE n == v.nodes[id]
  <2>1. n.op = op /\ n.ins = <<a, b>> /\ n.ins[1] = a /\ n.ins[2] = b
    BY <1>1 DEF Node
  <2>2. Type(v, a) = Type(u, a) /\ Irreducible(v, op, a, b)
    BY <1>1, SameAnswers, StaysIrreducible
  <2>3. op \notin CmpOps \cup {"Neg", "Not", "Select", "Cond"}
    BY DEF BinOps, CmpOps
  <2> QED
    BY <1>1, <2>1, <2>2, <2>3 DEF Formed
<1>2. ASSUME NEW op \in CmpOps, a # b, ~(IsConst(u, a) /\ IsConst(u, b)),
             NEW v, NEW id, Grown(u, v), v.nodes[id] = Node(op, "bool", <<a, b>>)
      PROVE  Formed(v, id)
  <2> DEFINE n == v.nodes[id]
  <2>1. n.op = op /\ n.ins = <<a, b>> /\ n.ins[1] = a /\ n.ins[2] = b
    BY <1>2 DEF Node
  <2>2. ~(IsConst(v, a) /\ IsConst(v, b))
    BY <1>2, SameAnswers
  <2>3. op \notin BinOps \cup {"Neg", "Not", "Select", "Cond"}
    BY DEF BinOps, CmpOps
  <2> QED
    BY <1>2, <2>1, <2>2, <2>3 DEF Formed
<1>3. ASSUME NEW op \in {"Neg", "Not"}, ~IsConst(u, a),
             NEW v, NEW id, Grown(u, v), v.nodes[id] = Node(op, Type(u, a), <<a>>)
      PROVE  Formed(v, id)
  <2> DEFINE n == v.nodes[id]
  <2>1. n.op = op /\ n.ins = <<a>> /\ n.ins[1] = a
    BY <1>3 DEF Node
  <2>2. Type(v, a) = Type(u, a) /\ ~IsConst(v, a)
    BY <1>3, SameAnswers
  <2>3. op \notin BinOps \cup CmpOps \cup {"Select", "Cond"}
    BY DEF BinOps, CmpOps
  <2> QED
    BY <1>3, <2>1, <2>2, <2>3 DEF Formed
<1>4. ASSUME ~IsConst(u, c), a # b, Type(u, a) = Type(u, b),
             NEW v, NEW id, Grown(u, v),
             v.nodes[id] = Node("Select", Type(u, a), <<c, a, b>>)
      PROVE  Formed(v, id)
  <2> DEFINE n == v.nodes[id]
  <2>1. /\ n.op = "Select" /\ n.ins = <<c, a, b>>
        /\ n.ins[1] = c /\ n.ins[2] = a /\ n.ins[3] = b
    BY <1>4 DEF Node
  <2>2. Type(v, a) = Type(u, a) /\ Type(v, b) = Type(u, b) /\ ~IsConst(v, c)
    BY <1>4, SameAnswers
  <2>3. "Select" \notin BinOps \cup CmpOps \cup {"Neg", "Not", "Cond"}
    BY DEF BinOps, CmpOps
  <2> QED
    BY <1>4, <2>1, <2>2, <2>3 DEF Formed
<1> QED
  BY <1>1, <1>2, <1>3, <1>4 DEF Forms

-----------------------------------------------------------------------------
(* The constructors keep all nodes formed. *)

(* Constants. *)
LEMMA KonstFormed ==
    ASSUME NEW u, WellMade(u), Good(u), AllFormed(u), NEW v, NEW t
    PROVE  AllFormed(Konst(u, v, t).w) /\ \A b : AllFormed(KonstBool(u, b).w)
<1>1. AllFormed(Konst(u, v, t).w)
  <2> DEFINE n == [Node("ConstInt", t, <<>>) EXCEPT !.imm = Trunc(v, t)]
  <2>1. n.op \notin Computed
    BY DEF Node, Computed, BinOps, CmpOps
  <2>2. Step(u, Intern(u, n))
    BY KonstStep DEF Konst
  <2> HIDE DEF n
  <2>3. AllFormed(Intern(u, n).w)
    BY <2>1, <2>2, PlainForms, NodeFormed
  <2> QED
    BY <2>3 DEF Konst, n
<1>2. ASSUME NEW b PROVE AllFormed(KonstBool(u, b).w)
  <2> DEFINE n == [Node("ConstBool", "bool", <<>>) EXCEPT !.imm = IF b THEN 1 ELSE 0]
  <2>1. n.op \notin Computed
    BY DEF Node, Computed, BinOps, CmpOps
  <2>2. Step(u, Intern(u, n))
    BY KonstBoolStep DEF KonstBool
  <2> HIDE DEF n
  <2>3. AllFormed(Intern(u, n).w)
    BY <2>1, <2>2, PlainForms, NodeFormed
  <2> QED
    BY <2>3 DEF KonstBool, n
<1> QED
  BY <1>1, <1>2

(* Operands whose widths agree: a literal may stand to the right. *)
Fitting(u, a, b) == Type(u, a) = Type(u, b) \/ IsConst(u, b)

(* The operands in the order the node has them. *)
Ordered(u, op, first, second, a, b) ==
    \/ a = first /\ b = second
    \/ op \in Commutative /\ ~IsConst(u, second) /\ a = second /\ b = first

(* World::binop does one of five things. *)
BinopFolds(u, op, first, second, r) ==
    /\ IsConst(u, first) /\ IsConst(u, second) /\ ~FoldFails(op, Imm(u, second))
    /\ r = Konst(u, FoldBinop(op, Imm(u, first), Imm(u, second), Type(u, first)), Type(u, first))

BinopShifts(u, op, first, a, b, r) ==
    /\ op = "Mul" /\ IsConst(u, b) /\ ~IsConst(u, a)
    /\ \E k \in Log(Imm(u, b)) :
          LET times == Konst(u, k, Type(u, first))
          IN  r = ShiftBy(times.w, a, times.id)

(* One of these, or the node is made. *)
LEMMA BinopCases ==
    ASSUME NEW u, WellMade(u), NEW op \in BinOps,
           NEW first \in DOMAIN u.nodes, NEW second \in DOMAIN u.nodes,
           NEW r, r = Binop(u, op, first, second)
    PROVE  \/ BinopFolds(u, op, first, second, r)
           \/ \E a, b \in DOMAIN u.nodes :
                 /\ Ordered(u, op, first, second, a, b)
                 /\ \/ KeepsFirst(u, op, a, b) /\ r = Hit(u, a)
                    \/ GivesZero(u, op, a, b) /\ r = Konst(u, 0, Type(u, first))
                    \/ BinopShifts(u, op, first, a, b, r)
                    \/ /\ Irreducible(u, op, a, b)
                       /\ r = Intern(u, Node(op, Type(u, first), <<a, b>>))
<1> DEFINE t == Type(u, first)
           x == Imm(u, first)
           y == Imm(u, second)
           a == IF Swaps(u, op, first, second) THEN second ELSE first
           b == IF Swaps(u, op, first, second) THEN first ELSE second
           powers == IF op = "Mul" /\ IsConst(u, b) THEN Log(Imm(u, b)) ELSE {}
           k == CHOOSE i \in powers : TRUE
           times == Konst(u, k, t)
           folded == IsConst(u, first) /\ IsConst(u, second) /\ ~FoldFails(op, y)
<1>1. r = IF folded THEN Konst(u, FoldBinop(op, x, y, t), t)
          ELSE IF KeepsFirst(u, op, a, b) THEN Hit(u, a)
          ELSE IF GivesZero(u, op, a, b) THEN Konst(u, 0, t)
          ELSE IF powers # {} THEN ShiftBy(times.w, a, times.id)
          ELSE Intern(u, Node(op, t, <<a, b>>))
  BY Zenon DEF Binop
<1>2. CASE folded
  <2> HIDE DEF t, x, y
  <2>1. r = Konst(u, FoldBinop(op, x, y, t), t)
    BY <1>1, <1>2
  <2> QED
    BY <1>2, <2>1 DEF BinopFolds, t, x, y
<1>3. CASE ~folded
  <2>1. a \in DOMAIN u.nodes /\ b \in DOMAIN u.nodes
    OBVIOUS
  <2>2. Ordered(u, op, first, second, a, b)
    BY DEF Ordered, Swaps
  <2>3. IsConst(u, a) /\ IsConst(u, b) => FoldFails(op, Imm(u, b))
    BY <1>3 DEF Swaps
  <2>4. ~Swaps(u, op, a, b)
    <3>1. first \in Int /\ second \in Int
      BY ArenaDomain, SMT
    <3>2. CASE Swaps(u, op, first, second)
      <4>1. a = second /\ b = first /\ ~IsConst(u, second)
        BY <3>2 DEF Swaps
      <4>2. IsConst(u, first) \/ first > second
        BY <3>2 DEF Swaps
      <4>3. ~ (first > second /\ second > first)
        BY <3>1, SMT
      <4> HIDE DEF a, b
      <4> QED
        BY <4>1, <4>2, <4>3 DEF Swaps
    <3>3. CASE ~Swaps(u, op, first, second)
      BY <3>3
    <3> QED
      BY <3>2, <3>3
  <2>5. CASE KeepsFirst(u, op, a, b)
    <3>1. r = Hit(u, a)
      BY <1>1, <1>3, <2>5
    <3> HIDE DEF a, b
    <3> QED
      BY <2>1, <2>2, <2>5, <3>1
  <2>6. CASE ~KeepsFirst(u, op, a, b) /\ GivesZero(u, op, a, b)
    <3>1. r = Konst(u, 0, t)
      BY <1>1, <1>3, <2>6
    <3> HIDE DEF a, b
    <3> QED
      BY <2>1, <2>2, <2>6, <3>1
  <2>7. CASE ~KeepsFirst(u, op, a, b) /\ ~GivesZero(u, op, a, b) /\ powers # {}
    <3>1. r = ShiftBy(times.w, a, times.id)
      BY <1>1, <1>3, <2>7
    <3>2. op = "Mul" /\ IsConst(u, b) /\ powers = Log(Imm(u, b))
      BY <2>7
    <3>3. ~IsConst(u, a)
      BY <2>3, <3>2 DEF FoldFails
    <3>4. k \in Log(Imm(u, b))
      BY <2>7, <3>2
    <3> HIDE DEF a, b, k
    <3>5. BinopShifts(u, op, first, a, b, r)
      BY <3>1, <3>2, <3>3, <3>4 DEF BinopShifts
    <3> QED
      BY <2>1, <2>2, <3>5
  <2>8. CASE ~KeepsFirst(u, op, a, b) /\ ~GivesZero(u, op, a, b) /\ powers = {}
    <3>1. r = Intern(u, Node(op, t, <<a, b>>))
      BY <1>1, <1>3, <2>8
    <3>2. op = "Mul" /\ IsConst(u, b) => Log(Imm(u, b)) = {}
      BY <2>8
    <3> HIDE DEF a, b
    <3>3. Irreducible(u, op, a, b)
      BY <2>3, <2>4, <2>8, <3>2 DEF Irreducible
    <3> QED
      BY <2>1, <2>2, <3>1, <3>3
  <2> QED
    BY <2>5, <2>6, <2>7, <2>8
<1> QED
  BY <1>2, <1>3

(* What a rule of binop is about, at the constant k: nothing but shifting.  *)
LEMMA ShiftFormed ==
    ASSUME NEW u, WellMade(u), Good(u), AllFormed(u), NEW a \in DOMAIN u.nodes,
           ~IsConst(u, a), NEW k \in DOMAIN u.nodes
    PROVE  AllFormed(ShiftBy(u, a, k).w)
<1>1. CASE ConstIs(u, k, 0)
  BY <1>1 DEF ShiftBy, Hit
<1>2. CASE ~ConstIs(u, k, 0)
  <2>1. Irreducible(u, "Shl", a, k)
    BY <1>2 DEF Irreducible, Swaps, KeepsFirst, GivesZero, Commutative
  <2>2. Forms(u, Node("Shl", Type(u, a), <<a, k>>))
    BY <2>1, ComputedForms DEF BinOps
  <2>3. Step(u, Intern(u, Node("Shl", Type(u, a), <<a, k>>)))
    BY <1>2, ShiftStep DEF ShiftBy
  <2>4. AllFormed(Intern(u, Node("Shl", Type(u, a), <<a, k>>)).w)
    BY <2>2, <2>3, NodeFormed
  <2> QED
    BY <1>2, <2>4 DEF ShiftBy
<1> QED
  BY <1>1, <1>2

(* World::binop, of operands that fit. *)
LEMMA BinopFormed ==
    ASSUME NEW u, WellMade(u), Good(u), AllFormed(u), NEW op \in BinOps,
           NEW first \in DOMAIN u.nodes, NEW second \in DOMAIN u.nodes,
           Fitting(u, first, second)
    PROVE  AllFormed(Binop(u, op, first, second).w)
<1> DEFINE t == Type(u, first)
<1> SUFFICES ASSUME NEW r, r = Binop(u, op, first, second)
             PROVE  AllFormed(r.w)
  OBVIOUS
<1>1. CASE BinopFolds(u, op, first, second, r)
  BY <1>1, KonstFormed DEF BinopFolds
<1>2. ASSUME NEW a \in DOMAIN u.nodes, NEW b \in DOMAIN u.nodes,
             Ordered(u, op, first, second, a, b),
             \/ KeepsFirst(u, op, a, b) /\ r = Hit(u, a)
             \/ GivesZero(u, op, a, b) /\ r = Konst(u, 0, Type(u, first))
             \/ BinopShifts(u, op, first, a, b, r)
             \/ /\ Irreducible(u, op, a, b)
                /\ r = Intern(u, Node(op, Type(u, first), <<a, b>>))
      PROVE  AllFormed(r.w)
  <2>1. CASE r = Hit(u, a)
    BY <2>1 DEF Hit
  <2>2. CASE r = Konst(u, 0, Type(u, first))
    BY <2>2, KonstFormed
  <2>3. CASE BinopShifts(u, op, first, a, b, r)
    <3>1. PICK k \in Log(Imm(u, b)) :
              r = ShiftBy(Konst(u, k, t).w, a, Konst(u, k, t).id)
      BY <2>3 DEF BinopShifts
    <3> DEFINE times == Konst(u, k, t)
    <3>2. Step(u, times) /\ AllFormed(times.w)
      BY KonstStep, KonstFormed
    <3>3. Good(times.w)
      <4>1. Imm(u, b) \in Int64 /\ t \in Types
        BY <2>3, NodeFacts DEF BinopShifts
      <4> QED
        BY <4>1, LogFits, KonstGood
    <3>4. a \in DOMAIN times.w.nodes /\ ~IsConst(times.w, a)
      BY <2>3, <3>2, SameAnswers DEF Step, BinopShifts
    <3> HIDE DEF times
    <3>5. AllFormed(ShiftBy(times.w, a, times.id).w)
      BY <3>2, <3>3, <3>4, ShiftFormed DEF Step
    <3> QED
      BY <3>1, <3>5 DEF times
  <2>4. CASE Irreducible(u, op, a, b) /\ r = Intern(u, Node(op, Type(u, first), <<a, b>>))
    <3>1. Type(u, first) = Type(u, a)
      BY <1>2 DEF Ordered, Fitting
    <3>2. Forms(u, Node(op, Type(u, a), <<a, b>>))
      BY <2>4, ComputedForms
    <3>3. Step(u, r)
      BY BinopStep
    <3> QED
      BY <2>4, <3>1, <3>2, <3>3, NodeFormed
  <2> QED
    BY <1>2, <2>1, <2>2, <2>3, <2>4
<1>3. \/ BinopFolds(u, op, first, second, r)
      \/ \E a, b \in DOMAIN u.nodes :
            /\ Ordered(u, op, first, second, a, b)
            /\ \/ KeepsFirst(u, op, a, b) /\ r = Hit(u, a)
               \/ GivesZero(u, op, a, b) /\ r = Konst(u, 0, Type(u, first))
               \/ BinopShifts(u, op, first, a, b, r)
               \/ /\ Irreducible(u, op, a, b)
                  /\ r = Intern(u, Node(op, Type(u, first), <<a, b>>))
  BY BinopCases
<1> QED
  BY <1>1, <1>2, <1>3

(* World::cmp. *)
LEMMA CmpFormed ==
    ASSUME NEW u, WellMade(u), Good(u), AllFormed(u), NEW op \in CmpOps,
           NEW first \in DOMAIN u.nodes, NEW second \in DOMAIN u.nodes
    PROVE  AllFormed(Cmp(u, op, first, second).w)
<1> DEFINE swap == op \in Commutative /\ first > second
           a == IF swap THEN second ELSE first
           b == IF swap THEN first ELSE second
           n == Node(op, "bool", <<a, b>>)
<1>1. CASE IsConst(u, first) /\ IsConst(u, second)
  BY <1>1, KonstFormed DEF Cmp
<1>2. CASE ~(IsConst(u, first) /\ IsConst(u, second)) /\ first = second
  BY <1>2, KonstFormed DEF Cmp
<1>3. CASE ~(IsConst(u, first) /\ IsConst(u, second)) /\ first # second
  <2>1. Cmp(u, op, first, second) = Intern(u, n)
    BY <1>3 DEF Cmp
  <2>2. /\ a \in DOMAIN u.nodes /\ b \in DOMAIN u.nodes /\ a # b
        /\ ~(IsConst(u, a) /\ IsConst(u, b))
    BY <1>3
  <2>3. Step(u, Cmp(u, op, first, second))
    BY CmpStep
  <2> HIDE DEF a, b
  <2>4. Forms(u, n)
    BY <2>2, ComputedForms
  <2> HIDE DEF n
  <2> QED
    BY <2>1, <2>3, <2>4, NodeFormed
<1> QED
  BY <1>1, <1>2, <1>3

(* World::neg and World::bit_not. *)
LEMMA UnaryFormed ==
    ASSUME NEW u, WellMade(u), Good(u), AllFormed(u), NEW a \in DOMAIN u.nodes
    PROVE  AllFormed(Neg(u, a).w) /\ AllFormed(BitNot(u, a).w)
<1>1. CASE IsConst(u, a)
  BY <1>1, KonstFormed DEF Neg, BitNot
<1>2. CASE ~IsConst(u, a)
  <2>1. ASSUME NEW op \in {"Neg", "Not"}, Step(u, Intern(u, Node(op, Type(u, a), <<a>>)))
        PROVE  AllFormed(Intern(u, Node(op, Type(u, a), <<a>>)).w)
    <3>1. Forms(u, Node(op, Type(u, a), <<a>>))
      BY <1>2, ComputedForms
    <3> QED
      BY <2>1, <3>1, NodeFormed
  <2>2. Step(u, Neg(u, a)) /\ Step(u, BitNot(u, a))
    BY UnaryStep
  <2> QED
    BY <1>2, <2>1, <2>2 DEF Neg, BitNot
<1> QED
  BY <1>1, <1>2

(* World::select, between two values of one type. *)
LEMMA SelectFormed ==
    ASSUME NEW u, WellMade(u), Good(u), AllFormed(u), NEW c \in DOMAIN u.nodes,
           NEW a \in DOMAIN u.nodes, NEW b \in DOMAIN u.nodes, Type(u, a) = Type(u, b)
    PROVE  AllFormed(Select(u, c, a, b).w)
<1>1. CASE IsConst(u, c) \/ a = b
  BY <1>1 DEF Select, Hit
<1>2. CASE ~IsConst(u, c) /\ a # b
  <2>1. Select(u, c, a, b) = Intern(u, Node("Select", Type(u, a), <<c, a, b>>))
    BY <1>2 DEF Select
  <2>2. Forms(u, Node("Select", Type(u, a), <<c, a, b>>))
    BY <1>2, ComputedForms
  <2>3. Step(u, Select(u, c, a, b))
    BY SelectStep
  <2> QED
    BY <2>1, <2>2, <2>3, NodeFormed
<1> QED
  BY <1>1, <1>2

(* World::make_cond, between arms that yield one type. *)
LEMMA CondFormed ==
    ASSUME NEW u, WellMade(u), Good(u), AllFormed(u), NEW p \in DOMAIN u.nodes,
           NEW yields \in Seq(DOMAIN u.nodes), Len(yields) >= 2, NEW t \in Types,
           \A k \in DOMAIN yields : Type(u, yields[k]) = t
    PROVE  AllFormed(MakeCond(u, p, t, yields).w)
<1>1. {1, 2} \subseteq DOMAIN yields /\ \A k \in DOMAIN yields : yields[k] \in DOMAIN u.nodes
  BY SMT
<1>2. ASSUME MakeCond(u, p, t, yields).w = u
      PROVE  AllFormed(MakeCond(u, p, t, yields).w)
  BY <1>2
<1>3. ASSUME MakeCond(u, p, t, yields) =
                Cmp(KonstBool(u, FALSE).w, "CmpEq", p, KonstBool(u, FALSE).id)
      PROVE  AllFormed(MakeCond(u, p, t, yields).w)
  <2> DEFINE false == KonstBool(u, FALSE)
  <2>1. Step(u, false) /\ AllFormed(false.w) /\ Good(false.w)
    BY KonstBoolStep, KonstFormed, KonstBoolGood
  <2> HIDE DEF false
  <2>2. AllFormed(Cmp(false.w, "CmpEq", p, false.id).w)
    BY <2>1, CmpFormed DEF Step, Grown, CmpOps
  <2> QED
    BY <1>3, <2>2 DEF false
<1>4. ASSUME MakeCond(u, p, t, yields) = NewCond(u, p, t, yields)
      PROVE  AllFormed(MakeCond(u, p, t, yields).w)
  <2> DEFINE n == [Node("Cond", t, <<p>>) EXCEPT !.region = Len(u.conds) + 1]
             x == [u EXCEPT !.conds = Append(@, yields)]
             v == Fresh(x, n).w
             new == Len(u.nodes) + 1
  <2>1. Step(u, NewCond(u, p, t, yields))
    BY <1>1, <1>4, CondStep
  <2>2. NewCond(u, p, t, yields).w = v
    BY DEF NewCond
  <2>3. /\ n.op = "Cond" /\ n.type = t /\ n.ins = <<p>> /\ n.ins[1] = p
        /\ n.region = Len(u.conds) + 1
    BY DEF Node
  <2>4. /\ x.nodes = u.nodes /\ x.conds = Append(u.conds, yields)
        /\ DOMAIN x = DOMAIN EmptyWorld
    BY SMT DEF WellMade, EmptyWorld
  <2> HIDE DEF x, n
  <2>5. v.nodes = Append(u.nodes, n) /\ v.conds = Append(u.conds, yields)
    BY <2>4, FreshFields
  <2> HIDE DEF v
  <2>6. DOMAIN v.nodes \ DOMAIN u.nodes = {new} /\ v.nodes[new] = n /\ new - 1 = Len(u.nodes)
    BY <2>5, ArenaAppend, ArenaDomain, SMT DEF WellMade
  <2>7. SameArms(u, v) /\ v.conds[Len(u.conds) + 1] = yields
    <3> DEFINE s == u.conds
               S == Range(s) \cup {yields}
    <3>1. s \in Seq(S) /\ yields \in S
      <4>1. s \in Seq(Range(s))
        BY DEF Good, Owns, OneNodePerEntry
      <4> QED
        BY <4>1, SeqOfMore
    <3> HIDE DEF s, S
    <3>2. /\ \A k \in DOMAIN s : k \in DOMAIN Append(s, yields) /\ Append(s, yields)[k] = s[k]
          /\ Append(s, yields)[Len(s) + 1] = yields
      BY <3>1, SMT
    <3> QED
      BY <2>5, <3>2 DEF SameArms, s
  <2>8. Grown(u, v) /\ DOMAIN u.nodes = 1 .. new - 1
    BY <2>1, <2>2, <2>6, ArenaDomain DEF Step
  <2>9. \A y \in Range(yields) : y \in DOMAIN u.nodes /\ Type(u, y) = t
    BY <1>1 DEF Range
  <2>10. Formed(v, new)
    <3>1. \A y \in Range(yields) : Type(v, y) = t
      BY <2>8, <2>9, SameAnswers
    <3>2. yields \in Seq(1 .. new - 1)
      BY <2>8
    <3> HIDE DEF new
    <3>3. "Cond" \notin BinOps \cup CmpOps \cup {"Neg", "Not", "Select"}
      BY DEF BinOps, CmpOps
    <3> QED
      BY <2>3, <2>6, <2>7, <3>1, <3>2, <3>3 DEF Formed
  <2>11. AllFormed(v)
    BY <2>6, <2>7, <2>8, <2>10, GrowFormed
  <2> QED
    BY <1>4, <2>2, <2>11
<1>5. \/ MakeCond(u, p, t, yields).w = u
      \/ MakeCond(u, p, t, yields) =
            Cmp(KonstBool(u, FALSE).w, "CmpEq", p, KonstBool(u, FALSE).id)
      \/ MakeCond(u, p, t, yields) = NewCond(u, p, t, yields)
  BY DEF MakeCond, Hit
<1> QED
  BY <1>2, <1>3, <1>4, <1>5

(* Whatever is added that computes nothing leaves all nodes formed. *)
LEMMA OthersFormed ==
    ASSUME NEW u, WellMade(u), Good(u), AllFormed(u), NEW v, Grown(u, v),
           v.conds = u.conds,
           \A id \in DOMAIN v.nodes \ DOMAIN u.nodes : v.nodes[id].op \notin Computed
    PROVE  AllFormed(v)
<1>1. SameArms(u, v)
  BY DEF SameArms
<1>2. \A id \in DOMAIN v.nodes \ DOMAIN u.nodes : Formed(v, id)
  BY Zenon DEF Formed, Computed
<1> QED
  BY <1>1, <1>2, GrowFormed

(* One node that computes nothing, its parts in a table or not. *)
LEMMA OtherFormed ==
    ASSUME NEW u, WellMade(u), Good(u), AllFormed(u), NEW x, NEW n, n.op \notin Computed,
           x.nodes = u.nodes, x.conds = u.conds, DOMAIN x = DOMAIN EmptyWorld,
           Step(u, Fresh(x, n))
    PROVE  AllFormed(Fresh(x, n).w)
<1> DEFINE v == Fresh(x, n).w
<1>1. v.nodes = Append(u.nodes, n) /\ v.conds = u.conds
  BY FreshFields
<1> HIDE DEF v
<1>2. DOMAIN v.nodes \ DOMAIN u.nodes = {Len(u.nodes) + 1} /\ v.nodes[Len(u.nodes) + 1] = n
  BY <1>1, ArenaAppend, ArenaDomain, SMT DEF WellMade
<1>3. Grown(u, v)
  BY DEF Step, v
<1>4. AllFormed(v)
  BY <1>1, <1>2, <1>3, OthersFormed
<1> QED
  BY <1>4 DEF v

(* A world with the nodes and the conditionals of u. *)
LEMMA SameFormed ==
    ASSUME NEW u, AllFormed(u), NEW v, v.nodes = u.nodes, v.conds = u.conds
    PROVE  AllFormed(v)
<1>1. \A a, b, op : /\ Type(v, a) = Type(u, a) /\ (IsConst(v, a) <=> IsConst(u, a))
                    /\ Irreducible(v, op, a, b) <=> Irreducible(u, op, a, b)
  BY DEF Type, IsConst, Op, Irreducible, Swaps, KeepsFirst, GivesZero, ConstIs, Imm
<1>2. ASSUME NEW id \in DOMAIN v.nodes PROVE Formed(v, id)
  <2>1. Formed(u, id)
    BY <1>2 DEF AllFormed
  <2> QED
    BY <1>1, <2>1, Zenon DEF Formed
<1> QED
  BY <1>2 DEF AllFormed

(* World::begin_func. *)
LEMMA FuncFormed ==
    ASSUME NEW u, WellMade(u), Good(u), AllFormed(u), NEW param_types \in Seq(Types),
           NEW t \in Types, NEW has_state
    PROVE  AllFormed(BeginFunc(u, param_types, t, has_state).w)
<1> DEFINE types == IF has_state THEN Append(param_types, "state") ELSE param_types
           all == NewParams(u, types)
           info == [params |-> [i \in DOMAIN param_types |-> Len(u.nodes) + i],
                    state_param |-> IF has_state THEN Len(all.nodes) ELSE NONE,
                    result_type |-> t, result |-> NONE, state_result |-> NONE]
           v == [all EXCEPT !.funcs = Append(@, info)]
           n == [Node("Func", "func", <<>>) EXCEPT !.region = Len(u.funcs) + 1]
<1>1. types \in Seq(Types)
  BY SMT DEF Types
<1> HIDE DEF types
<1>2. Kept(u, all) /\ Good(all)
  BY <1>1, NewParamsKept, NewParamsGood
<1>3. AllFormed(all)
  <2> DEFINE ps == [i \in DOMAIN types |-> [Node("Param", types[i], <<>>) EXCEPT !.imm = i - 1]]
             S == Range(u.nodes) \cup Range(ps)
             s == u.nodes
  <2>1. all.nodes = s \o ps /\ all.conds = u.conds
    BY SMT DEF NewParams, WellMade, EmptyWorld
  <2>2. \A i \in DOMAIN ps : ps[i].op = "Param"
    BY DEF Node
  <2>3. ps \in Seq(S) /\ s \in Seq(S)
    <3>1. DOMAIN types = 1 .. Len(types) /\ Len(types) \in Nat
      BY <1>1, SMT
    <3>2. \A i \in DOMAIN ps : ps[i] \in S
      BY DEF Range
    <3>3. ps \in [1 .. Len(types) -> S]
      BY <3>1, <3>2
    <3> HIDE DEF ps
    <3>4. ps \in Seq(S)
      BY <3>1, <3>3, FunctionIsSeq
    <3>5. s \in Seq(S)
      BY SeqOfMore DEF WellMade
    <3> QED
      BY <3>4, <3>5
  <2> HIDE DEF ps, S, all
  <2>4. \A i \in DOMAIN all.nodes \ DOMAIN s : \E k \in DOMAIN ps : all.nodes[i] = ps[k]
    <3>1. /\ Len(s) \in Nat /\ Len(ps) \in Nat /\ DOMAIN s = 1 .. Len(s)
      BY <2>3, ArenaDomain, SMT
    <3>2. /\ Len(all.nodes) = Len(s) + Len(ps)
          /\ DOMAIN all.nodes = 1 .. Len(s) + Len(ps)
          /\ \A i \in Len(s) + 1 .. Len(all.nodes) :
                i - Len(s) \in DOMAIN ps /\ all.nodes[i] = ps[i - Len(s)]
      BY <2>1, <2>3, ArenaConcat
    <3>3. \A i \in DOMAIN all.nodes \ DOMAIN s : i \in Len(s) + 1 .. Len(all.nodes)
      BY <3>1, <3>2, SMT
    <3> QED
      BY <3>2, <3>3
  <2>5. \A i \in DOMAIN all.nodes \ DOMAIN u.nodes : all.nodes[i].op \notin Computed
    BY <2>2, <2>4 DEF Computed, BinOps, CmpOps
  <2> QED
    BY <1>2, <2>1, <2>5, OthersFormed DEF Kept
<1>4. BeginFunc(u, param_types, t, has_state) = Fresh(v, n)
  BY DEF BeginFunc, types
<1> HIDE DEF all
<1>5. /\ v.nodes = all.nodes /\ v.conds = all.conds /\ v.interned = all.interned
      /\ DOMAIN v = DOMAIN all /\ DOMAIN v = DOMAIN EmptyWorld
  BY <1>2, SMT DEF Kept, WellMade, EmptyWorld
<1>6. n.op = "Func" /\ n.ins = <<>> /\ n.state_in = NONE
  BY DEF Node
<1> HIDE DEF v, n
<1>7. n.ins \in Seq(DOMAIN all.nodes)
  BY <1>6, EmptySeqOf
<1>8. Step(all, Fresh(v, n))
  BY <1>2, <1>5, <1>6, <1>7, RegionStep DEF Kept, RegionOps
<1>9. n.op \notin Computed
  BY <1>6 DEF Computed, BinOps, CmpOps
<1>10. AllFormed(Fresh(v, n).w)
  BY <1>2, <1>3, <1>5, <1>8, <1>9, OtherFormed DEF Kept
<1> QED
  BY <1>4, <1>10

-----------------------------------------------------------------------------
(* Requests whose operands agree keep all nodes formed: those for values, *)
LEMMA ValueRequestsFormed ==
    ASSUME WellMade(w), Good(w), AllFormed(w), Widths = "agree",
           \/ AskKonst \/ AskKonstBool \/ AskBinop \/ AskCmp
           \/ AskNeg \/ AskNot \/ AskSelect
    PROVE  AllFormed(w')
<1>1. CASE AskKonst
  BY <1>1, KonstFormed DEF AskKonst, Answer
<1>2. CASE AskKonstBool
  BY <1>2, KonstFormed DEF AskKonstBool, Answer
<1>3. CASE AskBinop
  <2>1. PICK op \in BinOps, a \in Values, b \in Values :
            Agree(a, b) /\ Answer(op, <<a, b>>, Type(w, a), Binop(w, op, a, b))
    BY <1>3, Zenon DEF AskBinop
  <2>2. Fitting(w, a, b)
    BY <2>1 DEF Fitting, Agree
  <2> QED
    BY <2>1, <2>2, ValuesAreIds, BinopFormed DEF Answer
<1>4. CASE AskCmp
  <2>1. PICK op \in CmpOps, a \in Values, b \in Values :
            Answer(op, <<a, b>>, "bool", Cmp(w, op, a, b))
    BY <1>4, Zenon DEF AskCmp
  <2> QED
    BY <2>1, ValuesAreIds, CmpFormed DEF Answer
<1>5. CASE AskNeg
  BY <1>5, ValuesAreIds, UnaryFormed DEF AskNeg, Answer
<1>6. CASE AskNot
  BY <1>6, ValuesAreIds, UnaryFormed DEF AskNot, Answer
<1>7. CASE AskSelect
  <2>1. PICK c \in Values, a \in Values, b \in Values :
            Type(w, a) = Type(w, b)
              /\ Answer("Select", <<c, a, b>>, Type(w, a), Select(w, c, a, b))
    BY <1>7, Zenon DEF AskSelect
  <2> QED
    BY <2>1, ValuesAreIds, SelectFormed DEF Answer
<1> QED
  BY <1>1, <1>2, <1>3, <1>4, <1>5, <1>6, <1>7

(* those for memory, *)
LEMMA MemoryRequestsFormed ==
    ASSUME WellMade(w), Good(w), AllFormed(w),
           AskLoad \/ AskPureLoad \/ AskStore \/ AskMemStart \/ AskParam
    PROVE  AllFormed(w')
<1>0. w.nodes = w.nodes /\ DOMAIN w = DOMAIN EmptyWorld
  BY DEF WellMade
<1>1. CASE AskLoad
  <2>1. PICK ptr \in Values, st \in States, t \in {"word"} :
            Answer("Load", <<ptr>>, t, Load(w, ptr, st, t))
    BY <1>1, Zenon DEF AskLoad
  <2> DEFINE n == [Node("Load", t, <<ptr>>) EXCEPT !.state_in = st]
  <2>2. Step(w, Load(w, ptr, st, t)) /\ n.op \notin Computed
    BY ValuesAreIds, MemoryStep DEF Node, Computed, BinOps, CmpOps
  <2> HIDE DEF n
  <2>3. AllFormed(Fresh(w, n).w)
    BY <1>0, <2>2, OtherFormed DEF Load, n
  <2> QED
    BY <2>1, <2>3 DEF Answer, Load, n
<1>2. CASE AskPureLoad
  <2>1. PICK ptr \in Values, t \in {"word"} :
            Answer("PureLoad", <<ptr>>, t, PureLoad(w, ptr, t))
    BY <1>2 DEF AskPureLoad
  <2> DEFINE n == Node("Load", t, <<ptr>>)
  <2>2. Step(w, PureLoad(w, ptr, t)) /\ n.op \notin Computed
    BY ValuesAreIds, MemoryStep DEF Node, Computed, BinOps, CmpOps
  <2> HIDE DEF n
  <2>3. AllFormed(Intern(w, n).w)
    BY <2>2, PlainForms, NodeFormed DEF PureLoad, n
  <2> QED
    BY <2>1, <2>3 DEF Answer, PureLoad, n
<1>3. CASE AskStore
  <2>1. PICK ptr \in Values, val \in Values, st \in States :
            Answer("Store", <<ptr, val>>, "state", Store(w, ptr, val, st))
    BY <1>3, Zenon DEF AskStore
  <2> DEFINE n == [Node("Store", "state", <<ptr, val>>) EXCEPT !.state_in = st]
  <2>2. Step(w, Store(w, ptr, val, st)) /\ n.op \notin Computed
    BY ValuesAreIds, MemoryStep DEF Node, Computed, BinOps, CmpOps
  <2> HIDE DEF n
  <2>3. AllFormed(Fresh(w, n).w)
    BY <1>0, <2>2, OtherFormed DEF Store, n
  <2> QED
    BY <2>1, <2>3 DEF Answer, Store, n
<1>4. CASE AskMemStart
  <2> DEFINE n == Node("ConstInt", "state", <<>>)
  <2>1. Step(w, Intern(w, n)) /\ n.op \notin Computed
    BY EmptySeqOf, PlainStep DEF Commutative, Node, Computed, BinOps, CmpOps
  <2> HIDE DEF n
  <2>2. AllFormed(Intern(w, n).w)
    BY <2>1, PlainForms, NodeFormed
  <2> QED
    BY <1>4, <2>2 DEF AskMemStart, Answer, MemStart, n
<1>5. CASE AskParam
  <2>1. PICK t \in {"word", "state"} : Answer("Param", <<>>, t, Param(w, t, 0))
    BY <1>5 DEF AskParam
  <2> DEFINE n == [Node("Param", t, <<>>) EXCEPT !.imm = 0]
  <2>2. Step(w, Param(w, t, 0)) /\ n.op \notin Computed
    BY ParamStep DEF Node, Computed, BinOps, CmpOps
  <2> HIDE DEF n
  <2>3. AllFormed(Fresh(w, n).w)
    BY <1>0, <2>2, OtherFormed DEF Param, n
  <2> QED
    BY <2>1, <2>3 DEF Answer, Param, n
<1> QED
  BY <1>1, <1>2, <1>3, <1>4, <1>5

(* A loop of any number of results. *)
LEMMA LoopFormed ==
    ASSUME NEW u, WellMade(u), Good(u), AllFormed(u), NEW inits \in Seq(DOMAIN u.nodes),
           NEW t, NEW ps, NEW is_break, NEW break_val, NEW break_vals, NEW next
    PROVE  AllFormed(NewLoop(u, inits, t, ps, is_break, break_val, break_vals, next).w)
<1> DEFINE entry == [params |-> ps, is_break |-> is_break, break_val |-> break_val,
                     break_vals |-> break_vals, next_vals |-> next]
           x == [u EXCEPT !.loops = Append(@, entry)]
           n == [Node("Loop", t, inits) EXCEPT !.region = Len(u.loops) + 1]
<1>1. NewLoop(u, inits, t, ps, is_break, break_val, break_vals, next) = Fresh(x, n)
  BY DEF NewLoop
<1>2. x.nodes = u.nodes /\ x.conds = u.conds /\ DOMAIN x = DOMAIN EmptyWorld
  BY SMT DEF WellMade, EmptyWorld
<1>3. n.op \notin Computed
  BY DEF Node, Computed, BinOps, CmpOps
<1>4. Step(u, Fresh(x, n))
  BY <1>1, LoopStep
<1> HIDE DEF x, n
<1> QED
  BY <1>1, <1>2, <1>3, <1>4, OtherFormed

(* those for conditionals, loops and projections, *)
LEMMA RegionRequestsFormed ==
    ASSUME WellMade(w), Good(w), AllFormed(w),
           AskCond \/ AskLoop \/ AskLoopMulti \/ AskProj
    PROVE  AllFormed(w')
<1>1. CASE AskCond
  <2>1. PICK p \in Values, arms \in {2, 3} : \E yields \in [1 .. arms -> Values] :
            /\ \A k \in DOMAIN yields : Type(w, yields[k]) = Type(w, yields[1])
            /\ LET t == Type(w, yields[1])
               IN  Answer("Cond", <<p>> \o yields, t, MakeCond(w, p, t, yields))
    BY <1>1, Zenon DEF AskCond
  <2>2. PICK yields \in [1 .. arms -> Values] :
            /\ \A k \in DOMAIN yields : Type(w, yields[k]) = Type(w, yields[1])
            /\ Answer("Cond", <<p>> \o yields, Type(w, yields[1]),
                      MakeCond(w, p, Type(w, yields[1]), yields))
    BY <2>1
  <2>3. p \in DOMAIN w.nodes /\ yields \in Seq(DOMAIN w.nodes) /\ Len(yields) >= 2
    <3>1. yields \in [1 .. arms -> DOMAIN w.nodes] /\ arms \in Nat /\ arms >= 2
      BY ValuesAreIds
    <3> DEFINE S == DOMAIN w.nodes
    <3> HIDE DEF S
    <3>2. yields \in Seq(S)
      BY <3>1, FunctionIsSeq DEF S
    <3>3. Len(yields) = arms
      BY <3>1, <3>2, SMT DEF S
    <3> QED
      BY <3>1, <3>2, <3>3, ValuesAreIds DEF S
  <2>4. yields[1] \in DOMAIN w.nodes
    BY ValuesAreIds, SMT
  <2>5. AllFormed(MakeCond(w, p, Type(w, yields[1]), yields).w)
    <3> DEFINE t == Type(w, yields[1])
    <3>1. t \in Types /\ \A k \in DOMAIN yields : Type(w, yields[k]) = t
      BY <2>2, <2>4, NodeFacts
    <3> HIDE DEF t
    <3>2. AllFormed(MakeCond(w, p, t, yields).w)
      BY <2>3, <3>1, CondFormed
    <3> QED
      BY <3>2 DEF t
  <2> QED
    BY <2>2, <2>5 DEF Answer
<1>2. CASE AskLoop
  <2>1. PICK p \in FreeParams, init \in Values, is_break \in Values, break_val \in Values :
            Answer("Loop", <<init>>, Type(w, break_val),
                   MakeLoop(w, <<init>>, Type(w, break_val), <<p>>, is_break, break_val, <<p>>))
    BY <1>2, Zenon DEF AskLoop
  <2>2. <<init>> \in Seq(DOMAIN w.nodes)
    BY ValuesAreIds, ShortSeqs
  <2>3. AllFormed(MakeLoop(w, <<init>>, Type(w, break_val), <<p>>, is_break, break_val, <<p>>).w)
    BY <2>2, LoopFormed DEF MakeLoop
  <2> QED
    BY <2>1, <2>3 DEF Answer
<1>3. CASE AskLoopMulti
  <2>1. PICK p \in FreeParams, init \in Values, is_break \in Values, break_val \in Values :
            Answer("LoopMulti", <<init>>, "void",
                   MakeLoopMulti(w, <<init>>, <<p>>, is_break, <<break_val, p>>, <<p>>))
    BY <1>3, Zenon DEF AskLoopMulti
  <2>2. <<init>> \in Seq(DOMAIN w.nodes)
    BY ValuesAreIds, ShortSeqs
  <2>3. AllFormed(MakeLoopMulti(w, <<init>>, <<p>>, is_break, <<break_val, p>>, <<p>>).w)
    BY <2>2, LoopFormed DEF MakeLoopMulti
  <2> QED
    BY <2>1, <2>3 DEF Answer
<1>4. CASE AskProj
  <2>1. PICK region \in MultiLoops : \E k, t :
            Answer("Proj", <<region>>, t, Proj(w, region, k - 1, t))
    BY <1>4, Zenon DEF AskProj
  <2>2. ASSUME NEW k, NEW t PROVE AllFormed(Proj(w, region, k, t).w)
    <3> DEFINE n == [Node("Proj", t, <<region>>) EXCEPT !.imm = k]
    <3>1. Step(w, Proj(w, region, k, t)) /\ n.op \notin Computed
      BY ValuesAreIds, ProjStep DEF Node, Computed, BinOps, CmpOps
    <3> HIDE DEF n
    <3>2. AllFormed(Intern(w, n).w)
      BY <3>1, PlainForms, NodeFormed DEF Proj, n
    <3> QED
      BY <3>2 DEF Proj, n
  <2> QED
    BY <2>1, <2>2 DEF Answer
<1> QED
  BY <1>1, <1>2, <1>3, <1>4

(* and those about functions. *)
LEMMA FunctionRequestsFormed ==
    ASSUME WellMade(w), Good(w), AllFormed(w),
           AskFunc \/ AskEndFunc \/ AskCall \/ AskAddFunc \/ AskKeepFuncs
    PROVE  AllFormed(w')
<1>0. w.nodes = w.nodes /\ DOMAIN w = DOMAIN EmptyWorld
  BY DEF WellMade
<1>1. CASE AskFunc
  <2>1. PICK t \in {"word"}, has_state \in BOOLEAN :
            Answer("Func", <<>>, "func", BeginFunc(w, <<t>>, t, has_state))
    BY <1>1 DEF AskFunc
  <2>2. t \in Types /\ <<t>> \in Seq(Types)
    BY ShortSeqs DEF Types
  <2>3. AllFormed(BeginFunc(w, <<t>>, t, has_state).w)
    BY <2>2, FuncFormed
  <2> QED
    BY <2>1, <2>3 DEF Answer
<1>2. ASSUME NEW x
      PROVE  AllFormed([w EXCEPT !.funcs = x]) /\ AllFormed([w EXCEPT !.module_funcs = x])
  <2>1. /\ [w EXCEPT !.funcs = x].nodes = w.nodes /\ [w EXCEPT !.funcs = x].conds = w.conds
        /\ [w EXCEPT !.module_funcs = x].nodes = w.nodes
        /\ [w EXCEPT !.module_funcs = x].conds = w.conds
    BY <1>0, SMT DEF EmptyWorld
  <2> QED
    BY <2>1, SameFormed
<1>3. CASE AskEndFunc
  <2>1. PICK func, a, b : Answer("EndFunc", <<func>>, "func", EndFunc(w, func, a, b))
    BY <1>3, Zenon DEF AskEndFunc
  <2>2. \A f, x, y : AllFormed(EndFunc(w, f, x, y).w)
    BY <1>2 DEF EndFunc, Hit
  <2> QED
    BY <2>1, <2>2 DEF Answer
<1>4. CASE AskCall
  <2>1. PICK func \in OfOp("Func"), arg \in Values, st \in States \cup {NONE} :
            Answer("Call", <<arg>>, Info(w, func).result_type, Call(w, func, <<arg>>, st))
    BY <1>4, Zenon DEF AskCall
  <2> DEFINE n == [Node("Call", Info(w, func).result_type, <<arg>>)
                      EXCEPT !.state_in = st, !.imm = func]
  <2>2. <<arg>> \in Seq(DOMAIN w.nodes) /\ st \in DOMAIN w.nodes \cup {NONE}
    BY ValuesAreIds, ShortSeqs
  <2>3. Step(w, Call(w, func, <<arg>>, st)) /\ n.op \notin Computed
    BY <2>2, CallStep DEF Node, Computed, BinOps, CmpOps
  <2> HIDE DEF n
  <2>4. AllFormed(Fresh(w, n).w)
    BY <1>0, <2>3, OtherFormed DEF Call, n
  <2> QED
    BY <2>1, <2>4 DEF Answer, Call, n
<1>5. CASE AskAddFunc
  BY <1>2, <1>5 DEF AskAddFunc, AddFunc, Hit, Answer
<1>6. CASE AskKeepFuncs
  BY <1>2, <1>6 DEF AskKeepFuncs, KeepFuncs, Hit, Answer
<1> QED
  BY <1>1, <1>3, <1>4, <1>5, <1>6

-----------------------------------------------------------------------------
(* As long as the operands of requests agree in width, every node is in the *)
(* shape its constructor gives it and no rule applies to its operands.      *)
THEOREM NodesAreFormed == Spec => [](Widths = "agree" => AllFormed(w))
<1> DEFINE Inv == Widths = "agree" => AllFormed(w)
<1>1. Init => Inv
  BY StartAssumption DEF Init
<1>2. WorldIInv /\ Inv /\ [Next]_vars => Inv'
  <2> SUFFICES ASSUME WorldIInv, Inv, [Next]_vars, Widths = "agree"
               PROVE  AllFormed(w')
    OBVIOUS
  <2>1. WellMade(w) /\ Good(w) /\ AllFormed(w)
    BY DEF WorldIInv
  <2>2. CASE Request
    BY <2>1, <2>2, ValueRequestsFormed, MemoryRequestsFormed, RegionRequestsFormed,
       FunctionRequestsFormed DEF Request
  <2>3. CASE UNCHANGED vars
    BY <2>1, <2>3 DEF vars
  <2> QED
    BY <2>2, <2>3 DEF Next, Finished
<1> QED
  BY <1>1, <1>2, WorldInvariance, PTL DEF Spec

(* The table finds a node of the value strand. *)
LEMMA InternFinds ==
    ASSUME NEW u, WellMade(u), NEW id \in DOMAIN u.nodes, Shared(u.nodes[id])
    PROVE  Intern(u, u.nodes[id]) = Hit(u, id)
<1> DEFINE known == {k \in u.interned : NodeEq(u.nodes[k], u.nodes[id])}
<1>1. known = {id}
  <2>1. id \in known
    BY DEF WellMade, NodeEq
  <2>2. \A k \in known : k = id
    BY <2>1 DEF WellMade
  <2> QED
    BY <2>1, <2>2
<1>2. (CHOOSE k \in known : TRUE) = id
  BY <1>1
<1> QED
  BY <1>1, <1>2 DEF Intern, Hit

(* A formed node is what its constructor answers. *)
LEMMA FormedIsRebuilt ==
    ASSUME WellMade(w), AllFormed(w), NEW id \in Ids
    PROVE  Rebuilt(id) = Hit(w, id)
<1> DEFINE n == w.nodes[id]
           a == n.ins[1]
           b == n.ins[2]
           c == n.ins[3]
<1>0. Formed(w, id)
  BY DEF AllFormed, Ids
<1>1. Shared(n) => Intern(w, n) = Hit(w, id)
  BY InternFinds DEF Ids
<1>2. CASE n.op \in BinOps
  <2>1. n = Node(n.op, Type(w, a), <<a, b>>) /\ Irreducible(w, n.op, a, b)
    BY <1>0, <1>2 DEF Formed
  <2>2. Rebuilt(id) = Binop(w, n.op, a, b)
    BY <1>2 DEF Rebuilt, BinOps, CmpOps
  <2>3. Shared(n)
    BY <1>2 DEF Shared
  <2> DEFINE op == n.op
  <2> HIDE DEF a, b, n, op
  <2>4. Binop(w, op, a, b) = Intern(w, Node(op, Type(w, a), <<a, b>>))
    <3>1. /\ ~(IsConst(w, a) /\ IsConst(w, b) /\ ~FoldFails(op, Imm(w, b)))
          /\ ~Swaps(w, op, a, b) /\ ~KeepsFirst(w, op, a, b) /\ ~GivesZero(w, op, a, b)
          /\ op = "Mul" /\ IsConst(w, b) => Log(Imm(w, b)) = {}
      BY <2>1 DEF Irreducible, op
    <3> QED
      BY <3>1 DEF Binop
  <2> QED
    BY <1>1, <2>1, <2>2, <2>3, <2>4 DEF op
<1>3. CASE n.op \in CmpOps
  <2>1. n = Node(n.op, "bool", <<a, b>>) /\ a # b /\ ~(IsConst(w, a) /\ IsConst(w, b))
    BY <1>0, <1>3 DEF Formed
  <2>2. Rebuilt(id) = Cmp(w, n.op, a, b)
    BY <1>3 DEF Rebuilt, BinOps, CmpOps
  <2>3. Shared(n)
    BY <1>3 DEF Shared
  <2>4. ~(n.op \in Commutative /\ a > b)
    <3>1. n.op \in Commutative => n.ins \in Seq(DOMAIN w.nodes) /\ Len(n.ins) = 2 /\ a < b
      BY <1>3 DEF WellMade, InOrder, Ids
    <3>2. DOMAIN w.nodes \subseteq Nat
      BY ArenaDomain, SMT
    <3>3. n.op \in Commutative => a \in Nat /\ b \in Nat /\ a < b
      BY <3>1, <3>2, SMT
    <3> HIDE DEF a, b, n
    <3> QED
      BY <3>3
  <2> DEFINE op == n.op
  <2> HIDE DEF a, b, n, op
  <2>5. Cmp(w, op, a, b) = Intern(w, Node(op, "bool", <<a, b>>))
    BY <2>1, <2>4 DEF Cmp, op
  <2> QED
    BY <1>1, <2>1, <2>2, <2>3, <2>5 DEF op
<1>4. CASE n.op \in {"Neg", "Not"}
  <2>1. n = Node(n.op, Type(w, a), <<a>>) /\ ~IsConst(w, a)
    BY <1>0, <1>4 DEF Formed
  <2>2. Rebuilt(id) = IF n.op = "Neg" THEN Neg(w, a) ELSE BitNot(w, a)
    BY <1>4 DEF Rebuilt, BinOps, CmpOps
  <2>3. Shared(n)
    BY <1>4 DEF Shared
  <2> HIDE DEF a, n
  <2> QED
    BY <1>1, <1>4, <2>1, <2>2, <2>3 DEF Neg, BitNot
<1>5. CASE n.op = "Select"
  <2>1. n = Node("Select", Type(w, b), <<a, b, c>>) /\ b # c /\ ~IsConst(w, a)
    BY <1>0, <1>5 DEF Formed
  <2>2. Rebuilt(id) = Select(w, a, b, c)
    BY <1>5 DEF Rebuilt, BinOps, CmpOps
  <2>3. Shared(n)
    BY <1>5 DEF Shared
  <2> HIDE DEF a, b, c, n
  <2> QED
    BY <1>1, <2>1, <2>2, <2>3 DEF Select
<1>6. CASE n.op \notin BinOps \cup CmpOps \cup {"Neg", "Not", "Select"}
  BY <1>6 DEF Rebuilt
<1> QED
  BY <1>2, <1>3, <1>4, <1>5, <1>6

(* Asking again for any node, as the optimizer's Cloner does, gives that    *)
(* node, in a world of any size built by requests whose operands agree: no  *)
(* constructor answers with a node it would simplify further.               *)
THEOREM RebuildingChangesNothing == Spec => [](Widths = "agree" => RebuildIsIdentity)
<1>1. WorldIInv /\ (Widths = "agree" => AllFormed(w))
          => (Widths = "agree" => RebuildIsIdentity)
  BY FormedIsRebuilt DEF WorldIInv, RebuildIsIdentity
<1> QED
  BY <1>1, WorldInvariance, NodesAreFormed, PTL

(* A number has one quotient and one remainder. *)
LEMMA DivisionIsOne ==
    ASSUME NEW p \in Nat \ {0}, NEW q \in Int, NEW r \in 0 .. p - 1,
           NEW x, x = p * q + r
    PROVE  x \div p = q /\ x % p = r
<1> DEFINE d == x \div p
<1>1. x \in Int /\ p * q \in Int
  OBVIOUS
<1>2. d \in Int /\ p * d <= x /\ x < p * d + p
  BY <1>1, Division
<1> HIDE DEF d
<1>3. ASSUME NEW i \in Int, NEW j \in Int, i < j
      PROVE  p * i + p <= p * j
  <2>1. PICK k \in Nat : j = i + 1 + k
    <3>1. j - i - 1 \in Nat /\ j = i + 1 + (j - i - 1)
      BY <1>3
    <3> QED
      BY <3>1
  <2>2. p * j = p * i + p + p * k /\ p * k >= 0 /\ p * k \in Int /\ p * i \in Int
    BY <2>1, SMT
  <2> QED
    BY <2>2
<1>4. ~(d < q) /\ ~(q < d)
  <2>1. p * d \in Int
    BY <1>2
  <2>2. d < q => p * d + p <= p * q
    BY <1>2, <1>3
  <2>3. q < d => p * q + p <= p * d
    BY <1>2, <1>3
  <2> QED
    BY <1>1, <1>2, <2>1, <2>2, <2>3
<1>5. d = q
  BY <1>2, <1>4
<1>6. x % p = x - p * (x \div p)
  BY <1>1, SMT
<1> QED
  BY <1>1, <1>5, <1>6 DEF d

(* A number below the divisor is its own remainder. *)
LEMMA SmallRemains ==
    ASSUME NEW p \in Nat \ {0}, NEW r \in 0 .. p - 1
    PROVE  r \div p = 0 /\ r % p = r
<1> DEFINE q == 0
<1>1. r = p * q + r /\ q \in Int
  OBVIOUS
<1> HIDE DEF q
<1>2. r \div p = q /\ r % p = r
  BY <1>1, DivisionIsOne
<1> QED
  BY <1>2 DEF q

(* A signed number of n + 1 bits wraps to itself, *)
LEMMA WrapKeeps ==
    ASSUME NEW n \in Nat, NEW v \in -(2 ^ n) .. 2 ^ n - 1
    PROVE  Wrap(v, n + 1) = v
<1> DEFINE p == 2 ^ n
           m == 2 ^ (n + 1)
<1>1. p \in Nat /\ p >= 1 /\ m = 2 * p /\ (n + 1) - 1 = n
  BY PowerDoubles
<1>2. Wrap(v, n + 1) = IF v % m >= p THEN (v % m) - m ELSE v % m
  BY <1>1 DEF Wrap
<1>3. v \in -p .. p - 1
  OBVIOUS
<1> HIDE DEF p, m
<1>4. m \in Nat \ {0}
  BY <1>1
<1>5. CASE v >= 0
  <2>1. v \in 0 .. m - 1
    BY <1>1, <1>3, <1>5
  <2>2. v % m = v
    BY <1>4, <2>1, SmallRemains
  <2> QED
    BY <1>1, <1>2, <1>3, <2>2
<1>6. CASE v < 0
  <2> DEFINE q == -1
             r == v + m
  <2>1. v = m * q + r /\ r \in 0 .. m - 1 /\ q \in Int
    BY <1>1, <1>3, <1>6
  <2> HIDE DEF q, r
  <2>2. v % m = r
    BY <1>4, <2>1, DivisionIsOne
  <2> USE DEF r
  <2> QED
    BY <1>1, <1>2, <1>3, <1>6, <2>2
<1> QED
  BY <1>3, <1>5, <1>6, <1>1

(* as does the number its low bits make. *)
LEMMA WrapOfLow ==
    ASSUME NEW n \in Nat, NEW v \in -(2 ^ n) .. 2 ^ n - 1
    PROVE  Wrap(v % 2 ^ (n + 1), n + 1) = v
<1> DEFINE m == 2 ^ (n + 1)
           p == 2 ^ n
<1>1. m \in Nat \ {0} /\ v \in Int
  <2>1. p \in Nat /\ p >= 1 /\ m = 2 * p /\ v \in -p .. p - 1
    BY PowerDoubles
  <2> HIDE DEF p, m
  <2> QED
    BY <2>1
<1>2. (v % m) % m = v % m
  <2> HIDE DEF m
  <2> DEFINE r == v % m
  <2>1. r \in 0 .. m - 1
    BY <1>1, Division
  <2> HIDE DEF r
  <2>2. r % m = r
    BY <1>1, <2>1, SmallRemains
  <2> QED
    BY <2>2 DEF r
<1>3. Wrap(v % m, n + 1) = Wrap(v, n + 1)
  BY <1>2 DEF Wrap
<1> QED
  BY <1>3, WrapKeeps

(* World::trunc leaves the values of the type as they are. *)
LEMMA TruncKeeps ==
    ASSUME NEW t, NEW v \in ValuesOf(t)
    PROVE  Trunc(v, t) = v
<1>1. CASE t = "bool"
  BY <1>1 DEF Trunc, ValuesOf
<1>2. CASE t = "narrow"
  <2>1. (Narrow - 1) + 1 = Narrow
    BY WordFacts
  <2>2. v \in -(2 ^ (Narrow - 1)) .. 2 ^ (Narrow - 1) - 1
    BY <1>2 DEF ValuesOf
  <2>3. Wrap(v, (Narrow - 1) + 1) = v
    BY <2>2, WordFacts, WrapKeeps
  <2> QED
    BY <1>2, <2>1, <2>3 DEF Trunc
<1> QED
  BY <1>1, <1>2 DEF Trunc

(* A word wraps to itself. *)
LEMMA WordKeeps ==
    ASSUME NEW v \in Int64
    PROVE  Wrap(v, Word) = v /\ Wrap(v % 2 ^ Word, Word) = v
<1>1. (Word - 1) + 1 = Word /\ Word - 1 \in Nat
  BY WordFacts
<1>2. v \in -(2 ^ (Word - 1)) .. 2 ^ (Word - 1) - 1
  BY DEF Int64, MinWord, MaxWord
<1>3. Wrap(v, (Word - 1) + 1) = v /\ Wrap(v % 2 ^ ((Word - 1) + 1), (Word - 1) + 1) = v
  BY <1>1, <1>2, WrapKeeps, WrapOfLow
<1> QED
  BY <1>1, <1>3

(* The bits of a word make the word, and no bits make zero. *)
LEMMA BitsKeep ==
    ASSUME NEW v \in Int64
    PROVE  OfBits(OneBits(v)) = v /\ OfBits({}) = 0
<1> DEFINE bits == OneBits(v)
           x == v % 2 ^ Word
<1>1. v \in Int /\ Word \in Nat
  BY WordFacts DEF Int64
<1>2. x \in Nat /\ x < 2 ^ Word /\ 2 ^ Word \in Nat
  <2> DEFINE m == 2 ^ Word
  <2>1. m \in Nat \ {0}
    BY <1>1, PowerDoubles
  <2> HIDE DEF m
  <2>2. v % m \in 0 .. m - 1
    BY <1>1, <2>1, Division
  <2>3. v % m \in Nat /\ v % m < m /\ m \in Nat
    BY <2>1, <2>2
  <2> QED
    BY <2>3 DEF m
<1>3. PICK low : /\ low[0] = 0
                 /\ \A n \in Nat :
                      /\ low[n] \in Int
                      /\ low[n + 1] = low[n] + (IF n \in bits THEN 2 ^ n ELSE 0)
                 /\ OfBits(bits) = Wrap(low[Word], Word)
  BY OfBitsUnfold
<1>4. \A n \in 0 .. Word - 1 : n \in bits <=> (x \div 2 ^ n) % 2 = 1
  BY DEF OneBits
<1> HIDE DEF bits, x
<1> DEFINE T == {n \in Nat : n <= Word => low[n] = x % 2 ^ n}
<1>5. 0 \in T
  <2>1. 2 ^ 0 = 1
    BY PowerDoubles
  <2>2. x = 1 * x + 0 /\ 0 \in 0 .. 1 - 1 /\ x \in Int /\ 1 \in Nat \ {0}
    BY <1>2
  <2>3. x % 1 = 0
    BY <2>2, DivisionIsOne
  <2> QED
    BY <1>3, <2>1, <2>3
<1>6. ASSUME NEW n \in Nat, n \in T PROVE n + 1 \in T
  <2> SUFFICES ASSUME n + 1 <= Word PROVE low[n + 1] = x % 2 ^ (n + 1)
    OBVIOUS
  <2> DEFINE p == 2 ^ n
             q == x \div p
             r == x % p
             h == q \div 2
             b == q % 2
  <2>1. n \in 0 .. Word - 1 /\ low[n] = r
    BY <1>1, <1>6
  <2>2. p \in Nat \ {0} /\ 2 ^ (n + 1) = 2 * p
    BY PowerDoubles
  <2>3. n \in bits <=> b = 1
    BY <1>4, <2>1
  <2>4. low[n + 1] = low[n] + (IF n \in bits THEN p ELSE 0)
    BY <1>3
  <2> HIDE DEF p
  <2>5. q \in Int /\ r \in 0 .. p - 1 /\ x = p * q + r
    <3>1. x % p = x - p * (x \div p)
      BY <1>2, <2>2, SMT
    <3>2. q \in Int /\ r \in 0 .. p - 1
      <4>1. x \in Int /\ p \in Nat \ {0}
        BY <1>2, <2>2
      <4>2. x \div p \in Int /\ x % p \in 0 .. p - 1
        BY <4>1, Division
      <4> QED
        BY <4>2
    <3>3. p * q \in Int /\ r = x - p * q
      BY <2>2, <3>1, <3>2
    <3> HIDE DEF q, r
    <3> QED
      BY <1>2, <3>2, <3>3
  <2> HIDE DEF q, r
  <2>6. h \in Int /\ b \in 0 .. 1 /\ q = 2 * h + b
    BY <2>5
  <2> HIDE DEF h, b
  <2>7. x = (2 * p) * h + (p * b + r)
    BY <2>2, <2>5, <2>6, SMT
  <2>8. p * b = IF b = 1 THEN p ELSE 0
    BY <2>2, <2>6, SMT
  <2> DEFINE pp == 2 * p
             rr == p * b + r
  <2>9. rr \in 0 .. pp - 1 /\ pp \in Nat \ {0}
    BY <2>2, <2>5, <2>6, <2>8
  <2>10. x % pp = rr
    <3>1. x = pp * h + rr
      BY <2>7
    <3> HIDE DEF pp, rr
    <3> QED
      BY <2>6, <2>9, <3>1, DivisionIsOne
  <2>11. low[n + 1] = p * b + r
    BY <2>1, <2>2, <2>3, <2>4, <2>5, <2>8
  <2> QED
    BY <2>2, <2>10, <2>11
<1>7. low[Word] = x % 2 ^ Word
  <2>1. Nat \subseteq T
    <3> HIDE DEF T
    <3> QED
      BY <1>5, <1>6, SetInduction
  <2> QED
    BY <1>1, <2>1
<1>8. x % 2 ^ Word = x
  <2> DEFINE m == 2 ^ Word
  <2>1. m \in Nat \ {0} /\ x \in 0 .. m - 1
    BY <1>1, <1>2, PowerDoubles
  <2> HIDE DEF m
  <2>2. x % m = x
    BY <2>1, SmallRemains
  <2> QED
    BY <2>2 DEF m
<1>9. OfBits(bits) = v
  <2>1. OfBits(bits) = Wrap(x, Word)
    BY <1>3, <1>7, <1>8
  <2> QED
    BY <2>1, WordKeeps DEF x
<1>10. OfBits({}) = 0
  <2>1. PICK none : /\ none[0] = 0
                    /\ \A n \in Nat : /\ none[n] \in Int
                                      /\ none[n + 1] = none[n] + (IF n \in {} THEN 2 ^ n ELSE 0)
                    /\ OfBits({}) = Wrap(none[Word], Word)
    BY OfBitsUnfold
  <2> DEFINE Z == {n \in Nat : none[n] = 0}
  <2>2. 0 \in Z /\ \A n \in Nat : n \in Z => n + 1 \in Z
    BY <2>1
  <2>3. Nat \subseteq Z
    <3> HIDE DEF Z
    <3> QED
      BY <2>2, SetInduction
  <2>4. none[Word] = 0 /\ 0 \in Int64
    BY <1>1, <2>3, WordFacts DEF Int64
  <2> QED
    BY <2>1, <2>4, WordKeeps
<1> QED
  BY <1>9, <1>10 DEF bits

(* Zero has no bits. *)
LEMMA ZeroHasNoBits == OneBits(0) = {}
<1>1. ASSUME NEW n \in Nat PROVE 0 % 2 ^ n = 0 /\ 0 \div 2 ^ n = 0
  <2> DEFINE p == 2 ^ n
  <2>1. p \in Nat \ {0}
    BY PowerDoubles
  <2> HIDE DEF p
  <2>2. 0 \in 0 .. p - 1
    BY <2>1
  <2>3. 0 % p = 0 /\ 0 \div p = 0
    BY <2>1, <2>2, SmallRemains
  <2> QED
    BY <2>3 DEF p
<1>2. 0 % 2 ^ Word = 0
  BY <1>1, WordFacts
<1>3. \A i \in 0 .. Word - 1 : ((0 % 2 ^ Word) \div 2 ^ i) % 2 # 1
  <2> TAKE i \in 0 .. Word - 1
  <2>1. 0 \div 2 ^ i = 0
    BY <1>1
  <2>2. 0 % 2 # 1
    OBVIOUS
  <2> QED
    BY <1>2, <2>1, <2>2
<1> QED
  BY <1>3, Zenon DEF OneBits

(* Interp::arith gives a value of the type it is asked for, *)
LEMMA ArithFits ==
    ASSUME NEW op \in BinOps, NEW a \in Int64, NEW b \in Int64, NEW t
    PROVE  Arith(op, a, b, t) \in ValuesOf(t)
<1>1. CASE op \in {"SDiv", "SRem"} /\ b = 0
  BY <1>1, ZeroFits DEF Arith
<1>2. CASE op \in {"SDiv", "SRem"} /\ b # 0 /\ a = MinWord /\ b = -1
  BY <1>2, ZeroFits, TruncFits DEF Arith
<1>3. CASE op \in {"SDiv", "SRem"} /\ b # 0 /\ ~(a = MinWord /\ b = -1)
  <2>1. Quotient(a, b) \in Int64 /\ Remainder(a, b) \in Int64
    BY <1>3, QuotientFits
  <2> QED
    BY <1>3, <2>1, TruncFits DEF Arith
<1>4. CASE op \notin {"SDiv", "SRem"}
  <2>1. Calc(op, a, b) \in Int64
    BY <1>4, CalcFits
  <2> QED
    BY <1>4, <2>1, TruncFits DEF Arith
<1> QED
  BY <1>1, <1>2, <1>3, <1>4

(* and what World::fold_binop folds, when it does not decline. *)
LEMMA FoldIsArith ==
    ASSUME NEW op \in BinOps, NEW a \in Int64, NEW b \in Int64, ~FoldFails(op, b), NEW t
    PROVE  FoldBinop(op, a, b, t) = Arith(op, a, b, t)
<1>1. CASE op \in {"SDiv", "SRem"}
  <2>1. b # 0
    BY <1>1 DEF FoldFails
  <2>2. CASE a = MinWord /\ b = -1
    BY <1>1, <2>1, <2>2 DEF FoldBinop, Arith
  <2>3. CASE ~(a = MinWord /\ b = -1)
    BY <1>1, <2>1, <2>3 DEF FoldBinop, Arith
  <2> QED
    BY <2>2, <2>3
<1>2. CASE op \notin {"SDiv", "SRem"}
  BY <1>2 DEF FoldBinop, Arith
<1> QED
  BY <1>1, <1>2

(* The operations the code calls commutative are. *)
LEMMA ArithCommutes ==
    ASSUME NEW op \in BinOps \cap Commutative, NEW a \in Int64, NEW b \in Int64, NEW t
    PROVE  Arith(op, a, b, t) = Arith(op, b, a, t)
<1>1. a \in Int /\ b \in Int
  BY WordFacts DEF Int64
<1>2. a + b = b + a /\ a * b = b * a
  BY <1>1
<1>3. Calc(op, a, b) = Calc(op, b, a)
  <2> DEFINE A == OneBits(a)
             B == OneBits(b)
  <2>1. A \cap B = B \cap A /\ A \cup B = B \cup A
    OBVIOUS
  <2>2. op \in {"Add", "Mul", "And", "Or", "Xor"}
    BY DEF BinOps, Commutative
  <2> HIDE DEF A, B
  <2>3. CASE op = "Add"
    BY <1>2, <2>3 DEF Calc
  <2>4. CASE op = "Mul"
    BY <1>2, <2>4 DEF Calc
  <2>5. CASE op = "And"
    BY <2>1, <2>5 DEF Calc, A, B
  <2>6. CASE op = "Or"
    BY <2>1, <2>6 DEF Calc, A, B
  <2>7. CASE op = "Xor"
    BY <2>1, <2>7 DEF Calc, A, B
  <2> QED
    BY <2>2, <2>3, <2>4, <2>5, <2>6, <2>7
<1> QED
  BY <1>3 DEF Arith, BinOps, Commutative

(* The quotient and the product by one, and shifts by zero, change nothing. *)
LEMMA ByOne ==
    ASSUME NEW a \in Int64
    PROVE  /\ Quotient(a, 1) = a
           /\ Calc("Mul", a, 1) = a
           /\ \A op \in {"Shl", "AShr", "LShr"} : Calc(op, a, 0) = a
<1>1. a \in Int /\ Word \in Nat \ {0}
  BY WordFacts DEF Int64
<1>2. ASSUME NEW x \in Int PROVE x \div 1 = x
  <2>1. x = 1 * x + 0 /\ 0 \in 0 .. 1 - 1
    OBVIOUS
  <2> QED
    BY <2>1, DivisionIsOne
<1>3. Quotient(a, 1) = a
  <2>1. CASE a < 0
    <3>1. Magnitude(a) = -a /\ Magnitude(1) = 1 /\ (-a) \div 1 = -a
      BY <1>1, <1>2, <2>1 DEF Magnitude
    <3> QED
      BY <1>1, <2>1, <3>1 DEF Quotient
  <2>2. CASE ~(a < 0)
    <3>1. Magnitude(a) = a /\ Magnitude(1) = 1 /\ a \div 1 = a
      BY <1>1, <1>2, <2>2 DEF Magnitude
    <3> QED
      BY <1>1, <2>2, <3>1 DEF Quotient
  <2> QED
    BY <2>1, <2>2
<1>4. Calc("Mul", a, 1) = a
  <2>1. a * 1 = a
    BY <1>1
  <2> QED
    BY <2>1, WordKeeps DEF Calc
<1>5. 0 % Word = 0 /\ 2 ^ 0 = 1
  <2>1. 0 \in 0 .. Word - 1
    BY <1>1
  <2>2. 0 % Word = 0
    BY <1>1, <2>1, SmallRemains
  <2> QED
    BY <2>2, PowerDoubles
<1>6. Calc("Shl", a, 0) = a
  <2>1. a * 1 = a
    BY <1>1
  <2> QED
    BY <1>5, <2>1, WordKeeps DEF Calc
<1>7. Calc("AShr", a, 0) = a
  BY <1>1, <1>2, <1>5 DEF Calc
<1>8. Calc("LShr", a, 0) = a
  <2>1. a % 2 ^ Word \in Int
    <3> DEFINE m == 2 ^ Word
    <3>1. m \in Nat \ {0}
      BY <1>1, PowerDoubles
    <3> HIDE DEF m
    <3>2. a % m \in Int
      BY <1>1, <3>1, Division
    <3> QED
      BY <3>2 DEF m
  <2>2. (a % 2 ^ Word) \div 1 = a % 2 ^ Word
    BY <1>2, <2>1
  <2> QED
    BY <1>5, <2>2, WordKeeps DEF Calc
<1> QED
  BY <1>3, <1>4, <1>6, <1>7, <1>8

(* The identities of binop: operations that leave their first operand as it *)
(* is, wherever KeepsFirst says so.                                         *)
LEMMA ArithKeeps ==
    ASSUME NEW t, NEW a \in ValuesOf(t), NEW b \in Int64, NEW op,
           \/ op \in {"Add", "Sub", "Or", "Xor", "Shl", "AShr", "LShr"} /\ b = 0
           \/ op \in {"Mul", "SDiv"} /\ b = 1
           \/ op \in {"And", "Or"} /\ a = b
    PROVE  Arith(op, a, b, t) = a
<1>1. a \in Int64
  BY ValuesAreWords
<1>2. a \in Int
  BY <1>1, WordFacts DEF Int64
<1>3. Trunc(a, t) = a
  BY TruncKeeps
<1>4. CASE op = "SDiv" /\ b = 1
  <2>1. Quotient(a, b) = a
    BY <1>1, <1>4, ByOne
  <2>2. b # 0 /\ b # -1
    BY <1>4
  <2> QED
    BY <1>3, <1>4, <2>1, <2>2 DEF Arith
<1>5. CASE op # "SDiv"
  <2>1. op \notin {"SDiv", "SRem"}
    BY <1>5
  <2>2. Calc(op, a, b) = a
    <3>1. CASE op = "Add" /\ b = 0
      BY <1>1, <1>2, <3>1, WordKeeps DEF Calc
    <3>2. CASE op = "Sub" /\ b = 0
      BY <1>1, <1>2, <3>2, WordKeeps DEF Calc
    <3>3. CASE op = "Or" /\ b = 0
      <4>1. OneBits(a) \cup OneBits(b) = OneBits(a)
        BY <3>3, ZeroHasNoBits
      <4> QED
        BY <1>1, <3>3, <4>1, BitsKeep DEF Calc
    <3>4. CASE op = "Xor" /\ b = 0
      <4>1. (OneBits(a) \cup OneBits(b)) \ (OneBits(a) \cap OneBits(b)) = OneBits(a)
        BY <3>4, ZeroHasNoBits
      <4> QED
        BY <1>1, <3>4, <4>1, BitsKeep DEF Calc
    <3>5. CASE op \in {"Shl", "AShr", "LShr"} /\ b = 0
      BY <1>1, <3>5, ByOne
    <3>6. CASE op = "Mul" /\ b = 1
      BY <1>1, <3>6, ByOne
    <3>7. CASE op = "And" /\ a = b
      <4>1. OneBits(a) \cap OneBits(b) = OneBits(a)
        BY <3>7
      <4> QED
        BY <1>1, <3>7, <4>1, BitsKeep DEF Calc
    <3>8. CASE op = "Or" /\ a = b
      <4>1. OneBits(a) \cup OneBits(b) = OneBits(a)
        BY <3>8
      <4> QED
        BY <1>1, <3>8, <4>1, BitsKeep DEF Calc
    <3> QED
      BY <1>5, <3>1, <3>2, <3>3, <3>4, <3>5, <3>6, <3>7, <3>8
  <2> QED
    BY <1>3, <2>1, <2>2 DEF Arith
<1> QED
  BY <1>4, <1>5

(* And those that give zero, wherever GivesZero says so. *)
LEMMA ArithIsZero ==
    ASSUME NEW t, NEW a \in Int64, NEW b \in Int64, NEW op,
           \/ op \in {"Mul", "And"} /\ b = 0
           \/ op \in {"Sub", "Xor"} /\ a = b
    PROVE  Arith(op, a, b, t) = 0
<1>1. a \in Int /\ b \in Int /\ 0 \in Int64 /\ Wrap(0, Word) = 0
  BY WordFacts, WordKeeps DEF Int64
<1>2. Trunc(0, t) = 0
  BY ZeroFits, TruncKeeps
<1>3. CASE op = "Mul" /\ b = 0
  <2>1. a * b = 0
    BY <1>1, <1>3
  <2> QED
    BY <1>1, <1>2, <1>3, <2>1 DEF Arith, Calc
<1>4. CASE op = "And" /\ b = 0
  <2>1. OneBits(a) \cap OneBits(b) = {}
    BY <1>4, ZeroHasNoBits
  <2> QED
    BY <1>1, <1>2, <1>4, <2>1, BitsKeep DEF Arith, Calc
<1>5. CASE op = "Sub" /\ a = b
  <2>1. a - b = 0
    BY <1>1, <1>5
  <2> QED
    BY <1>1, <1>2, <1>5, <2>1 DEF Arith, Calc
<1>6. CASE op = "Xor" /\ a = b
  <2>1. (OneBits(a) \cup OneBits(b)) \ (OneBits(a) \cap OneBits(b)) = {}
    BY <1>6
  <2> QED
    BY <1>1, <1>2, <1>6, <2>1, BitsKeep DEF Arith, Calc
<1> QED
  BY <1>3, <1>4, <1>5, <1>6

(* Multiplying by a power of two is shifting by its exponent, which is at   *)
(* most two less than the width.                                            *)
LEMMA ArithShifts ==
    ASSUME NEW t, NEW a, NEW c \in Int64, NEW k \in Log(c)
    PROVE  /\ Arith("Mul", a, c, t) = Arith("Shl", a, k, t)
           /\ k \in 1 .. Word - 2
<1>1. k \in 1 .. Word - 1 /\ c = 2 ^ k /\ Word \in Nat \ {0}
  BY WordFacts DEF Log
<1>2. k % Word = k
  <2>1. k \in 0 .. Word - 1
    BY <1>1
  <2> QED
    BY <1>1, <2>1, SmallRemains
<1>3. Calc("Mul", a, c) = Calc("Shl", a, k)
  BY <1>1, <1>2 DEF Calc
<1>4. k # Word - 1
  <2>1. MaxWord = 2 ^ (Word - 1) - 1 /\ c <= MaxWord /\ MaxWord \in Int /\ c \in Int
    BY WordFacts DEF MaxWord, Int64
  <2> DEFINE top == 2 ^ (Word - 1)
  <2>2. top \in Int
    BY WordFacts, PowerDoubles
  <2> HIDE DEF top
  <2>3. c # top
    BY <2>1, <2>2 DEF top
  <2> QED
    BY <1>1, <2>3 DEF top
<1> QED
  BY <1>1, <1>3, <1>4 DEF Arith

(* The values of the operands of a node under the values f of all nodes. *)
Args(f, ins) == [k \in DOMAIN ins |-> f[ins[k]]]

(* What Value and Given say of one node, from what f says of those before. *)
ValueStep(u, env, f, i) ==
    IF IsConst(u, i) THEN Imm(u, i)
    ELSE IF u.nodes[i].op \in Computed
    THEN Apply(Op(u, i), Type(u, i), Args(f, Sources(u, i)))
    ELSE env[i]

GivenStep(u, f, i) ==
    IF u.nodes[i].op \in Computed
    THEN UNION {f[Sources(u, i)[k]] : k \in DOMAIN Sources(u, i)}
    ELSE {i} \ {c \in {i} : IsConst(u, c)}

Valuation(u, env, f) == \A i \in DOMAIN u.nodes : f[i] = ValueStep(u, env, f, i)

(* A value is computed from values of older nodes. *)
LEMMA SourcesOlder ==
    ASSUME NEW u, WellMade(u), AllFormed(u), NEW i \in DOMAIN u.nodes,
           u.nodes[i].op \in Computed
    PROVE  Sources(u, i) \in Seq(1 .. i - 1)
<1> DEFINE n == u.nodes[i]
           a == n.ins[1]
           b == n.ins[2]
           c == n.ins[3]
<1>1. Formed(u, i)
  BY DEF AllFormed
<1>2. i \in Nat
  BY ArenaDomain
<1>3. CASE n.op = "Cond"
  <2>1. n.ins = <<a>> /\ u.conds[n.region] \in Seq(1 .. i - 1)
    BY <1>1, <1>3 DEF Formed
  <2>2. a \in 1 .. i - 1
    <3>1. a \in Range(n.ins)
      BY <2>1 DEF Range
    <3> QED
      BY <3>1 DEF WellMade, OperandsOlder, Operands
  <2> DEFINE S == 1 .. i - 1
             rest == u.conds[n.region]
  <2>3. n.ins \in Seq(S) /\ rest \in Seq(S)
    <3> HIDE DEF S, rest
    <3>1. <<a>> \in Seq(S)
      BY <2>2, ShortSeqs DEF S
    <3> QED
      BY <2>1, <3>1 DEF S, rest
  <2>4. n.ins \o rest \in Seq(S)
    <3> HIDE DEF S, rest, n
    <3> QED
      BY <2>3
  <2> QED
    BY <1>3, <2>4 DEF Sources
<1>4. CASE n.op # "Cond"
  <2> DEFINE one == <<a>>
             two == <<a, b>>
             three == <<a, b, c>>
  <2>1. n.ins \in {one, two, three}
    <3>1. CASE n.op \in BinOps \cup CmpOps
      BY <1>1, <3>1 DEF Formed, Node
    <3>2. CASE n.op \in {"Neg", "Not"}
      BY <1>1, <3>2 DEF Formed, Node
    <3>3. CASE n.op = "Select"
      BY <1>1, <3>3 DEF Formed, Node
    <3> QED
      BY <1>4, <3>1, <3>2, <3>3 DEF Computed
  <2>2. \A k \in DOMAIN n.ins : n.ins[k] \in 1 .. i - 1
    BY DEF WellMade, OperandsOlder, Operands, Range
  <2> HIDE DEF n
  <2>3. CASE n.ins = one
    <3>1. a \in 1 .. i - 1
      BY <2>2, <2>3
    <3>2. one \in Seq(1 .. i - 1)
      BY <3>1, ShortSeqs
    <3> HIDE DEF one
    <3> QED
      BY <1>4, <2>3, <3>2 DEF Sources, n
  <2>4. CASE n.ins = two
    <3>1. a \in 1 .. i - 1 /\ b \in 1 .. i - 1
      BY <2>2, <2>4
    <3>2. two \in Seq(1 .. i - 1)
      BY <3>1, ShortSeqs
    <3> HIDE DEF two
    <3> QED
      BY <1>4, <2>4, <3>2 DEF Sources, n
  <2>5. CASE n.ins = three
    <3>1. a \in 1 .. i - 1 /\ b \in 1 .. i - 1 /\ c \in 1 .. i - 1
      BY <2>2, <2>5
    <3>2. three \in Seq(1 .. i - 1)
      BY <3>1, ShortSeqs
    <3> HIDE DEF three
    <3> QED
      BY <1>4, <2>5, <3>2 DEF Sources, n
  <2> QED
    BY <2>1, <2>3, <2>4, <2>5
<1> QED
  BY <1>3, <1>4

(* So what is said of a node depends on what is said of older ones only. *)
LEMMA StepsAgree ==
    ASSUME NEW u, WellMade(u), AllFormed(u), NEW i \in DOMAIN u.nodes,
           NEW f, NEW h, \A j \in 1 .. i - 1 : f[j] = h[j], NEW env
    PROVE  /\ ValueStep(u, env, f, i) = ValueStep(u, env, h, i)
           /\ GivenStep(u, f, i) = GivenStep(u, h, i)
<1>1. CASE u.nodes[i].op \in Computed
  <2> DEFINE s == Sources(u, i)
  <2>1. \A k \in DOMAIN s : s[k] \in 1 .. i - 1
    <3> DEFINE S == 1 .. i - 1
    <3>1. s \in Seq(S)
      BY <1>1, SourcesOlder
    <3> HIDE DEF s, S
    <3>2. \A k \in DOMAIN s : s[k] \in S
      BY <3>1
    <3> QED
      BY <3>2 DEF S
  <2> HIDE DEF s
  <2>2. \A k \in DOMAIN s : f[s[k]] = h[s[k]]
    BY <2>1
  <2>3. Args(f, s) = Args(h, s)
    BY <2>2 DEF Args
  <2>4. {f[s[k]] : k \in DOMAIN s} = {h[s[k]] : k \in DOMAIN s}
    BY <2>2
  <2> QED
    BY <1>1, <2>3, <2>4 DEF ValueStep, GivenStep, s
<1>2. CASE u.nodes[i].op \notin Computed
  BY <1>2 DEF ValueStep, GivenStep
<1> QED
  BY <1>1, <1>2

(* Every environment gives every node a value, *)
LEMMA ValuesExist ==
    ASSUME NEW u, WellMade(u), AllFormed(u), NEW env
    PROVE  \E f : f = [i \in DOMAIN u.nodes |-> ValueStep(u, env, f, i)]
<1> DEFINE Told(f, n) == \A i \in 1 .. n : i \in DOMAIN u.nodes =>
                                f[i] = ValueStep(u, env, f, i)
           T == {n \in Nat : \E f : Told(f, n)}
<1>1. 0 \in T
  OBVIOUS
<1>2. ASSUME NEW n \in Nat, n \in T PROVE n + 1 \in T
  <2>1. PICK f : Told(f, n)
    BY <1>2
  <2> DEFINE v == ValueStep(u, env, f, n + 1)
             h == [i \in 1 .. n + 1 |-> IF i <= n THEN f[i] ELSE v]
  <2>2. /\ \A i \in 1 .. n : h[i] = f[i]
        /\ h[n + 1] = v
    <3> HIDE DEF v
    <3> QED
      OBVIOUS
  <2> HIDE DEF h
  <2>3. ASSUME NEW i \in 1 .. n + 1, i \in DOMAIN u.nodes
        PROVE  h[i] = ValueStep(u, env, h, i)
    <3>1. \A j \in 1 .. i - 1 : f[j] = h[j]
      BY <2>2
    <3>2. ValueStep(u, env, f, i) = ValueStep(u, env, h, i)
      BY <2>3, <3>1, StepsAgree
    <3>3. CASE i <= n
      <4>1. i \in 1 .. n
        BY <3>3
      <4> QED
        BY <2>1, <2>2, <2>3, <3>2, <4>1
    <3>4. CASE ~(i <= n)
      <4>1. i = n + 1
        BY <3>4
      <4> QED
        BY <2>2, <3>2, <4>1
    <3> QED
      BY <3>3, <3>4
  <2>4. Told(h, n + 1)
    BY <2>3
  <2> HIDE DEF Told
  <2> QED
    BY <2>4
<1>3. Nat \subseteq T
  <2> HIDE DEF T
  <2> QED
    BY <1>1, <1>2, SetInduction
<1>4. Len(u.nodes) \in Nat /\ DOMAIN u.nodes = 1 .. Len(u.nodes)
  BY ArenaDomain
<1>5. PICK f : Told(f, Len(u.nodes))
  BY <1>3, <1>4
<1> DEFINE g == [i \in DOMAIN u.nodes |-> f[i]]
<1>6. ASSUME NEW i \in DOMAIN u.nodes PROVE g[i] = ValueStep(u, env, g, i)
  <2>1. \A j \in 1 .. i - 1 : f[j] = g[j]
    BY <1>4
  <2> HIDE DEF g
  <2>2. ValueStep(u, env, f, i) = ValueStep(u, env, g, i)
    BY <2>1, StepsAgree
  <2> QED
    BY <1>4, <1>5, <2>2 DEF g
<1>7. g = [i \in DOMAIN u.nodes |-> g[i]]
  OBVIOUS
<1> HIDE DEF g
<1>8. g = [i \in DOMAIN u.nodes |-> ValueStep(u, env, g, i)]
  BY <1>6, <1>7
<1> QED
  BY <1>8

(* and every node has a set of nodes its value rests on. *)
LEMMA GivensExist ==
    ASSUME NEW u, WellMade(u), AllFormed(u)
    PROVE  \E f : f = [i \in DOMAIN u.nodes |-> GivenStep(u, f, i)]
<1> DEFINE Told(f, n) == \A i \in 1 .. n : i \in DOMAIN u.nodes =>
                                f[i] = GivenStep(u, f, i)
           T == {n \in Nat : \E f : Told(f, n)}
<1>1. 0 \in T
  OBVIOUS
<1>2. ASSUME NEW n \in Nat, n \in T PROVE n + 1 \in T
  <2>1. PICK f : Told(f, n)
    BY <1>2
  <2> DEFINE v == GivenStep(u, f, n + 1)
             h == [i \in 1 .. n + 1 |-> IF i <= n THEN f[i] ELSE v]
  <2>2. /\ \A i \in 1 .. n : h[i] = f[i]
        /\ h[n + 1] = v
    <3> HIDE DEF v
    <3> QED
      OBVIOUS
  <2> HIDE DEF h
  <2>3. ASSUME NEW i \in 1 .. n + 1, i \in DOMAIN u.nodes
        PROVE  h[i] = GivenStep(u, h, i)
    <3>1. \A j \in 1 .. i - 1 : f[j] = h[j]
      BY <2>2
    <3>2. GivenStep(u, f, i) = GivenStep(u, h, i)
      BY <2>3, <3>1, StepsAgree
    <3>3. CASE i <= n
      <4>1. i \in 1 .. n
        BY <3>3
      <4> QED
        BY <2>1, <2>2, <2>3, <3>2, <4>1
    <3>4. CASE ~(i <= n)
      <4>1. i = n + 1
        BY <3>4
      <4> QED
        BY <2>2, <3>2, <4>1
    <3> QED
      BY <3>3, <3>4
  <2>4. Told(h, n + 1)
    BY <2>3
  <2> HIDE DEF Told
  <2> QED
    BY <2>4
<1>3. Nat \subseteq T
  <2> HIDE DEF T
  <2> QED
    BY <1>1, <1>2, SetInduction
<1>4. Len(u.nodes) \in Nat /\ DOMAIN u.nodes = 1 .. Len(u.nodes)
  BY ArenaDomain
<1>5. PICK f : Told(f, Len(u.nodes))
  BY <1>3, <1>4
<1> DEFINE g == [i \in DOMAIN u.nodes |-> f[i]]
<1>6. ASSUME NEW i \in DOMAIN u.nodes PROVE g[i] = GivenStep(u, g, i)
  <2>1. \A j \in 1 .. i - 1 : f[j] = g[j]
    BY <1>4
  <2> HIDE DEF g
  <2>2. GivenStep(u, f, i) = GivenStep(u, g, i)
    BY <2>1, StepsAgree
  <2> QED
    BY <1>4, <1>5, <2>2 DEF g
<1>7. g = [i \in DOMAIN u.nodes |-> g[i]]
  OBVIOUS
<1> HIDE DEF g
<1>8. g = [i \in DOMAIN u.nodes |-> GivenStep(u, g, i)]
  BY <1>6, <1>7
<1> QED
  BY <1>8

(* Value is such a valuation, *)
LEMMA ValueUnfold ==
    ASSUME NEW u, WellMade(u), AllFormed(u), NEW env
    PROVE  \E f : Valuation(u, env, f) /\ \A id : Value(u, env, id) = f[id]
<1> DEFINE Says(f) == f = [i \in DOMAIN u.nodes |-> ValueStep(u, env, f, i)]
           val == CHOOSE f : Says(f)
<1>1. Says(val)
  <2>1. \E f : Says(f)
    BY ValuesExist
  <2> HIDE DEF Says
  <2> QED
    BY <2>1
<1>2. \A id : Value(u, env, id) = val[id]
  BY DEF Value, ValueStep, Args
<1> HIDE DEF val
<1>3. Valuation(u, env, val)
  BY <1>1 DEF Valuation
<1> QED
  BY <1>2, <1>3

(* and Given collects such sets. *)
LEMMA GivenUnfold ==
    ASSUME NEW u, WellMade(u), AllFormed(u)
    PROVE  \E f : /\ \A i \in DOMAIN u.nodes : f[i] = GivenStep(u, f, i)
                  /\ \A ids : Given(u, ids) = UNION {f[id] : id \in ids}
<1> DEFINE Says(f) == f = [i \in DOMAIN u.nodes |-> GivenStep(u, f, i)]
           given == CHOOSE f : Says(f)
<1>1. Says(given)
  <2>1. \E f : Says(f)
    BY GivensExist
  <2> HIDE DEF Says
  <2> QED
    BY <2>1
<1>2. \A ids : Given(u, ids) = UNION {given[id] : id \in ids}
  BY DEF Given, GivenStep
<1> HIDE DEF given
<1>3. \A i \in DOMAIN u.nodes : given[i] = GivenStep(u, given, i)
  BY <1>1
<1> QED
  BY <1>2, <1>3

(* Interp::eval, one kind of node at a time. *)
LEMMA ApplyIs ==
    ASSUME NEW t, NEW v
    PROVE  /\ \A op \in BinOps : Apply(op, t, v) = Arith(op, v[1], v[2], t)
           /\ \A op \in CmpOps : Apply(op, t, v) = IF Holds(op, v[1], v[2]) THEN 1 ELSE 0
           /\ Apply("Neg", t, v) = Trunc(Wrap(0 - v[1], Word), t)
           /\ Apply("Not", t, v) = Trunc(-v[1] - 1, t)
           /\ Apply("Select", t, v) = IF v[1] # 0 THEN v[2] ELSE v[3]
           /\ Len(v) = 3 => Apply("Cond", t, v) = IF v[1] # 0 THEN v[3] ELSE v[2]
           /\ Len(v) # 3 => Apply("Cond", t, v) =
                                IF v[1] \in 0 .. Len(v) - 2 THEN v[v[1] + 2] ELSE 0
<1>1. \A op \in BinOps : op \notin CmpOps \cup {"Neg", "Not", "Select", "Cond"}
  BY DEF BinOps, CmpOps
<1>2. \A op \in CmpOps : op \notin {"Neg", "Not", "Select", "Cond"}
  BY DEF CmpOps
<1>3. \A op \in {"Neg", "Not", "Select", "Cond"} : op \notin BinOps \cup CmpOps
  BY DEF BinOps, CmpOps
<1>4. \A op \in BinOps : Apply(op, t, v) = Arith(op, v[1], v[2], t)
  BY <1>1 DEF Apply
<1>5. \A op \in CmpOps : Apply(op, t, v) = IF Holds(op, v[1], v[2]) THEN 1 ELSE 0
  BY <1>1, <1>2 DEF Apply
<1>6. Apply("Neg", t, v) = Trunc(Wrap(0 - v[1], Word), t)
  BY <1>3 DEF Apply
<1>7. Apply("Not", t, v) = Trunc(-v[1] - 1, t)
  BY <1>3 DEF Apply
<1>8. Apply("Select", t, v) = IF v[1] # 0 THEN v[2] ELSE v[3]
  BY <1>3 DEF Apply
<1>9. Len(v) = 3 => Apply("Cond", t, v) = IF v[1] # 0 THEN v[3] ELSE v[2]
  BY <1>3 DEF Apply
<1>10. Len(v) # 3 => Apply("Cond", t, v) =
                         IF v[1] \in 0 .. Len(v) - 2 THEN v[v[1] + 2] ELSE 0
  BY <1>3 DEF Apply
<1> QED
  BY <1>4, <1>5, <1>6, <1>7, <1>8, <1>9, <1>10

(* Negation and complement of a word are values of the type asked for. *)
LEMMA UnaryFits ==
    ASSUME NEW a \in Int64, NEW t
    PROVE  /\ Trunc(Wrap(0 - a, Word), t) \in ValuesOf(t)
           /\ Trunc(-a - 1, t) \in ValuesOf(t)
<1>1. a \in Int /\ 0 - a \in Int
  BY WordFacts DEF Int64
<1>2. Wrap(0 - a, Word) \in Int64
  BY <1>1, WrapWord
<1>3. -a - 1 \in Int64
  BY WordFacts DEF Int64
<1> QED
  BY <1>2, <1>3, TruncFits

(* The values of a seq of nodes, read one by one. *)
LEMMA ArgsFacts ==
    ASSUME NEW f, NEW S, NEW s \in Seq(S)
    PROVE  /\ Len(Args(f, s)) = Len(s) /\ DOMAIN Args(f, s) = 1 .. Len(s)
           /\ \A k \in DOMAIN s : Args(f, s)[k] = f[s[k]]
<1> DEFINE T == {f[s[k]] : k \in DOMAIN s}
<1>1. Args(f, s) = [k \in 1 .. Len(s) |-> f[s[k]]] /\ DOMAIN s = 1 .. Len(s) /\ Len(s) \in Nat
  BY DEF Args
<1>2. Args(f, s) \in [1 .. Len(s) -> T]
  BY <1>1
<1>3. Args(f, s) \in Seq(T)
  <2> HIDE DEF T
  <2> QED
    BY <1>1, <1>2, FunctionIsSeq
<1> HIDE DEF T
<1>4. Len(Args(f, s)) = Len(s)
  <2>1. DOMAIN Args(f, s) = 1 .. Len(Args(f, s)) /\ Len(Args(f, s)) \in Nat
    BY <1>3
  <2>2. 1 .. Len(Args(f, s)) = 1 .. Len(s)
    BY <1>1, <2>1
  <2> QED
    BY <1>1, <2>1, <2>2
<1> QED
  BY <1>1, <1>3, <1>4

(* A formed node has a value of its type if those it is computed from have  *)
(* values of theirs.                                                        *)
LEMMA ApplyFits ==
    ASSUME NEW u, WellMade(u), Good(u), AllFormed(u), NEW i \in DOMAIN u.nodes,
           u.nodes[i].op \in Computed, NEW f,
           \A k \in DOMAIN Sources(u, i) :
              f[Sources(u, i)[k]] \in ValuesOf(Type(u, Sources(u, i)[k]))
    PROVE  Apply(Op(u, i), Type(u, i), Args(f, Sources(u, i))) \in ValuesOf(Type(u, i))
<1> DEFINE n == u.nodes[i]
           a == n.ins[1]
           b == n.ins[2]
           c == n.ins[3]
           s == Sources(u, i)
           v == Args(f, s)
           S == 1 .. i - 1
<1>1. Formed(u, i) /\ Op(u, i) = n.op /\ Type(u, i) = n.type
  BY DEF AllFormed, Op, Type
<1>2. s \in Seq(S)
  BY SourcesOlder
<1>5. n.op # "Cond" => s = n.ins
  BY DEF Sources
<1> SUFFICES Apply(n.op, n.type, v) \in ValuesOf(n.type)
  BY <1>1
<1> HIDE DEF s, S
<1>3. /\ Len(v) = Len(s)
      /\ \A k \in DOMAIN s : v[k] = f[s[k]]
  BY <1>2, ArgsFacts
<1> HIDE DEF v
<1>4. \A k \in DOMAIN s : v[k] \in ValuesOf(Type(u, s[k])) /\ v[k] \in Int64
  BY <1>3, ValuesAreWords DEF s
<1>6. CASE n.op \in BinOps
  <2>1. n.ins = <<a, b>>
    BY <1>1, <1>6 DEF Formed, Node
  <2>2. 1 \in DOMAIN s /\ 2 \in DOMAIN s
    BY <1>5, <1>6, <2>1 DEF BinOps
  <2>3. Apply(n.op, n.type, v) = Arith(n.op, v[1], v[2], n.type)
    BY <1>6, ApplyIs
  <2>4. v[1] \in Int64 /\ v[2] \in Int64
    BY <1>4, <2>2
  <2> QED
    BY <1>6, <2>3, <2>4, ArithFits
<1>7. CASE n.op \in CmpOps
  <2>1. n.type = "bool"
    BY <1>1, <1>7 DEF Formed, Node
  <2>2. Apply(n.op, n.type, v) = IF Holds(n.op, v[1], v[2]) THEN 1 ELSE 0
    BY <1>7, ApplyIs
  <2> QED
    BY <2>1, <2>2 DEF ValuesOf
<1>8. CASE n.op \in {"Neg", "Not"}
  <2>1. n.ins = <<a>>
    BY <1>1, <1>8 DEF Formed, Node
  <2>2. 1 \in DOMAIN s
    BY <1>5, <1>8, <2>1
  <2>3. Apply(n.op, n.type, v) \in {Trunc(Wrap(0 - v[1], Word), n.type), Trunc(-v[1] - 1, n.type)}
    BY <1>8, ApplyIs
  <2>4. v[1] \in Int64
    BY <1>4, <2>2
  <2> QED
    BY <2>3, <2>4, UnaryFits
<1>9. CASE n.op = "Select"
  <2>1. n.ins = <<a, b, c>> /\ n.type = Type(u, b) /\ Type(u, c) = Type(u, b)
    BY <1>1, <1>9 DEF Formed, Node
  <2>2. 2 \in DOMAIN s /\ 3 \in DOMAIN s /\ s[2] = b /\ s[3] = c
    BY <1>5, <1>9, <2>1
  <2>3. v[2] \in ValuesOf(n.type) /\ v[3] \in ValuesOf(n.type)
    BY <1>4, <2>1, <2>2
  <2>4. Apply(n.op, n.type, v) \in {v[2], v[3]}
    BY <1>9, ApplyIs
  <2> QED
    BY <2>3, <2>4
<1>10. CASE n.op = "Cond"
  <2> DEFINE arms == u.conds[n.region]
  <2>1. /\ n.ins = <<a>> /\ arms \in Seq(1 .. i - 1)
        /\ \A y \in Range(arms) : Type(u, y) = n.type
    BY <1>1, <1>10 DEF Formed
  <2>2. s = <<a>> \o arms
    BY <1>10, <2>1 DEF Sources, s
  <2>3. /\ Len(s) = Len(arms) + 1 /\ Len(arms) \in Nat
        /\ \A k \in 1 .. Len(arms) : s[k + 1] = arms[k]
        /\ DOMAIN s = 1 .. Len(s)
    <3>1. <<a>> \in Seq({a}) /\ Len(<<a>>) = 1
      OBVIOUS
    <3> DEFINE one == <<a>>
               Q == 1 .. i - 1
               R == (1 .. i - 1) \cup {a}
    <3>2. one \in Seq(R) /\ arms \in Seq(R) /\ Len(one) = 1
      <4>1. one \in Seq(R)
        BY ShortSeqs
      <4>2. arms \in Seq(R)
        <5>1. arms \in Seq(Q) /\ Q \subseteq R
          BY <2>1
        <5> HIDE DEF Q, R, arms
        <5> QED
          BY <5>1, SeqOfMore
      <4> QED
        BY <3>1, <4>1, <4>2
    <3> HIDE DEF arms, one, R
    <3> QED
      BY <2>2, <3>2 DEF one
  <2>4. \A k \in 2 .. Len(s) : v[k] \in ValuesOf(n.type)
    <3> TAKE k \in 2 .. Len(s)
    <3> HIDE DEF arms, n
    <3>1. k - 1 \in 1 .. Len(arms) /\ (k - 1) + 1 = k /\ k \in DOMAIN s
      BY <2>3
    <3>2. s[k] = arms[k - 1] /\ k - 1 \in DOMAIN arms
      BY <2>1, <2>3, <3>1
    <3>3. s[k] \in Range(arms)
      BY <3>2 DEF Range
    <3> QED
      BY <1>4, <2>1, <3>1, <3>3
  <2> DEFINE x == Apply("Cond", n.type, v)
  <2>5. CASE Len(v) = 3
    <3>1. x = IF v[1] # 0 THEN v[3] ELSE v[2]
      BY <2>5, ApplyIs
    <3>2. v[2] \in ValuesOf(n.type) /\ v[3] \in ValuesOf(n.type)
      BY <1>3, <2>4, <2>5
    <3> QED
      BY <1>10, <3>1, <3>2
  <2>6. CASE Len(v) # 3
    <3>1. x = IF v[1] \in 0 .. Len(v) - 2 THEN v[v[1] + 2] ELSE 0
      BY <2>6, ApplyIs
    <3>2. Len(v) = Len(s) /\ Len(s) \in Nat
      BY <1>3, <2>3
    <3>3. \A k \in 0 .. Len(v) - 2 : k + 2 \in 2 .. Len(s)
      BY <3>2
    <3>4. CASE v[1] \in 0 .. Len(v) - 2
      <4>1. v[1] + 2 \in 2 .. Len(s)
        BY <3>3, <3>4
      <4> QED
        BY <1>10, <2>4, <3>1, <3>4, <4>1
    <3>5. CASE v[1] \notin 0 .. Len(v) - 2
      BY <1>10, <3>1, <3>5, ZeroFits
    <3> QED
      BY <3>4, <3>5
  <2> QED
    BY <2>5, <2>6
<1> QED
  BY <1>6, <1>7, <1>8, <1>9, <1>10 DEF Computed

(* Under an environment every value a request rests on is of its type. *)
LEMMA ValuesFit ==
    ASSUME NEW u, WellMade(u), Good(u), AllFormed(u),
           NEW ids \in SUBSET DOMAIN u.nodes, NEW env \in Environments(u, ids),
           NEW f, Valuation(u, env, f), NEW id \in ids
    PROVE  f[id] \in ValuesOf(Type(u, id))
<1>1. PICK g : /\ \A i \in DOMAIN u.nodes : g[i] = GivenStep(u, g, i)
               /\ \A x : Given(u, x) = UNION {g[i] : i \in x}
  BY GivenUnfold
<1> DEFINE given == Given(u, ids)
<1>2. \A i \in given : env[i] \in ValuesOf(Type(u, i))
  BY DEF Environments
<1>3. g[id] \subseteq given
  BY <1>1
<1> HIDE DEF given
<1>4. Len(u.nodes) \in Nat /\ DOMAIN u.nodes = 1 .. Len(u.nodes)
  BY ArenaDomain
<1> DEFINE Fit(i) == g[i] \subseteq given => f[i] \in ValuesOf(Type(u, i))
           T == {n \in Nat : \A i \in 1 .. n : i \in DOMAIN u.nodes => Fit(i)}
<1>5. 0 \in T
  OBVIOUS
<1>6. ASSUME NEW n \in Nat, n \in T PROVE n + 1 \in T
  <2> SUFFICES ASSUME n + 1 \in DOMAIN u.nodes, g[n + 1] \subseteq given
               PROVE  f[n + 1] \in ValuesOf(Type(u, n + 1))
    <3>1. Fit(n + 1) \/ n + 1 \notin DOMAIN u.nodes
      OBVIOUS
    <3>2. \A i \in 1 .. n : i \in DOMAIN u.nodes => Fit(i)
      BY <1>6
    <3>3. \A i \in 1 .. n + 1 : i \in 1 .. n \/ i = n + 1
      OBVIOUS
    <3> HIDE DEF Fit
    <3> QED
      BY <3>1, <3>2, <3>3
  <2> DEFINE m == n + 1
  <2>1. m \in DOMAIN u.nodes /\ g[m] \subseteq given /\ m - 1 = n /\ m \in Nat
    OBVIOUS
  <2>2. \A i \in 1 .. n : i \in DOMAIN u.nodes /\ g[i] \subseteq given
                            => f[i] \in ValuesOf(Type(u, i))
    BY <1>6
  <2>3. SUFFICES f[m] \in ValuesOf(Type(u, m))
    OBVIOUS
  <2> HIDE DEF m
  <2>4. f[m] = ValueStep(u, env, f, m) /\ g[m] = GivenStep(u, g, m)
    BY <1>1, <2>1 DEF Valuation
  <2>5. CASE IsConst(u, m)
    <3>1. f[m] = u.nodes[m].imm
      BY <2>4, <2>5 DEF ValueStep, Imm
    <3>2. TypedNode(u.nodes[m]) /\ u.nodes[m].op \in ConstOps
      BY <2>1, <2>5 DEF Good, Typed, IsConst, Op
    <3> QED
      BY <3>1, <3>2 DEF TypedNode, Type
  <2>6. CASE ~IsConst(u, m) /\ u.nodes[m].op \in Computed
    <3> DEFINE s == Sources(u, m)
               S == 1 .. m - 1
    <3>1. s \in Seq(S)
      BY <2>1, <2>6, SourcesOlder
    <3>2. g[m] = UNION {g[s[k]] : k \in DOMAIN s}
      BY <2>4, <2>6 DEF GivenStep
    <3>3. f[m] = Apply(Op(u, m), Type(u, m), Args(f, s))
      BY <2>4, <2>6 DEF ValueStep
    <3> HIDE DEF s
    <3>4. \A k \in DOMAIN s : s[k] \in S
      <4> HIDE DEF S
      <4> QED
        BY <3>1
    <3>5. ASSUME NEW k \in DOMAIN s PROVE f[s[k]] \in ValuesOf(Type(u, s[k]))
      <4>1. s[k] \in 1 .. n /\ s[k] \in DOMAIN u.nodes
        BY <1>4, <2>1, <3>4
      <4>2. g[s[k]] \subseteq given
        BY <2>1, <3>2
      <4> QED
        BY <2>2, <4>1, <4>2
    <3> QED
      BY <2>1, <2>6, <3>3, <3>5, ApplyFits DEF s
  <2>7. CASE ~IsConst(u, m) /\ u.nodes[m].op \notin Computed
    <3>1. f[m] = env[m] /\ g[m] = {m}
      BY <2>4, <2>7 DEF ValueStep, GivenStep
    <3> QED
      BY <1>2, <2>1, <3>1
  <2> QED
    BY <2>5, <2>6, <2>7
<1>7. Nat \subseteq T
  <2> HIDE DEF T
  <2> QED
    BY <1>5, <1>6, SetInduction
<1>8. Fit(id)
  <2>1. id \in DOMAIN u.nodes /\ id \in 1 .. Len(u.nodes)
    BY <1>4
  <2> HIDE DEF Fit
  <2> QED
    BY <1>4, <1>7, <2>1
<1> QED
  BY <1>3, <1>8

(* A constant has the value it holds, in this world and all it grows into. *)
LEMMA ConstMeans ==
    ASSUME NEW u, NEW v, Grown(u, v), NEW c \in DOMAIN u.nodes, IsConst(u, c),
           NEW env, NEW f, Valuation(v, env, f)
    PROVE  f[c] = Imm(u, c)
<1>1. c \in DOMAIN v.nodes /\ IsConst(v, c) /\ Imm(v, c) = Imm(u, c)
  BY SameAnswers
<1> QED
  BY <1>1 DEF Valuation, ValueStep

(* Intern answers with a node of the parts asked for. *)
LEMMA InternIs ==
    ASSUME NEW u, WellMade(u), NEW n, NEW r, r = Intern(u, n), Step(u, r)
    PROVE  /\ r.id \in DOMAIN r.w.nodes
           /\ NodeEq(r.w.nodes[r.id], n)
<1> DEFINE known == {id \in u.interned : NodeEq(u.nodes[id], n)}
<1>1. CASE known # {}
  <2>1. r = [w |-> u, id |-> CHOOSE id \in known : TRUE]
    BY <1>1 DEF Intern
  <2>2. r.w = u /\ r.id \in known
    BY <1>1, <2>1
  <2> QED
    BY <2>2 DEF Step
<1>2. CASE known = {}
  <2>1. /\ r.w.nodes = Append(u.nodes, n) /\ r.id = Len(u.nodes) + 1
    <3>1. r = [Fresh(u, n) EXCEPT !.w.interned = @ \cup {Fresh(u, n).id}]
      BY <1>2 DEF Intern
    <3>2. DOMAIN u = DOMAIN EmptyWorld
      BY DEF WellMade
    <3> QED
      BY <3>1, <3>2 DEF Fresh, EmptyWorld
  <2>2. r.w.nodes[r.id] = n
    <3>1. u.nodes \in Seq(Range(u.nodes))
      BY DEF WellMade
    <3> QED
      BY <2>1, <3>1, ArenaAppend
  <2> QED
    BY <2>2 DEF Step, NodeEq
<1> QED
  BY <1>1, <1>2

(* So it has the value computed from the operands given. *)
LEMMA InternMeans ==
    ASSUME NEW u, WellMade(u), NEW op \in Computed \ {"Cond"}, NEW t, NEW ins,
           NEW r, r = Intern(u, Node(op, t, ins)), Step(u, r),
           NEW env, NEW f, Valuation(r.w, env, f)
    PROVE  f[r.id] = Apply(op, t, Args(f, ins))
<1> DEFINE n == r.w.nodes[r.id]
<1>1. r.id \in DOMAIN r.w.nodes /\ n.op = op /\ n.type = t /\ n.ins = ins
  BY InternIs DEF NodeEq, Node
<1>2. ~IsConst(r.w, r.id)
  BY <1>1 DEF IsConst, Op, ConstOps, Computed, BinOps, CmpOps
<1>3. f[r.id] = ValueStep(r.w, env, f, r.id)
  BY <1>1 DEF Valuation
<1> QED
  BY <1>1, <1>2, <1>3 DEF ValueStep, Sources, Op, Type

(* Konst answers with a constant of the value cut to the type. *)
LEMMA KonstIs ==
    ASSUME NEW u, WellMade(u), NEW x, NEW t, NEW r, r = Konst(u, x, t)
    PROVE  /\ r.id \in DOMAIN r.w.nodes /\ IsConst(r.w, r.id)
           /\ Imm(r.w, r.id) = Trunc(x, t)
<1> DEFINE n == [Node("ConstInt", t, <<>>) EXCEPT !.imm = Trunc(x, t)]
<1>1. n.op = "ConstInt" /\ n.imm = Trunc(x, t)
  BY DEF Node
<1>2. r = Intern(u, n) /\ Step(u, r)
  BY KonstStep DEF Konst
<1> HIDE DEF n
<1> QED
  BY <1>1, <1>2, InternIs DEF NodeEq, IsConst, Op, Imm, ConstOps

(* So do truth values, *)
LEMMA KonstBoolIs ==
    ASSUME NEW u, WellMade(u), NEW b, NEW r, r = KonstBool(u, b)
    PROVE  /\ r.id \in DOMAIN r.w.nodes /\ IsConst(r.w, r.id)
           /\ Imm(r.w, r.id) = IF b THEN 1 ELSE 0
<1> DEFINE n == [Node("ConstBool", "bool", <<>>) EXCEPT !.imm = IF b THEN 1 ELSE 0]
<1>1. n.op = "ConstBool" /\ n.imm = IF b THEN 1 ELSE 0
  BY DEF Node
<1>2. r = Intern(u, n) /\ Step(u, r)
  BY KonstBoolStep DEF KonstBool
<1> HIDE DEF n
<1> QED
  BY <1>1, <1>2, InternIs DEF NodeEq, IsConst, Op, Imm, ConstOps

(* What f says of the constants of a world, one of which Konst answers. *)
LEMMA KonstMeans ==
    ASSUME NEW u, WellMade(u), NEW x, NEW t, NEW r, r = Konst(u, x, t),
           NEW v, Grown(r.w, v), NEW env, NEW f, Valuation(v, env, f)
    PROVE  f[r.id] = Trunc(x, t)
BY KonstIs, ConstMeans

(* as do truth values. *)
LEMMA KonstBoolMeans ==
    ASSUME NEW u, WellMade(u), NEW b, NEW r, r = KonstBool(u, b),
           NEW v, Grown(r.w, v), NEW env, NEW f, Valuation(v, env, f)
    PROVE  f[r.id] = IF b THEN 1 ELSE 0
BY KonstBoolIs, ConstMeans

(* Operands as AskBinop pairs them where types agree: a literal of the wider *)
(* type never meets a truth value.                                          *)
Pairs(u, a, b) ==
    \/ Type(u, a) = Type(u, b)
    \/ Type(u, a) = "narrow" /\ IsConst(u, b)

(* Multiplication by a power of two, as a shift. *)
LEMMA ShiftMeans ==
    ASSUME NEW u, WellMade(u), NEW a \in DOMAIN u.nodes, NEW x, NEW k \in Nat \ {0},
           NEW t, Type(u, a) = t, k \in ValuesOf(t),
           NEW times, times = Konst(u, k, t), NEW r, r = ShiftBy(times.w, a, times.id),
           NEW env, NEW f, Valuation(r.w, env, f)
    PROVE  f[r.id] = Arith("Shl", f[a], k, t)
<1>1. /\ times.id \in DOMAIN times.w.nodes /\ IsConst(times.w, times.id)
      /\ Imm(times.w, times.id) = k
  BY KonstIs, TruncKeeps
<1>2. WellMade(times.w) /\ Grown(u, times.w)
  BY KonstStep DEF Step
<1>3. a \in DOMAIN times.w.nodes /\ Type(times.w, a) = t
  BY <1>2, SameAnswers
<1>4. Step(times.w, r)
  BY <1>1, <1>2, <1>3, ShiftStep
<1>5. ~ConstIs(times.w, times.id, 0)
  BY <1>1 DEF ConstIs
<1>6. r = Intern(times.w, Node("Shl", t, <<a, times.id>>))
  BY <1>3, <1>5 DEF ShiftBy
<1>7. "Shl" \in Computed \ {"Cond"} /\ "Shl" \in BinOps
  BY DEF Computed, BinOps
<1> DEFINE ins == <<a, times.id>>
           v == Args(f, ins)
<1>8. f[r.id] = Apply("Shl", t, v)
  BY <1>2, <1>4, <1>6, <1>7, InternMeans
<1>9. v[1] = f[a] /\ v[2] = f[times.id]
  BY DEF Args
<1>10. f[times.id] = k
  BY <1>1, <1>4, ConstMeans DEF Step
<1> HIDE DEF v
<1>11. Apply("Shl", t, v) = Arith("Shl", v[1], v[2], t)
  BY <1>7, ApplyIs
<1> QED
  BY <1>8, <1>9, <1>10, <1>11

(* Whatever binop folds, simplifies, reduces or reorders, its answer has    *)
(* the value that interpreting the request gives.                           *)
LEMMA BinopSound ==
    ASSUME CountsFit, NEW u, WellMade(u), Good(u), NEW op \in BinOps,
           NEW first \in DOMAIN u.nodes, NEW second \in DOMAIN u.nodes,
           Pairs(u, first, second), Type(u, first) \in {"word", "narrow", "bool"},
           NEW r, r = Binop(u, op, first, second),
           NEW env, NEW f, Valuation(r.w, env, f),
           f[first] \in ValuesOf(Type(u, first)), f[second] \in ValuesOf(Type(u, second))
    PROVE  f[r.id] = Arith(op, f[first], f[second], Type(u, first))
<1> DEFINE t == Type(u, first)
<1>1. Step(u, r)
  BY BinopStep
<1>2. f[first] \in Int64 /\ f[second] \in Int64
  BY ValuesAreWords
<1>3. ASSUME NEW c \in DOMAIN u.nodes, IsConst(u, c) PROVE f[c] = Imm(u, c)
  BY <1>1, <1>3, ConstMeans DEF Step
<1>4. CASE BinopFolds(u, op, first, second, r)
  <2> DEFINE x == FoldBinop(op, Imm(u, first), Imm(u, second), t)
  <2>1. /\ f[first] = Imm(u, first) /\ f[second] = Imm(u, second)
        /\ ~FoldFails(op, f[second]) /\ r = Konst(u, x, t)
    BY <1>3, <1>4 DEF BinopFolds
  <2>2. x = Arith(op, f[first], f[second], t)
    BY <1>2, <2>1, FoldIsArith
  <2>3. x \in ValuesOf(t)
    BY <1>2, <2>2, ArithFits
  <2> HIDE DEF x
  <2>4. f[r.id] = Trunc(x, t)
    <3>1. Grown(r.w, r.w)
      BY DEF Grown
    <3> QED
      BY <2>1, <3>1, KonstMeans
  <2> QED
    BY <2>2, <2>3, <2>4, TruncKeeps
<1>5. ASSUME NEW a \in DOMAIN u.nodes, NEW b \in DOMAIN u.nodes,
             Ordered(u, op, first, second, a, b)
      PROVE  /\ Type(u, a) = t /\ f[a] \in ValuesOf(t) /\ f[a] \in Int64 /\ f[b] \in Int64
             /\ Arith(op, f[a], f[b], t) = Arith(op, f[first], f[second], t)
             /\ t = "bool" => Type(u, b) = "bool"
  <2>1. CASE a = first /\ b = second
    BY <1>2, <2>1 DEF Pairs
  <2>2. CASE op \in Commutative /\ ~IsConst(u, second) /\ a = second /\ b = first
    <3>1. Type(u, second) = t
      BY <2>2 DEF Pairs
    <3>2. Arith(op, f[second], f[first], t) = Arith(op, f[first], f[second], t)
      BY <1>2, <2>2, ArithCommutes
    <3> QED
      BY <1>2, <2>2, <3>1, <3>2
  <2> QED
    BY <1>5, <2>1, <2>2 DEF Ordered
<1>6. ASSUME NEW a \in DOMAIN u.nodes, NEW b \in DOMAIN u.nodes,
             Ordered(u, op, first, second, a, b),
             \/ KeepsFirst(u, op, a, b) /\ r = Hit(u, a)
             \/ GivesZero(u, op, a, b) /\ r = Konst(u, 0, t)
             \/ BinopShifts(u, op, first, a, b, r)
             \/ /\ Irreducible(u, op, a, b)
                /\ r = Intern(u, Node(op, t, <<a, b>>))
      PROVE  f[r.id] = Arith(op, f[a], f[b], t)
  <2>1. /\ Type(u, a) = t /\ f[a] \in ValuesOf(t) /\ f[a] \in Int64 /\ f[b] \in Int64
        /\ t = "bool" => Type(u, b) = "bool"
    BY <1>5, <1>6
  <2>2. ASSUME NEW k, ConstIs(u, b, k) PROVE f[b] = k
    BY <1>3, <2>2 DEF ConstIs
  <2>3. CASE KeepsFirst(u, op, a, b) /\ r = Hit(u, a)
    <3>1. \/ op \in {"Add", "Sub", "Or", "Xor", "Shl", "AShr", "LShr"} /\ f[b] = 0
          \/ op \in {"Mul", "SDiv"} /\ f[b] = 1
          \/ op \in {"And", "Or"} /\ f[a] = f[b]
      BY <2>2, <2>3 DEF KeepsFirst
    <3>2. r.id = a
      BY <2>3 DEF Hit
    <3>3. Arith(op, f[a], f[b], t) = f[a]
      BY <2>1, <3>1, ArithKeeps
    <3> QED
      BY <3>2, <3>3
  <2>4. CASE GivesZero(u, op, a, b) /\ r = Konst(u, 0, t)
    <3>1. \/ op \in {"Mul", "And"} /\ f[b] = 0
          \/ op \in {"Sub", "Xor"} /\ f[a] = f[b]
      BY <2>2, <2>4 DEF GivesZero
    <3>2. Arith(op, f[a], f[b], t) = 0
      BY <2>1, <3>1, ArithIsZero
    <3>3. f[r.id] = Trunc(0, t)
      <4>1. Grown(r.w, r.w)
        BY DEF Grown
      <4> QED
        BY <2>4, <4>1, KonstMeans
    <3> QED
      BY <3>2, <3>3, ZeroFits, TruncKeeps
  <2>5. CASE BinopShifts(u, op, first, a, b, r)
    <3>1. op = "Mul" /\ IsConst(u, b) /\ f[b] = Imm(u, b)
      BY <1>3, <2>5 DEF BinopShifts
    <3>2. PICK k \in Log(f[b]) :
                  r = ShiftBy(Konst(u, k, t).w, a, Konst(u, k, t).id)
      BY <2>5, <3>1 DEF BinopShifts
    <3>3. Arith("Mul", f[a], f[b], t) = Arith("Shl", f[a], k, t) /\ k \in 1 .. Word - 2
      BY <2>1, <3>2, ArithShifts
    <3>4. t # "bool"
      <4> SUFFICES ASSUME t = "bool" PROVE FALSE
        OBVIOUS
      <4>1. Type(u, b) = "bool"
        BY <2>1
      <4>2. TypedNode(u.nodes[b]) /\ u.nodes[b].op \in ConstOps /\ u.nodes[b].type = "bool"
        BY <3>1, <4>1 DEF Good, Typed, IsConst, Op, Type
      <4>3. f[b] \in 0 .. 1
        BY <3>1, <4>2 DEF TypedNode, ValuesOf, Imm
      <4>4. f[b] = 2 ^ k
        BY <3>2 DEF Log
      <4>5. k \in Nat /\ k >= 1 /\ k < 2 ^ k
        BY <3>3, WordFacts, PowerExceeds
      <4> DEFINE p == 2 ^ k
      <4>6. p \in 0 .. 1 /\ k < p
        BY <4>3, <4>4, <4>5
      <4> HIDE DEF p
      <4> QED
        BY <4>5, <4>6
    <3>5. k \in ValuesOf(t)
      <4>1. k \in Int /\ 1 <= k /\ k <= Word - 2 /\ Word \in Nat
        BY <3>3, WordFacts
      <4> DEFINE low == 2 ^ (Narrow - 1)
      <4>2. low \in Nat /\ low <= MaxWord + 1 /\ Word - 2 <= low - 1
            /\ MaxWord \in Int /\ MinWord = -MaxWord - 1 /\ MaxWord >= 1
        BY WordFacts DEF CountsFit
      <4> HIDE DEF low
      <4>3. k \in -low .. low - 1 /\ k \in MinWord .. MaxWord
        BY <4>1, <4>2
      <4>4. k \in -(2 ^ (Narrow - 1)) .. 2 ^ (Narrow - 1) - 1 /\ k \in Int64
        BY <4>3 DEF low, Int64
      <4> QED
        BY <3>4, <4>4 DEF ValuesOf
    <3>6. k \in Nat \ {0}
      BY <3>3, WordFacts
    <3>7. f[r.id] = Arith("Shl", f[a], k, t)
      BY <2>1, <3>2, <3>5, <3>6, ShiftMeans
    <3> QED
      BY <3>1, <3>3, <3>7
  <2>6. CASE r = Intern(u, Node(op, t, <<a, b>>))
    <3> DEFINE ins == <<a, b>>
               v == Args(f, ins)
    <3>1. op \in Computed \ {"Cond"}
      BY DEF Computed, BinOps
    <3>2. f[r.id] = Apply(op, t, v)
      BY <1>1, <2>6, <3>1, InternMeans
    <3>3. v[1] = f[a] /\ v[2] = f[b]
      BY DEF Args
    <3> HIDE DEF v, ins
    <3>4. Apply(op, t, v) = Arith(op, v[1], v[2], t)
      BY ApplyIs
    <3> QED
      BY <3>2, <3>3, <3>4
  <2> QED
    BY <1>6, <2>3, <2>4, <2>5, <2>6
<1>7. CASE ~BinopFolds(u, op, first, second, r)
  <2>1. PICK a \in DOMAIN u.nodes, b \in DOMAIN u.nodes :
            /\ Ordered(u, op, first, second, a, b)
            /\ \/ KeepsFirst(u, op, a, b) /\ r = Hit(u, a)
               \/ GivesZero(u, op, a, b) /\ r = Konst(u, 0, t)
               \/ BinopShifts(u, op, first, a, b, r)
               \/ /\ Irreducible(u, op, a, b)
                  /\ r = Intern(u, Node(op, t, <<a, b>>))
    BY <1>7, BinopCases
  <2>2. f[r.id] = Arith(op, f[a], f[b], t)
    BY <1>6, <2>1
  <2> QED
    BY <1>5, <2>1, <2>2
<1> QED
  BY <1>4, <1>7

(* What a comparison of two values gives. *)
Truth(op, a, b) == IF Holds(op, a, b) THEN 1 ELSE 0

(* The comparison of a and b in the world u is answered with r.              *)
Compares(u, op, a, b, r, env, f) ==
    /\ WellMade(u) /\ op \in CmpOps
    /\ a \in DOMAIN u.nodes /\ b \in DOMAIN u.nodes
    /\ r = Cmp(u, op, a, b) /\ Valuation(r.w, env, f) /\ f[a] \in Int64

(* A comparison, folded, decided by its operands being one, or reordered,   *)
(* has the value that interpreting the request gives.                       *)
LEMMA CmpSound ==
    ASSUME NEW u, NEW op, NEW first, NEW second, NEW r, NEW env, NEW f,
           Compares(u, op, first, second, r, env, f)
    PROVE  f[r.id] = Truth(op, f[first], f[second])
<1> USE DEF Compares
<1> DEFINE swap == op \in Commutative /\ first > second
           ins == IF swap THEN <<second, first>> ELSE <<first, second>>
<1>1. Step(u, r)
  BY CmpStep
<1>2. ASSUME NEW c \in DOMAIN u.nodes, IsConst(u, c) PROVE f[c] = Imm(u, c)
  BY <1>1, <1>2, ConstMeans DEF Step
<1>3. Grown(r.w, r.w)
  BY DEF Grown
<1>4. CASE IsConst(u, first) /\ IsConst(u, second)
  <2> DEFINE b == Holds(op, Imm(u, first), Imm(u, second))
  <2>1. r = KonstBool(u, b)
    BY <1>4 DEF Cmp
  <2> HIDE DEF b
  <2>2. f[r.id] = IF b THEN 1 ELSE 0
    BY <1>3, <2>1, KonstBoolMeans
  <2> QED
    BY <1>2, <1>4, <2>2 DEF b, Truth
<1>5. CASE ~(IsConst(u, first) /\ IsConst(u, second)) /\ first = second
  <2> DEFINE b == op \in {"CmpEq", "CmpLe", "CmpGe"}
  <2>1. r = KonstBool(u, b)
    BY <1>5 DEF Cmp
  <2>2. Holds(op, f[first], f[first]) <=> b
    <3>1. f[first] \in Int
      BY WordFacts DEF Int64
    <3> QED
      BY <3>1 DEF Holds, CmpOps
  <2> HIDE DEF b
  <2>3. f[r.id] = IF b THEN 1 ELSE 0
    BY <1>3, <2>1, KonstBoolMeans
  <2> QED
    BY <1>5, <2>2, <2>3 DEF Truth
<1>6. CASE ~(IsConst(u, first) /\ IsConst(u, second)) /\ first # second
  <2> DEFINE v == Args(f, ins)
  <2>1. r = Intern(u, Node(op, "bool", ins))
    BY <1>6 DEF Cmp
  <2>2. op \in Computed \ {"Cond"}
    BY DEF Computed, CmpOps
  <2>3. f[r.id] = Apply(op, "bool", v)
    <3> HIDE DEF ins
    <3> QED
      BY <1>1, <2>1, <2>2, InternMeans
  <2>4. \/ v[1] = f[first] /\ v[2] = f[second]
        \/ op \in {"CmpEq", "CmpNe"} /\ v[1] = f[second] /\ v[2] = f[first]
    <3>1. CASE swap
      <4>1. op \in {"CmpEq", "CmpNe"}
        BY <3>1 DEF Commutative, CmpOps
      <4> QED
        BY <3>1, <4>1 DEF Args
    <3>2. CASE ~swap
      BY <3>2 DEF Args
    <3> QED
      BY <3>1, <3>2
  <2> HIDE DEF v
  <2>5. Apply(op, "bool", v) = IF Holds(op, v[1], v[2]) THEN 1 ELSE 0
    BY ApplyIs
  <2>6. Holds(op, v[1], v[2]) <=> Holds(op, f[first], f[second])
    BY <2>4 DEF Holds
  <2> QED
    BY <2>3, <2>5, <2>6 DEF Truth
<1> QED
  BY <1>4, <1>5, <1>6

(* So have negation and complement, *)
LEMMA UnarySound ==
    ASSUME NEW u, WellMade(u), NEW a \in DOMAIN u.nodes, NEW env, NEW f, f[a] \in Int64
    PROVE  /\ Valuation(Neg(u, a).w, env, f) =>
                f[Neg(u, a).id] = Trunc(Wrap(0 - f[a], Word), Type(u, a))
           /\ Valuation(BitNot(u, a).w, env, f) =>
                f[BitNot(u, a).id] = Trunc(-f[a] - 1, Type(u, a))
<1> DEFINE t == Type(u, a)
           ins == <<a>>
           v == Args(f, ins)
<1>1. Step(u, Neg(u, a)) /\ Step(u, BitNot(u, a))
  BY UnaryStep
<1>2. v[1] = f[a]
  BY DEF Args
<1>3. /\ Trunc(Wrap(0 - f[a], Word), t) \in ValuesOf(t)
      /\ Trunc(-f[a] - 1, t) \in ValuesOf(t)
  BY UnaryFits
<1>4. "Neg" \in Computed \ {"Cond"} /\ "Not" \in Computed \ {"Cond"}
  BY DEF Computed
<1> HIDE DEF v, ins
<1>5. ASSUME NEW r, r = Neg(u, a), Valuation(r.w, env, f)
      PROVE  f[r.id] = Trunc(Wrap(0 - f[a], Word), t)
  <2>1. CASE IsConst(u, a)
    <3> DEFINE x == Trunc(Wrap(0 - Imm(u, a), Word), t)
    <3>1. r = Konst(u, x, t)
      BY <1>5, <2>1 DEF Neg
    <3>2. x = Trunc(Wrap(0 - f[a], Word), t)
      BY <1>1, <1>5, <2>1, ConstMeans DEF Step
    <3> HIDE DEF x
    <3>3. f[r.id] = Trunc(x, t)
      <4>1. Grown(r.w, r.w)
        BY DEF Grown
      <4> QED
        BY <1>5, <3>1, <4>1, KonstMeans
    <3> QED
      BY <1>3, <3>2, <3>3, TruncKeeps
  <2>2. CASE ~IsConst(u, a)
    <3>1. r = Intern(u, Node("Neg", t, ins))
      BY <1>5, <2>2 DEF Neg, ins
    <3>2. f[r.id] = Apply("Neg", t, v)
      BY <1>1, <1>4, <1>5, <3>1, InternMeans DEF v
    <3> QED
      BY <1>2, <3>2, ApplyIs
  <2> QED
    BY <2>1, <2>2
<1>6. ASSUME NEW r, r = BitNot(u, a), Valuation(r.w, env, f)
      PROVE  f[r.id] = Trunc(-f[a] - 1, t)
  <2>1. CASE IsConst(u, a)
    <3> DEFINE x == Trunc(-Imm(u, a) - 1, t)
    <3>1. r = Konst(u, x, t)
      BY <1>6, <2>1 DEF BitNot
    <3>2. x = Trunc(-f[a] - 1, t)
      BY <1>1, <1>6, <2>1, ConstMeans DEF Step
    <3> HIDE DEF x
    <3>3. f[r.id] = Trunc(x, t)
      <4>1. Grown(r.w, r.w)
        BY DEF Grown
      <4> QED
        BY <1>6, <3>1, <4>1, KonstMeans
    <3> QED
      BY <1>3, <3>2, <3>3, TruncKeeps
  <2>2. CASE ~IsConst(u, a)
    <3>1. r = Intern(u, Node("Not", t, ins))
      BY <1>6, <2>2 DEF BitNot, ins
    <3>2. f[r.id] = Apply("Not", t, v)
      BY <1>1, <1>4, <1>6, <3>1, InternMeans DEF v
    <3> QED
      BY <1>2, <3>2, ApplyIs
  <2> QED
    BY <2>1, <2>2
<1> QED
  BY <1>5, <1>6

(* selects, *)
LEMMA SelectSound ==
    ASSUME NEW u, WellMade(u), NEW c \in DOMAIN u.nodes,
           NEW a \in DOMAIN u.nodes, NEW b \in DOMAIN u.nodes,
           NEW r, r = Select(u, c, a, b), NEW env, NEW f, Valuation(r.w, env, f)
    PROVE  f[r.id] = IF f[c] # 0 THEN f[a] ELSE f[b]
<1>1. Step(u, r)
  BY SelectStep
<1>2. CASE IsConst(u, c)
  <2>1. f[c] = Imm(u, c)
    BY <1>1, <1>2, ConstMeans DEF Step
  <2>2. r.id = IF Imm(u, c) # 0 THEN a ELSE b
    BY <1>2 DEF Select, Hit
  <2> QED
    BY <2>1, <2>2
<1>3. CASE ~IsConst(u, c) /\ a = b
  BY <1>3 DEF Select, Hit
<1>4. CASE ~IsConst(u, c) /\ a # b
  <2> DEFINE ins == <<c, a, b>>
             v == Args(f, ins)
  <2>1. r = Intern(u, Node("Select", Type(u, a), ins))
    BY <1>4 DEF Select
  <2>2. "Select" \in Computed \ {"Cond"}
    BY DEF Computed
  <2>3. v[1] = f[c] /\ v[2] = f[a] /\ v[3] = f[b]
    BY DEF Args
  <2> HIDE DEF ins
  <2>4. f[r.id] = Apply("Select", Type(u, a), v)
    BY <1>1, <2>1, <2>2, InternMeans
  <2> HIDE DEF v
  <2> QED
    BY <2>3, <2>4, ApplyIs
<1> QED
  BY <1>2, <1>3, <1>4

(* A conditional that is made has the operands and the arms it was asked of. *)
LEMMA NewCondIs ==
    ASSUME NEW u, WellMade(u), Good(u), NEW p, NEW t, NEW yields,
           NEW r, r = NewCond(u, p, t, yields), Step(u, r)
    PROVE  /\ Op(r.w, r.id) = "Cond" /\ Type(r.w, r.id) = t
           /\ Sources(r.w, r.id) = <<p>> \o yields
<1> DEFINE n == [Node("Cond", t, <<p>>) EXCEPT !.region = Len(u.conds) + 1]
           x == [u EXCEPT !.conds = Append(@, yields)]
           s == u.conds
           S == Range(s) \cup {yields}
<1>1. n.op = "Cond" /\ n.type = t /\ n.ins = <<p>> /\ n.region = Len(s) + 1
  BY DEF Node
<1>2. /\ x.nodes = u.nodes /\ x.conds = Append(s, yields)
      /\ DOMAIN x = DOMAIN EmptyWorld
  BY SMT DEF WellMade, EmptyWorld
<1>3. r = Fresh(x, n)
  BY DEF NewCond
<1> HIDE DEF x, n
<1>4. /\ r.w.nodes = Append(u.nodes, n) /\ r.w.conds = Append(s, yields)
      /\ r.id = Len(u.nodes) + 1
  <2>1. r.id = Len(x.nodes) + 1
    BY <1>3 DEF Fresh
  <2>2. Fresh(x, n).w.nodes = Append(x.nodes, n) /\ Fresh(x, n).w.conds = x.conds
    BY <1>2, FreshFields
  <2> QED
    BY <1>2, <1>3, <2>1, <2>2
<1>5. r.w.nodes[r.id] = n
  BY <1>4, ArenaAppend DEF WellMade
<1>6. s \in Seq(S) /\ yields \in S
  <2>1. s \in Seq(Range(s))
    BY DEF Good, Owns, OneNodePerEntry
  <2> QED
    BY <2>1, SeqOfMore
<1> HIDE DEF s, S
<1>7. Append(s, yields)[Len(s) + 1] = yields
  BY <1>6, SMT
<1> QED
  BY <1>1, <1>4, <1>5, <1>7 DEF Op, Type, Sources

(* What a conditional may be asked to choose from. *)
ArmsOf(u, yields) == yields \in Seq(DOMAIN u.nodes) /\ Len(yields) >= 2

(* The conditional on p in the world u is answered with r. *)
Chooses(u, p, t, yields, r, env, f) ==
    /\ WellMade(u) /\ Good(u) /\ p \in DOMAIN u.nodes /\ ArmsOf(u, yields)
    /\ r = MakeCond(u, p, t, yields) /\ Valuation(r.w, env, f)
    /\ f[p] \in ValuesOf(Type(u, p))

(* and conditionals, between values of their types. *)
LEMMA CondSound ==
    ASSUME NEW u, NEW p, NEW t, NEW yields, NEW r, NEW env, NEW f,
           Chooses(u, p, t, yields, r, env, f)
    PROVE  f[r.id] = Apply("Cond", t, Args(f, <<p>> \o yields))
<1> USE DEF Chooses
<1> DEFINE v == Args(f, <<p>> \o yields)
<1>1. /\ {1, 2} \subseteq DOMAIN yields
      /\ \A k \in DOMAIN yields : yields[k] \in DOMAIN u.nodes
  BY SMT DEF ArmsOf
<1>2. Step(u, r)
  BY <1>1, CondStep
<1>3. ASSUME NEW c \in DOMAIN u.nodes, IsConst(u, c) PROVE f[c] = Imm(u, c)
  BY <1>2, <1>3, ConstMeans DEF Step
<1>4. Len(v) = Len(yields) + 1 /\ v[1] = f[p] /\ \A k \in DOMAIN yields : v[k + 1] = f[yields[k]]
  <2> DEFINE S == DOMAIN u.nodes
             s == <<p>> \o yields
  <2> HIDE DEF S
  <2>1. /\ s \in Seq(S) /\ Len(s) = Len(yields) + 1
        /\ s[1] = p /\ \A k \in DOMAIN yields : k + 1 \in DOMAIN s /\ s[k + 1] = yields[k]
    <3>1. p \in S /\ yields \in Seq(S)
      BY DEF S, ArmsOf
    <3> QED
      BY <3>1, SMT
  <2>2. 1 \in DOMAIN s
    BY <2>1, SMT
  <2> HIDE DEF s
  <2>3. Len(Args(f, s)) = Len(s) /\ \A k \in DOMAIN s : Args(f, s)[k] = f[s[k]]
    BY <2>1, ArgsFacts
  <2>4. v = Args(f, s)
    BY DEF s
  <2> HIDE DEF v
  <2> QED
    BY <2>1, <2>2, <2>3, <2>4
<1> HIDE DEF v
<1>5. Len(yields) \in Nat /\ DOMAIN yields = 1 .. Len(yields)
  BY DEF ArmsOf
<1>6. /\ Len(yields) = 2 => Apply("Cond", t, v) = IF f[p] # 0 THEN f[yields[2]] ELSE f[yields[1]]
      /\ Len(yields) # 2 /\ f[p] + 1 \in DOMAIN yields /\ f[p] \in Int =>
            Apply("Cond", t, v) = f[yields[f[p] + 1]]
  <2>1. Len(yields) = 2 => v[2] = f[yields[1]] /\ v[3] = f[yields[2]]
    BY <1>1, <1>4
  <2>2. Len(yields) = 2 =>
           Apply("Cond", t, v) = IF f[p] # 0 THEN f[yields[2]] ELSE f[yields[1]]
    BY <1>4, <2>1, ApplyIs
  <2>3. ASSUME Len(yields) # 2, f[p] + 1 \in DOMAIN yields, f[p] \in Int
        PROVE  Apply("Cond", t, v) = f[yields[f[p] + 1]]
    <3>1. Len(v) # 3 /\ f[p] \in 0 .. Len(v) - 2 /\ f[p] + 2 = (f[p] + 1) + 1
      BY <1>4, <1>5, <2>3
    <3>2. Apply("Cond", t, v) = v[f[p] + 2]
      BY <1>4, <3>1, ApplyIs
    <3>3. v[f[p] + 2] = f[yields[f[p] + 1]]
      BY <1>4, <2>3, <3>1
    <3> QED
      BY <3>2, <3>3
  <2> QED
    BY <2>2, <2>3
<1>7. f[p] \in Int64 /\ f[p] \in Int
  BY ValuesAreWords, WordFacts DEF Int64
<1>8. Type(u, p) = "bool" => f[p] \in {0, 1}
  BY DEF ValuesOf
<1> DEFINE false == KonstBool(u, FALSE)
           arm == ArmOf(Imm(u, p), yields)
<1>9. CASE IsConst(u, p) /\ arm \in DOMAIN yields
  <2>1. r.id = yields[arm]
    BY <1>9 DEF MakeCond, Hit
  <2>2. f[p] = Imm(u, p)
    BY <1>3, <1>9
  <2>3. arm = IF Len(yields) = 2 THEN IF f[p] # 0 THEN 2 ELSE 1 ELSE f[p] + 1
    BY <2>2 DEF ArmOf
  <2> HIDE DEF arm
  <2> QED
    BY <1>6, <1>7, <1>9, <2>1, <2>3 DEF v
<1>10. CASE ~(IsConst(u, p) /\ arm \in DOMAIN yields) /\ Len(yields) = 2 /\ yields[1] = yields[2]
  <2>1. r.id = yields[1]
    BY <1>10 DEF MakeCond, Hit
  <2> QED
    BY <1>6, <1>10, <2>1 DEF v
<1> DEFINE other == /\ ~(IsConst(u, p) /\ arm \in DOMAIN yields)
                    /\ ~(Len(yields) = 2 /\ yields[1] = yields[2])
<1>11. CASE other /\ YieldTruth(u, p, t, yields, 0, 1)
  <2>1. r.id = p
    BY <1>11 DEF MakeCond, Hit
  <2>2. f[yields[1]] = 0 /\ f[yields[2]] = 1 /\ Len(yields) = 2
    BY <1>1, <1>3, <1>11 DEF YieldTruth, ConstIs
  <2>3. f[p] \in {0, 1}
    BY <1>8, <1>11 DEF YieldTruth
  <2> QED
    BY <1>6, <2>1, <2>2, <2>3 DEF v
<1>12. CASE other /\ ~YieldTruth(u, p, t, yields, 0, 1) /\ YieldTruth(u, p, t, yields, 1, 0)
  <2>1. r = Cmp(false.w, "CmpEq", p, false.id)
    BY <1>12 DEF MakeCond
  <2>2. f[yields[1]] = 1 /\ f[yields[2]] = 0 /\ Len(yields) = 2
    BY <1>1, <1>3, <1>12 DEF YieldTruth, ConstIs
  <2>3. f[p] \in {0, 1}
    BY <1>8, <1>12 DEF YieldTruth
  <2>4. Step(u, false)
    BY KonstBoolStep
  <2>5. /\ WellMade(false.w) /\ p \in DOMAIN false.w.nodes
        /\ false.id \in DOMAIN false.w.nodes
    BY <2>4 DEF Step, Grown
  <2>6. f[false.id] = 0
    <3> DEFINE b == FALSE
               x == KonstBool(u, b)
    <3>1. Grown(x.w, r.w)
      BY <2>1, <2>5, CmpStep DEF Step, CmpOps
    <3> HIDE DEF b
    <3>2. f[x.id] = IF b THEN 1 ELSE 0
      BY <3>1, KonstBoolMeans
    <3> QED
      BY <3>2 DEF b
  <2> DEFINE x == false.w
             no == false.id
  <2>7. Compares(x, "CmpEq", p, no, r, env, f)
    BY <1>7, <2>1, <2>5 DEF Compares, CmpOps
  <2> HIDE DEF x, no, false, other, arm
  <2>8. f[r.id] = Truth("CmpEq", f[p], f[no])
    BY <2>7, CmpSound
  <2>9. f[r.id] = IF f[p] = 0 THEN 1 ELSE 0
    BY <2>6, <2>8 DEF Truth, Holds, no
  <2> QED
    BY <1>6, <2>2, <2>3, <2>9 DEF v
<1>13. CASE /\ other /\ ~YieldTruth(u, p, t, yields, 0, 1)
            /\ ~YieldTruth(u, p, t, yields, 1, 0)
  <2>1. r = NewCond(u, p, t, yields)
    BY <1>13 DEF MakeCond
  <2>2. /\ Op(r.w, r.id) = "Cond" /\ Type(r.w, r.id) = t
        /\ Sources(r.w, r.id) = <<p>> \o yields
    BY <1>2, <2>1, NewCondIs
  <2>3. f[r.id] = ValueStep(r.w, env, f, r.id)
    BY <1>2 DEF Valuation, Step
  <2>4. ~IsConst(r.w, r.id) /\ r.w.nodes[r.id].op \in Computed
    BY <2>2 DEF IsConst, Op, ConstOps, Computed
  <2> QED
    BY <2>2, <2>3, <2>4 DEF ValueStep
<1> QED
  BY <1>9, <1>10, <1>11, <1>12, <1>13

(* A request for op of the nodes ins, of type t. *)
Query(op, ins, t) == [op |-> op, ins |-> ins, type |-> t]

(* The node id of u has the value the request q asks for, whatever the      *)
(* values of what both rest on: ReductionSound of any world.                *)
Meets(u, q, id) ==
    q.op \in Computed =>
        \A env \in Environments(u, Range(q.ins) \cup {id}) :
            Value(u, env, id) =
                Apply(q.op, q.type, [k \in DOMAIN q.ins |-> Value(u, env, q.ins[k])])

(* f gives the nodes of ins values of their types. *)
Suits(u, ins, f) == \A k \in DOMAIN ins : f[ins[k]] \in ValuesOf(Type(u, ins[k]))

(* f gives r the value of op applied to what it gives ins. *)
Answers(op, ins, t, r, f) == f[r.id] = Apply(op, t, Args(f, ins))

(* It is enough to look at valuations of the world after the request under  *)
(* which the operands have values of their types.                           *)
LEMMA AnswerMeets ==
    ASSUME NEW u, NEW r, Step(u, r), Good(r.w), AllFormed(r.w),
           NEW op, NEW t, NEW ins \in Seq(DOMAIN u.nodes),
           \A env, f : Valuation(r.w, env, f) /\ Suits(u, ins, f) => Answers(op, ins, t, r, f)
    PROVE  Meets(r.w, Query(op, ins, t), r.id)
<1> DEFINE v == r.w
           ids == Range(ins) \cup {r.id}
<1>1. WellMade(v) /\ Good(v) /\ AllFormed(v) /\ Grown(u, v) /\ r.id \in DOMAIN v.nodes
  BY DEF Step
<1>2. \A k \in DOMAIN ins : ins[k] \in DOMAIN u.nodes /\ ins[k] \in ids
  BY DEF Range
<1>3. ids \in SUBSET DOMAIN v.nodes
  BY <1>1, <1>2 DEF Range, Grown
<1> HIDE DEF v, ids
<1>4. ASSUME NEW env \in Environments(v, ids)
      PROVE  Value(v, env, r.id) = Apply(op, t, [k \in DOMAIN ins |-> Value(v, env, ins[k])])
  <2>1. PICK f : Valuation(v, env, f) /\ \A id : Value(v, env, id) = f[id]
    BY <1>1, ValueUnfold
  <2>2. \A id \in ids : f[id] \in ValuesOf(Type(v, id))
    BY <1>1, <1>3, <1>4, <2>1, ValuesFit
  <2>3. Suits(u, ins, f)
    <3> SUFFICES ASSUME NEW k \in DOMAIN ins PROVE f[ins[k]] \in ValuesOf(Type(u, ins[k]))
      BY DEF Suits
    <3>1. Type(v, ins[k]) = Type(u, ins[k])
      BY <1>1, <1>2 DEF Grown, Type
    <3> QED
      BY <1>2, <2>2, <3>1
  <2>4. Answers(op, ins, t, r, f)
    BY <2>1, <2>3 DEF v
  <2>5. Args(f, ins) = [k \in DOMAIN ins |-> Value(v, env, ins[k])]
    BY <2>1 DEF Args
  <2> QED
    BY <2>1, <2>4, <2>5 DEF Answers
<1> QED
  BY <1>4 DEF Meets, Query, v, ids

(* Every request for a value is met: by arithmetic, *)
LEMMA BinopMeets ==
    ASSUME CountsFit, NEW u, WellMade(u), Good(u), AllFormed(u), NEW op \in BinOps,
           NEW a \in DOMAIN u.nodes, NEW b \in DOMAIN u.nodes,
           Pairs(u, a, b), Type(u, a) \in {"word", "narrow", "bool"}
    PROVE  Meets(Binop(u, op, a, b).w, Query(op, <<a, b>>, Type(u, a)), Binop(u, op, a, b).id)
<1> DEFINE r == Binop(u, op, a, b)
           ins == <<a, b>>
           t == Type(u, a)
<1>1. Step(u, r) /\ Good(r.w)
  BY BinopStep, BinopGood
<1>2. AllFormed(r.w)
  <2>1. Fitting(u, a, b)
    BY DEF Fitting, Pairs
  <2> QED
    BY <2>1, BinopFormed
<1>3. ins \in Seq(DOMAIN u.nodes) /\ DOMAIN ins = {1, 2} /\ ins[1] = a /\ ins[2] = b
  <2>1. ins \in Seq(DOMAIN u.nodes)
    BY ShortSeqs
  <2> QED
    BY <2>1, SMT
<1> HIDE DEF r, ins
<1>4. ASSUME NEW env, NEW f, Valuation(r.w, env, f), Suits(u, ins, f)
      PROVE  Answers(op, ins, t, r, f)
  <2>1. f[a] \in ValuesOf(Type(u, a)) /\ f[b] \in ValuesOf(Type(u, b))
    BY <1>3, <1>4 DEF Suits
  <2>2. f[r.id] = Arith(op, f[a], f[b], t)
    BY <1>4, <2>1, BinopSound DEF r
  <2> DEFINE v == Args(f, ins)
  <2>3. v[1] = f[a] /\ v[2] = f[b]
    BY <1>3 DEF Args
  <2> HIDE DEF v
  <2>4. Apply(op, t, v) = Arith(op, v[1], v[2], t)
    BY ApplyIs
  <2> QED
    BY <2>2, <2>3, <2>4 DEF Answers, v
<1> QED
  BY <1>1, <1>2, <1>3, <1>4, AnswerMeets DEF r, ins

(* comparison, *)
LEMMA CmpMeets ==
    ASSUME NEW u, WellMade(u), Good(u), AllFormed(u), NEW op \in CmpOps,
           NEW a \in DOMAIN u.nodes, NEW b \in DOMAIN u.nodes
    PROVE  Meets(Cmp(u, op, a, b).w, Query(op, <<a, b>>, "bool"), Cmp(u, op, a, b).id)
<1> DEFINE r == Cmp(u, op, a, b)
           ins == <<a, b>>
<1>1. Step(u, r) /\ Good(r.w) /\ AllFormed(r.w)
  BY CmpStep, CmpGood, CmpFormed
<1>2. ins \in Seq(DOMAIN u.nodes) /\ DOMAIN ins = {1, 2} /\ ins[1] = a /\ ins[2] = b
  <2>1. ins \in Seq(DOMAIN u.nodes)
    BY ShortSeqs
  <2> QED
    BY <2>1, SMT
<1> HIDE DEF r, ins
<1>3. ASSUME NEW env, NEW f, Valuation(r.w, env, f), Suits(u, ins, f)
      PROVE  Answers(op, ins, "bool", r, f)
  <2>1. f[a] \in Int64
    BY <1>2, <1>3, ValuesAreWords DEF Suits
  <2>2. Compares(u, op, a, b, r, env, f)
    BY <1>3, <2>1 DEF Compares, r
  <2>3. f[r.id] = Truth(op, f[a], f[b])
    BY <2>2, CmpSound
  <2>4. Args(f, ins)[1] = f[a] /\ Args(f, ins)[2] = f[b]
    BY <1>2 DEF Args
  <2>5. Apply(op, "bool", Args(f, ins)) = Truth(op, f[a], f[b])
    BY <2>4, ApplyIs DEF Truth
  <2> QED
    BY <2>3, <2>5 DEF Answers
<1> QED
  BY <1>1, <1>2, <1>3, AnswerMeets DEF r, ins

(* negation and complement, *)
LEMMA UnaryMeets ==
    ASSUME NEW u, WellMade(u), Good(u), AllFormed(u), NEW a \in DOMAIN u.nodes
    PROVE  /\ Meets(Neg(u, a).w, Query("Neg", <<a>>, Type(u, a)), Neg(u, a).id)
           /\ Meets(BitNot(u, a).w, Query("Not", <<a>>, Type(u, a)), BitNot(u, a).id)
<1> DEFINE ins == <<a>>
           t == Type(u, a)
<1>1. /\ Step(u, Neg(u, a)) /\ Good(Neg(u, a).w) /\ AllFormed(Neg(u, a).w)
      /\ Step(u, BitNot(u, a)) /\ Good(BitNot(u, a).w) /\ AllFormed(BitNot(u, a).w)
  BY UnaryStep, UnaryGood, UnaryFormed
<1>2. ins \in Seq(DOMAIN u.nodes) /\ DOMAIN ins = {1} /\ ins[1] = a
  <2>1. ins \in Seq(DOMAIN u.nodes)
    BY ShortSeqs
  <2> QED
    BY <2>1, SMT
<1> HIDE DEF ins
<1>3. ASSUME NEW f, Suits(u, ins, f) PROVE f[a] \in Int64 /\ Args(f, ins)[1] = f[a]
  BY <1>2, <1>3, ValuesAreWords DEF Suits, Args
<1>4. ASSUME NEW env, NEW f, Valuation(Neg(u, a).w, env, f), Suits(u, ins, f)
      PROVE  Answers("Neg", ins, t, Neg(u, a), f)
  <2>1. f[a] \in Int64 /\ Args(f, ins)[1] = f[a]
    BY <1>3, <1>4
  <2>2. f[Neg(u, a).id] = Trunc(Wrap(0 - f[a], Word), t)
    BY <1>4, <2>1, UnarySound
  <2> QED
    BY <2>1, <2>2, ApplyIs DEF Answers
<1>5. ASSUME NEW env, NEW f, Valuation(BitNot(u, a).w, env, f), Suits(u, ins, f)
      PROVE  Answers("Not", ins, t, BitNot(u, a), f)
  <2>1. f[a] \in Int64 /\ Args(f, ins)[1] = f[a]
    BY <1>3, <1>5
  <2>2. f[BitNot(u, a).id] = Trunc(-f[a] - 1, t)
    BY <1>5, <2>1, UnarySound
  <2> QED
    BY <2>1, <2>2, ApplyIs DEF Answers
<1>6. Meets(Neg(u, a).w, Query("Neg", ins, t), Neg(u, a).id)
  BY <1>1, <1>2, <1>4, AnswerMeets
<1>7. Meets(BitNot(u, a).w, Query("Not", ins, t), BitNot(u, a).id)
  BY <1>1, <1>2, <1>5, AnswerMeets
<1> QED
  BY <1>6, <1>7 DEF ins

(* selection, *)
LEMMA SelectMeets ==
    ASSUME NEW u, WellMade(u), Good(u), AllFormed(u), NEW c \in DOMAIN u.nodes,
           NEW a \in DOMAIN u.nodes, NEW b \in DOMAIN u.nodes, Type(u, a) = Type(u, b)
    PROVE  Meets(Select(u, c, a, b).w, Query("Select", <<c, a, b>>, Type(u, a)),
                 Select(u, c, a, b).id)
<1> DEFINE r == Select(u, c, a, b)
           ins == <<c, a, b>>
           t == Type(u, a)
<1>1. Step(u, r) /\ Good(r.w) /\ AllFormed(r.w)
  BY SelectStep, SelectGood, SelectFormed
<1>2. /\ ins \in Seq(DOMAIN u.nodes) /\ DOMAIN ins = {1, 2, 3}
      /\ ins[1] = c /\ ins[2] = a /\ ins[3] = b
  <2>1. ins \in Seq(DOMAIN u.nodes)
    BY ShortSeqs
  <2> QED
    BY <2>1, SMT
<1> HIDE DEF r, ins
<1>3. ASSUME NEW env, NEW f, Valuation(r.w, env, f), Suits(u, ins, f)
      PROVE  Answers("Select", ins, t, r, f)
  <2>1. f[r.id] = IF f[c] # 0 THEN f[a] ELSE f[b]
    BY <1>3, SelectSound DEF r
  <2>2. Args(f, ins)[1] = f[c] /\ Args(f, ins)[2] = f[a] /\ Args(f, ins)[3] = f[b]
    BY <1>2 DEF Args
  <2> QED
    BY <2>1, <2>2, ApplyIs DEF Answers
<1> QED
  BY <1>1, <1>2, <1>3, AnswerMeets DEF r, ins

(* and choice between the arms of a conditional. *)
LEMMA CondMeets ==
    ASSUME NEW u, WellMade(u), Good(u), AllFormed(u), NEW p \in DOMAIN u.nodes,
           NEW yields, ArmsOf(u, yields), NEW t \in Types,
           \A k \in DOMAIN yields : Type(u, yields[k]) = t
    PROVE  Meets(MakeCond(u, p, t, yields).w, Query("Cond", <<p>> \o yields, t),
                 MakeCond(u, p, t, yields).id)
<1> DEFINE r == MakeCond(u, p, t, yields)
           ins == <<p>> \o yields
           S == DOMAIN u.nodes
<1>1. yields \in Seq(S) /\ Len(yields) >= 2
  BY DEF ArmsOf
<1>2. Step(u, r) /\ Good(r.w) /\ AllFormed(r.w)
  <2>1. \A k \in DOMAIN yields : yields[k] \in DOMAIN u.nodes
    BY <1>1
  <2>2. {1, 2} \subseteq DOMAIN yields
    BY <1>1, SMT
  <2>3. Step(u, r)
    BY <2>1, <2>2, CondStep
  <2> QED
    BY <1>1, <2>3, CondGood, CondFormed
<1>3. ins \in Seq(DOMAIN u.nodes) /\ 1 \in DOMAIN ins /\ ins[1] = p
  <2> HIDE DEF S
  <2>1. p \in S /\ yields \in Seq(S)
    BY <1>1 DEF S
  <2>2. ins \in Seq(S) /\ 1 \in DOMAIN ins /\ ins[1] = p
    BY <2>1, SMT
  <2> QED
    BY <2>2 DEF S
<1> HIDE DEF r, ins
<1>4. ASSUME NEW env, NEW f, Valuation(r.w, env, f), Suits(u, ins, f)
      PROVE  Answers("Cond", ins, t, r, f)
  <2>1. f[p] \in ValuesOf(Type(u, p))
    BY <1>3, <1>4 DEF Suits
  <2>2. Chooses(u, p, t, yields, r, env, f)
    BY <1>4, <2>1 DEF Chooses, r
  <2>3. f[r.id] = Apply("Cond", t, Args(f, <<p>> \o yields))
    BY <2>2, CondSound
  <2> QED
    BY <2>3 DEF ins, Answers
<1> QED
  BY <1>2, <1>3, <1>4, AnswerMeets DEF r, ins

(* The answer to a request is what the request asks for. *)
LEMMA MeetsIsSound ==
    ASSUME NEW op, NEW ins, NEW t, NEW r, Answer(op, ins, t, r),
           Meets(r.w, Query(op, ins, t), r.id)
    PROVE  ReductionSound'
<1>1. w' = r.w /\ ret' = r.id /\ asked' = Query(op, ins, t)
  BY DEF Answer, Query
<1>2. Meets(w', asked', ret')
  BY <1>1
<1> QED
  BY <1>2, Zenon DEF Meets, ReductionSound

(* Requests for what is computed are met, *)
LEMMA ComputingRequestsSound ==
    ASSUME WellMade(w), Good(w), AllFormed(w), Widths = "agree", CountsFit,
           AskBinop \/ AskCmp \/ AskNeg \/ AskNot \/ AskSelect \/ AskCond
    PROVE  ReductionSound'
<1>1. CASE AskBinop
  <2>1. PICK op \in BinOps, a \in Values, b \in Values :
            Agree(a, b) /\ Answer(op, <<a, b>>, Type(w, a), Binop(w, op, a, b))
    BY <1>1, Zenon DEF AskBinop
  <2>2. Pairs(w, a, b) /\ Type(w, a) \in {"word", "narrow", "bool"}
    BY <2>1 DEF Pairs, Agree, Values
  <2>3. Meets(Binop(w, op, a, b).w, Query(op, <<a, b>>, Type(w, a)), Binop(w, op, a, b).id)
    BY <2>2, ValuesAreIds, BinopMeets
  <2> QED
    BY <2>1, <2>3, MeetsIsSound
<1>2. CASE AskCmp
  <2>1. PICK op \in CmpOps, a \in Values, b \in Values :
            Answer(op, <<a, b>>, "bool", Cmp(w, op, a, b))
    BY <1>2, Zenon DEF AskCmp
  <2>2. Meets(Cmp(w, op, a, b).w, Query(op, <<a, b>>, "bool"), Cmp(w, op, a, b).id)
    BY ValuesAreIds, CmpMeets
  <2> QED
    BY <2>1, <2>2, MeetsIsSound
<1>3. CASE AskNeg
  <2>1. PICK a \in Values : Answer("Neg", <<a>>, Type(w, a), Neg(w, a))
    BY <1>3 DEF AskNeg
  <2>2. Meets(Neg(w, a).w, Query("Neg", <<a>>, Type(w, a)), Neg(w, a).id)
    BY ValuesAreIds, UnaryMeets
  <2> QED
    BY <2>1, <2>2, MeetsIsSound
<1>4. CASE AskNot
  <2>1. PICK a \in Values : Answer("Not", <<a>>, Type(w, a), BitNot(w, a))
    BY <1>4 DEF AskNot
  <2>2. Meets(BitNot(w, a).w, Query("Not", <<a>>, Type(w, a)), BitNot(w, a).id)
    BY ValuesAreIds, UnaryMeets
  <2> QED
    BY <2>1, <2>2, MeetsIsSound
<1>5. CASE AskSelect
  <2>1. PICK c \in Values, a \in Values, b \in Values :
            Type(w, a) = Type(w, b)
              /\ Answer("Select", <<c, a, b>>, Type(w, a), Select(w, c, a, b))
    BY <1>5, Zenon DEF AskSelect
  <2>2. Meets(Select(w, c, a, b).w, Query("Select", <<c, a, b>>, Type(w, a)),
              Select(w, c, a, b).id)
    BY <2>1, ValuesAreIds, SelectMeets
  <2> QED
    BY <2>1, <2>2, MeetsIsSound
<1>6. CASE AskCond
  <2>1. PICK p \in Values, arms \in {2, 3} : \E yields \in [1 .. arms -> Values] :
            /\ \A k \in DOMAIN yields : Type(w, yields[k]) = Type(w, yields[1])
            /\ LET t == Type(w, yields[1])
               IN  Answer("Cond", <<p>> \o yields, t, MakeCond(w, p, t, yields))
    BY <1>6, Zenon DEF AskCond
  <2>2. PICK yields \in [1 .. arms -> Values] :
            /\ \A k \in DOMAIN yields : Type(w, yields[k]) = Type(w, yields[1])
            /\ Answer("Cond", <<p>> \o yields, Type(w, yields[1]),
                      MakeCond(w, p, Type(w, yields[1]), yields))
    BY <2>1
  <2>3. ArmsOf(w, yields)
    <3> DEFINE S == DOMAIN w.nodes
    <3>1. yields \in [1 .. arms -> S] /\ arms \in Nat /\ arms >= 2
      BY ValuesAreIds
    <3> HIDE DEF S
    <3>2. yields \in Seq(S)
      BY <3>1, FunctionIsSeq
    <3>3. Len(yields) = arms
      BY <3>1, <3>2, SMT
    <3> QED
      BY <3>1, <3>2, <3>3 DEF ArmsOf, S
  <2> DEFINE t == Type(w, yields[1])
  <2>4. t \in Types /\ \A k \in DOMAIN yields : Type(w, yields[k]) = t
    <3>1. yields[1] \in DOMAIN w.nodes
      BY ValuesAreIds, SMT
    <3> QED
      BY <2>2, <3>1, NodeFacts
  <2>5. p \in DOMAIN w.nodes
    BY ValuesAreIds
  <2>6. Answer("Cond", <<p>> \o yields, t, MakeCond(w, p, t, yields))
    BY <2>2
  <2> HIDE DEF t
  <2>7. Meets(MakeCond(w, p, t, yields).w, Query("Cond", <<p>> \o yields, t),
              MakeCond(w, p, t, yields).id)
    BY <2>3, <2>4, <2>5, CondMeets
  <2> QED
    BY <2>6, <2>7, MeetsIsSound
<1> QED
  BY <1>1, <1>2, <1>3, <1>4, <1>5, <1>6

(* and those for anything else ask for nothing that is computed. *)
LEMMA OtherRequestsSound ==
    ASSUME Request, ~(AskBinop \/ AskCmp \/ AskNeg \/ AskNot \/ AskSelect \/ AskCond)
    PROVE  ReductionSound'
<1> DEFINE others ==
        {"ConstInt", "ConstBool", "Load", "PureLoad", "Store", "MemStart", "Param", "Loop",
         "LoopMulti", "Proj", "Func", "EndFunc", "Call", "AddFunc", "KeepFuncs"}
<1>1. others \cap Computed = {}
  BY DEF Computed, BinOps, CmpOps
<1>2. ASSUME NEW op \in others, NEW ins, NEW t, NEW r, Answer(op, ins, t, r)
      PROVE  asked'.op \in others
  BY <1>2 DEF Answer
<1>3. asked'.op \in others
  <2>1. CASE AskKonst
    BY <1>2, <2>1, Zenon DEF AskKonst
  <2>2. CASE AskKonstBool
    BY <1>2, <2>2, Zenon DEF AskKonstBool
  <2>3. CASE AskLoad
    BY <1>2, <2>3, Zenon DEF AskLoad
  <2>4. CASE AskPureLoad
    BY <1>2, <2>4, Zenon DEF AskPureLoad
  <2>5. CASE AskStore
    BY <1>2, <2>5, Zenon DEF AskStore
  <2>6. CASE AskMemStart
    BY <1>2, <2>6, Zenon DEF AskMemStart
  <2>7. CASE AskParam
    BY <1>2, <2>7, Zenon DEF AskParam
  <2>8. CASE AskLoop
    BY <1>2, <2>8, Zenon DEF AskLoop
  <2>9. CASE AskLoopMulti
    BY <1>2, <2>9, Zenon DEF AskLoopMulti
  <2>10. CASE AskProj
    BY <1>2, <2>10, Zenon DEF AskProj
  <2>11. CASE AskFunc
    BY <1>2, <2>11, Zenon DEF AskFunc
  <2>12. CASE AskEndFunc
    BY <1>2, <2>12, Zenon DEF AskEndFunc
  <2>13. CASE AskCall
    BY <1>2, <2>13, Zenon DEF AskCall
  <2>14. CASE AskAddFunc
    BY <1>2, <2>14, Zenon DEF AskAddFunc
  <2>15. CASE AskKeepFuncs
    BY <1>2, <2>15, Zenon DEF AskKeepFuncs
  <2> QED
    BY <2>1, <2>2, <2>3, <2>4, <2>5, <2>6, <2>7, <2>8, <2>9, <2>10, <2>11, <2>12, <2>13, <2>14, <2>15 DEF Request
<1> QED
  BY <1>1, <1>3 DEF ReductionSound

(* Requests whose operands agree in width are answered, folded, simplified, *)
(* reordered or turned into shifts, with what has the value the interpreter *)
(* gives the request as it was made, for words and narrow types of any      *)
(* widths in which the count of every such shift is a narrow value too.     *)
THEOREM AnswersKeepValues ==
    Spec => [](Widths = "agree" /\ CountsFit => ReductionSound)
<1> DEFINE Formation == Widths = "agree" => AllFormed(w)
           Inv == Widths = "agree" /\ CountsFit => ReductionSound
<1>1. Init => Inv
  BY DEF Init, ReductionSound, Computed, BinOps, CmpOps
<1>2. WorldIInv /\ Formation /\ Inv /\ [Next]_vars => Inv'
  <2> SUFFICES ASSUME WorldIInv, Formation, Inv, [Next]_vars, Widths = "agree", CountsFit
               PROVE  ReductionSound'
    OBVIOUS
  <2>1. WellMade(w) /\ Good(w) /\ AllFormed(w) /\ ReductionSound
    BY DEF WorldIInv
  <2>2. CASE Request
    BY <2>1, <2>2, ComputingRequestsSound, OtherRequestsSound
  <2>3. CASE UNCHANGED vars
    <3>1. w' = w /\ asked' = asked /\ ret' = ret
      BY <2>3 DEF vars
    <3>2. Meets(w, asked, ret)
      BY <2>1, Zenon DEF Meets, ReductionSound
    <3>3. Meets(w', asked', ret')
      BY <3>1, <3>2
    <3> QED
      BY <3>3, Zenon DEF Meets, ReductionSound
  <2> QED
    BY <2>2, <2>3 DEF Next, Finished
<1> QED
  BY <1>1, <1>2, WorldInvariance, NodesAreFormed, PTL DEF Spec
-----------------------------------------------------------------------------
(* The order operands are asked for in.  What was answered once is answered *)
(* again, *)
LEMMA InternAgain ==
    ASSUME NEW u, WellMade(u), NEW n, Shared(n), NEW r, r = Intern(u, n), Step(u, r),
           NEW v, WellMade(v), Grown(r.w, v)
    PROVE  Intern(v, n) = Hit(v, r.id)
<1> DEFINE known == {id \in v.interned : NodeEq(v.nodes[id], n)}
<1>1. r.id \in DOMAIN v.nodes /\ NodeEq(v.nodes[r.id], n)
  BY InternIs DEF Grown
<1>2. Shared(v.nodes[r.id])
  BY <1>1 DEF Shared, NodeEq
<1>3. r.id \in known
  BY <1>1, <1>2 DEF WellMade
<1>4. \A id \in known : id = r.id
  <2> SUFFICES ASSUME NEW id \in known PROVE id = r.id
    OBVIOUS
  <2>1. NodeEq(v.nodes[id], v.nodes[r.id])
    BY <1>1 DEF NodeEq
  <2> QED
    BY <1>3, <2>1 DEF WellMade
<1>5. (CHOOSE id \in known : TRUE) = r.id /\ known # {}
  BY <1>3, <1>4
<1> QED
  BY <1>5 DEF Intern, Hit

(* by the constants of each type, *)
LEMMA KonstAgain ==
    ASSUME NEW u, WellMade(u), NEW x, NEW t, NEW r, r = Konst(u, x, t),
           NEW v, WellMade(v), Grown(r.w, v)
    PROVE  Konst(v, x, t) = Hit(v, r.id)
<1> DEFINE n == [Node("ConstInt", t, <<>>) EXCEPT !.imm = Trunc(x, t)]
<1>1. Shared(n)
  BY DEF Shared, Node, ConstOps
<1>2. Step(u, r) /\ r = Intern(u, n) /\ Konst(v, x, t) = Intern(v, n)
  BY KonstStep DEF Konst
<1> HIDE DEF n
<1> QED
  BY <1>1, <1>2, InternAgain

(* and by the truth values, *)
LEMMA KonstBoolAgain ==
    ASSUME NEW u, WellMade(u), NEW b, NEW r, r = KonstBool(u, b)
    PROVE  KonstBool(r.w, b) = Hit(r.w, r.id)
<1> DEFINE n == [Node("ConstBool", "bool", <<>>) EXCEPT !.imm = IF b THEN 1 ELSE 0]
<1>1. Shared(n)
  BY DEF Shared, Node, ConstOps
<1>2. Step(u, r) /\ r = Intern(u, n) /\ KonstBool(r.w, b) = Intern(r.w, n)
  BY KonstBoolStep DEF KonstBool
<1>3. WellMade(r.w) /\ Grown(r.w, r.w)
  BY <1>2 DEF Step, Grown
<1> HIDE DEF n
<1> QED
  BY <1>1, <1>2, <1>3, InternAgain

(* the shifts, *)
LEMMA ShiftAgain ==
    ASSUME NEW u, WellMade(u), NEW a \in DOMAIN u.nodes, NEW k \in DOMAIN u.nodes,
           NEW r, r = ShiftBy(u, a, k)
    PROVE  ShiftBy(r.w, a, k) = Hit(r.w, r.id)
<1> DEFINE n == Node("Shl", Type(u, a), <<a, k>>)
<1>1. Step(u, r) /\ WellMade(r.w) /\ Grown(u, r.w) /\ Grown(r.w, r.w)
  BY ShiftStep DEF Step, Grown
<1>2. Type(r.w, a) = Type(u, a) /\ (ConstIs(r.w, k, 0) <=> ConstIs(u, k, 0))
  BY <1>1, SameAnswers
<1>3. CASE ConstIs(u, k, 0)
  BY <1>2, <1>3 DEF ShiftBy, Hit
<1>4. CASE ~ConstIs(u, k, 0)
  <2>1. Shared(n)
    BY DEF Shared, Node, BinOps
  <2>2. r = Intern(u, n) /\ ShiftBy(r.w, a, k) = Intern(r.w, n)
    BY <1>2, <1>4 DEF ShiftBy
  <2> HIDE DEF n
  <2> QED
    BY <1>1, <2>1, <2>2, InternAgain
<1> QED
  BY <1>3, <1>4

(* and whatever binop folds, simplifies, reduces or makes. *)
LEMMA BinopAgain ==
    ASSUME NEW u, WellMade(u), NEW op \in BinOps,
           NEW first \in DOMAIN u.nodes, NEW second \in DOMAIN u.nodes,
           NEW r, r = Binop(u, op, first, second)
    PROVE  Binop(r.w, op, first, second) = Hit(r.w, r.id)
<1> DEFINE v == r.w
           t == Type(u, first)
           x == Imm(u, first)
           y == Imm(u, second)
           a == IF Swaps(u, op, first, second) THEN second ELSE first
           b == IF Swaps(u, op, first, second) THEN first ELSE second
           powers == IF op = "Mul" /\ IsConst(u, b) THEN Log(Imm(u, b)) ELSE {}
           k == CHOOSE i \in powers : TRUE
           times == Konst(u, k, t)
           again == Konst(v, k, t)
           folded == IsConst(u, first) /\ IsConst(u, second) /\ ~FoldFails(op, y)
           n == Node(op, t, <<a, b>>)
<1>1. Step(u, r) /\ WellMade(v) /\ Grown(u, v) /\ Grown(v, v)
  BY BinopStep DEF Step, Grown
<1>2. a \in DOMAIN u.nodes /\ b \in DOMAIN u.nodes
  OBVIOUS
<1>3. r = IF folded THEN Konst(u, FoldBinop(op, x, y, t), t)
          ELSE IF KeepsFirst(u, op, a, b) THEN Hit(u, a)
          ELSE IF GivesZero(u, op, a, b) THEN Konst(u, 0, t)
          ELSE IF powers # {} THEN ShiftBy(times.w, a, times.id)
          ELSE Intern(u, n)
  BY Zenon DEF Binop
<1>4. /\ Type(v, first) = t /\ Imm(v, first) = x /\ Imm(v, second) = y
      /\ IsConst(v, first) <=> IsConst(u, first)
      /\ IsConst(v, second) <=> IsConst(u, second)
  BY <1>1, SameAnswers
<1>5. Swaps(v, op, first, second) <=> Swaps(u, op, first, second)
  BY <1>4 DEF Swaps
<1> HIDE DEF v, t, x, y, a, b, k
<1>6. /\ Imm(v, b) = Imm(u, b) /\ (IsConst(v, b) <=> IsConst(u, b))
      /\ \A c : ConstIs(v, b, c) <=> ConstIs(u, b, c)
  BY <1>1, <1>2, SameAnswers
<1>7. /\ KeepsFirst(v, op, a, b) <=> KeepsFirst(u, op, a, b)
      /\ GivesZero(v, op, a, b) <=> GivesZero(u, op, a, b)
  BY <1>6 DEF KeepsFirst, GivesZero
<1>8. Binop(v, op, first, second) =
          IF folded THEN Konst(v, FoldBinop(op, x, y, t), t)
          ELSE IF KeepsFirst(v, op, a, b) THEN Hit(v, a)
          ELSE IF GivesZero(v, op, a, b) THEN Konst(v, 0, t)
          ELSE IF powers # {} THEN ShiftBy(again.w, a, again.id)
          ELSE Intern(v, n)
  <2> DEFINE a1 == IF Swaps(v, op, first, second) THEN second ELSE first
             b1 == IF Swaps(v, op, first, second) THEN first ELSE second
             powers1 == IF op = "Mul" /\ IsConst(v, b1) THEN Log(Imm(v, b1)) ELSE {}
             t1 == Type(v, first)
             x1 == Imm(v, first)
             y1 == Imm(v, second)
             times1 == Konst(v, CHOOSE i \in powers1 : TRUE, t1)
             folded1 == IsConst(v, first) /\ IsConst(v, second) /\ ~FoldFails(op, y1)
  <2>1. Binop(v, op, first, second) =
          IF folded1 THEN Konst(v, FoldBinop(op, x1, y1, t1), t1)
          ELSE IF KeepsFirst(v, op, a1, b1) THEN Hit(v, a1)
          ELSE IF GivesZero(v, op, a1, b1) THEN Konst(v, 0, t1)
          ELSE IF powers1 # {} THEN ShiftBy(times1.w, a1, times1.id)
          ELSE Intern(v, Node(op, t1, <<a1, b1>>))
    BY Zenon DEF Binop
  <2>2. a1 = a /\ b1 = b /\ t1 = t /\ x1 = x /\ y1 = y
    BY <1>4, <1>5 DEF a, b
  <2>3. powers1 = powers
    BY <1>6, <2>2
  <2>4. times1 = again
    BY <2>2, <2>3 DEF k
  <2>5. folded1 <=> folded
    BY <1>4, <2>2
  <2> HIDE DEF a1, b1, t1, x1, y1, powers1, times1, folded1, powers, again, folded
  <2> QED
    BY <2>1, <2>2, <2>3, <2>4, <2>5
<1> HIDE DEF powers, folded, n, times, again
<1>9. CASE folded
  <2>1. r = Konst(u, FoldBinop(op, x, y, t), t)
    BY <1>3, <1>9
  <2>2. Konst(v, FoldBinop(op, x, y, t), t) = Hit(v, r.id)
    BY <1>1, <2>1, KonstAgain DEF v
  <2> QED
    BY <1>8, <1>9, <2>2 DEF v
<1>10. CASE ~folded /\ KeepsFirst(u, op, a, b)
  <2>1. r = Hit(u, a) /\ Binop(v, op, first, second) = Hit(v, a)
    BY <1>3, <1>7, <1>8, <1>10
  <2> QED
    BY <2>1 DEF Hit, v
<1>11. CASE ~folded /\ ~KeepsFirst(u, op, a, b) /\ GivesZero(u, op, a, b)
  <2>1. r = Konst(u, 0, t) /\ Binop(v, op, first, second) = Konst(v, 0, t)
    BY <1>3, <1>7, <1>8, <1>11
  <2>2. Konst(v, 0, t) = Hit(v, r.id)
    BY <1>1, <2>1, KonstAgain DEF v
  <2> QED
    BY <2>1, <2>2 DEF v
<1>12. CASE ~folded /\ ~KeepsFirst(u, op, a, b) /\ ~GivesZero(u, op, a, b) /\ powers # {}
  <2>1. r = ShiftBy(times.w, a, times.id)
    BY <1>3, <1>12
  <2>2. Binop(v, op, first, second) = ShiftBy(again.w, a, again.id)
    BY <1>7, <1>8, <1>12
  <2>3. Step(u, times)
    BY KonstStep DEF times
  <2>4. WellMade(times.w) /\ a \in DOMAIN times.w.nodes /\ times.id \in DOMAIN times.w.nodes
    BY <1>2, <2>3 DEF Step, Grown
  <2>5. Grown(times.w, v)
    BY <2>1, <2>4, ShiftStep DEF Step, v
  <2>6. again = Hit(v, times.id)
    BY <1>1, <2>5, KonstAgain DEF times, again
  <2>7. ShiftBy(v, a, times.id) = Hit(v, r.id)
    BY <2>1, <2>4, ShiftAgain DEF v
  <2> QED
    BY <2>2, <2>6, <2>7 DEF Hit, v
<1>13. CASE ~folded /\ ~KeepsFirst(u, op, a, b) /\ ~GivesZero(u, op, a, b) /\ powers = {}
  <2>1. r = Intern(u, n) /\ Binop(v, op, first, second) = Intern(v, n)
    BY <1>3, <1>7, <1>8, <1>13
  <2>2. Shared(n)
    BY DEF n, Shared, Node
  <2>3. Intern(v, n) = Hit(v, r.id)
    BY <1>1, <2>1, <2>2, InternAgain DEF v
  <2> QED
    BY <2>1, <2>3 DEF v
<1> QED
  BY <1>9, <1>10, <1>11, <1>12, <1>13

(* World::cmp likewise. *)
LEMMA CmpAgain ==
    ASSUME NEW u, WellMade(u), NEW op \in CmpOps,
           NEW first \in DOMAIN u.nodes, NEW second \in DOMAIN u.nodes,
           NEW r, r = Cmp(u, op, first, second)
    PROVE  Cmp(r.w, op, first, second) = Hit(r.w, r.id)
<1> DEFINE v == r.w
           swap == op \in Commutative /\ first > second
           n == Node(op, "bool", IF swap THEN <<second, first>> ELSE <<first, second>>)
           both(z) == IsConst(z, first) /\ IsConst(z, second)
           truth(z) == Holds(op, Imm(z, first), Imm(z, second))
<1>1. Step(u, r) /\ WellMade(v) /\ Grown(u, v) /\ Grown(v, v)
  BY CmpStep DEF Step, Grown
<1>2. \A z : Cmp(z, op, first, second) =
          IF both(z) THEN KonstBool(z, truth(z))
          ELSE IF first = second THEN KonstBool(z, op \in {"CmpEq", "CmpLe", "CmpGe"})
          ELSE Intern(z, n)
  BY Zenon DEF Cmp
<1>3. (both(v) <=> both(u)) /\ truth(v) = truth(u)
  BY <1>1, SameAnswers
<1> HIDE DEF both, truth, n
<1>4. CASE both(u)
  <2>1. r = KonstBool(u, truth(u)) /\ Cmp(v, op, first, second) = KonstBool(v, truth(u))
    BY <1>2, <1>3, <1>4
  <2> QED
    BY <2>1, KonstBoolAgain
<1>5. CASE ~both(u) /\ first = second
  <2> DEFINE equal == op \in {"CmpEq", "CmpLe", "CmpGe"}
  <2>1. r = KonstBool(u, equal) /\ Cmp(v, op, first, second) = KonstBool(v, equal)
    BY <1>2, <1>3, <1>5
  <2> HIDE DEF equal
  <2> QED
    BY <2>1, KonstBoolAgain
<1>6. CASE ~both(u) /\ first # second
  <2>1. r = Intern(u, n) /\ Cmp(v, op, first, second) = Intern(v, n)
    BY <1>2, <1>3, <1>6
  <2>2. Shared(n)
    BY DEF n, Shared, Node
  <2> QED
    BY <1>1, <2>1, <2>2, InternAgain
<1> QED
  BY <1>4, <1>5, <1>6

(* In one world the order makes no difference, *)
LEMMA CmpEitherWay ==
    ASSUME NEW u, WellMade(u), NEW op \in CmpOps \cap Commutative,
           NEW a \in DOMAIN u.nodes, NEW b \in DOMAIN u.nodes
    PROVE  Cmp(u, op, b, a) = Cmp(u, op, a, b)
<1>1. a \in Int /\ b \in Int
  BY ArenaDomain, SMT
<1>2. op \in {"CmpEq", "CmpNe"}
  BY DEF CmpOps, Commutative
<1>3. Holds(op, Imm(u, b), Imm(u, a)) = Holds(op, Imm(u, a), Imm(u, b))
  BY <1>2 DEF Holds
<1>4. CASE a = b
  BY <1>4
<1>5. CASE a # b
  <2>1. a > b <=> ~(b > a)
    BY <1>1, <1>5
  <2>2. (IF op \in Commutative /\ b > a THEN <<a, b>> ELSE <<b, a>>)
            = (IF op \in Commutative /\ a > b THEN <<b, a>> ELSE <<a, b>>)
    BY <2>1
  <2> QED
    BY <1>3, <1>5, <2>2 DEF Cmp
<1> QED
  BY <1>4, <1>5

(* for operands of one type, *)
LEMMA BinopEitherWay ==
    ASSUME NEW u, WellMade(u), Good(u), NEW op \in BinOps \cap Commutative,
           NEW a \in DOMAIN u.nodes, NEW b \in DOMAIN u.nodes, Type(u, a) = Type(u, b)
    PROVE  Binop(u, op, b, a) = Binop(u, op, a, b)
<1> DEFINE t == Type(u, a)
           fold(x, y) == Konst(u, FoldBinop(op, x, y, t), t)
           made(x, y) ==
               LET powers == IF op = "Mul" /\ IsConst(u, y) THEN Log(Imm(u, y)) ELSE {}
                   times == Konst(u, CHOOSE k \in powers : TRUE, t)
               IN  IF KeepsFirst(u, op, x, y) THEN Hit(u, x)
                   ELSE IF GivesZero(u, op, x, y) THEN Konst(u, 0, t)
                   ELSE IF powers # {} THEN ShiftBy(times.w, x, times.id)
                   ELSE Intern(u, Node(op, t, <<x, y>>))
<1>1. a \in Int /\ b \in Int
  BY ArenaDomain, SMT
<1>2. \A y : ~FoldFails(op, y)
  BY DEF FoldFails, Commutative
<1>3. CASE IsConst(u, a) /\ IsConst(u, b)
  <2> DEFINE x == Imm(u, a)
             y == Imm(u, b)
  <2>1. Binop(u, op, a, b) = fold(x, y) /\ Binop(u, op, b, a) = fold(y, x)
    BY <1>2, <1>3 DEF Binop
  <2>2. x \in Int64 /\ y \in Int64
    BY <1>3, NodeFacts
  <2> HIDE DEF x, y, t
  <2>3. FoldBinop(op, x, y, t) = FoldBinop(op, y, x, t)
    BY <1>2, <2>2, FoldIsArith, ArithCommutes
  <2> QED
    BY <2>1, <2>3
<1>4. CASE ~(IsConst(u, a) /\ IsConst(u, b))
  <2>0. ASSUME NEW first, NEW second, Type(u, first) = t,
               ~(IsConst(u, first) /\ IsConst(u, second))
        PROVE  Binop(u, op, first, second) =
                   IF Swaps(u, op, first, second) THEN made(second, first)
                   ELSE made(first, second)
    <3> DEFINE t1 == Type(u, first)
               x == IF Swaps(u, op, first, second) THEN second ELSE first
               y == IF Swaps(u, op, first, second) THEN first ELSE second
               powers == IF op = "Mul" /\ IsConst(u, y) THEN Log(Imm(u, y)) ELSE {}
               times == Konst(u, CHOOSE k \in powers : TRUE, t1)
    <3>1. Binop(u, op, first, second) =
              IF IsConst(u, first) /\ IsConst(u, second) /\ ~FoldFails(op, Imm(u, second))
              THEN Konst(u, FoldBinop(op, Imm(u, first), Imm(u, second), t1), t1)
              ELSE IF KeepsFirst(u, op, x, y) THEN Hit(u, x)
              ELSE IF GivesZero(u, op, x, y) THEN Konst(u, 0, t1)
              ELSE IF powers # {} THEN ShiftBy(times.w, x, times.id)
              ELSE Intern(u, Node(op, t1, <<x, y>>))
      BY Zenon DEF Binop
    <3>2. t1 = t
      BY <2>0
    <3>3. made(x, y) =
              IF KeepsFirst(u, op, x, y) THEN Hit(u, x)
              ELSE IF GivesZero(u, op, x, y) THEN Konst(u, 0, t1)
              ELSE IF powers # {} THEN ShiftBy(times.w, x, times.id)
              ELSE Intern(u, Node(op, t1, <<x, y>>))
      BY <3>2
    <3>4. Binop(u, op, first, second) = made(x, y)
      <4> HIDE DEF made, x, y, t1, powers, times
      <4> QED
        BY <2>0, <3>1, <3>3
    <3> HIDE DEF made
    <3> QED
      BY <3>4
  <2>1. Binop(u, op, a, b) = IF Swaps(u, op, a, b) THEN made(b, a) ELSE made(a, b)
    <3> HIDE DEF made
    <3> QED
      BY <1>4, <2>0
  <2>2. Binop(u, op, b, a) = IF Swaps(u, op, b, a) THEN made(a, b) ELSE made(b, a)
    <3> HIDE DEF made
    <3>1. Type(u, b) = t
      OBVIOUS
    <3> QED
      BY <1>4, <2>0, <3>1
  <2>3. a = b \/ (Swaps(u, op, b, a) <=> ~Swaps(u, op, a, b))
    <3>1. a = b \/ (a > b <=> ~(b > a))
      BY <1>1
    <3> QED
      BY <1>4, <3>1 DEF Swaps
  <2> HIDE DEF made
  <2> QED
    BY <2>1, <2>2, <2>3
<1> QED
  BY <1>3, <1>4

(* and none to what is made of unknowns but for the type.                   *)
LEMMA UnknownsMake ==
    ASSUME NEW u, WellMade(u), NEW op \in BinOps \cap Commutative,
           NEW a \in DOMAIN u.nodes, NEW b \in DOMAIN u.nodes, a < b,
           ~IsConst(u, a), ~IsConst(u, b)
    PROVE  /\ Binop(u, op, a, b) = Intern(u, Node(op, Type(u, a), <<a, b>>))
           /\ Binop(u, op, b, a) = Intern(u, Node(op, Type(u, b), <<a, b>>))
<1>1. a \in Int /\ b \in Int
  BY ArenaDomain, SMT
<1>2. a # b /\ ~(a > b) /\ b > a
  BY <1>1
<1>3. ~Swaps(u, op, a, b) /\ Swaps(u, op, b, a)
  BY <1>2 DEF Swaps
<1>4. ~KeepsFirst(u, op, a, b) /\ ~GivesZero(u, op, a, b)
  BY <1>2 DEF KeepsFirst, GivesZero, ConstIs
<1> QED
  BY <1>3, <1>4 DEF Binop

(* A commutative operation asked for both ways round is one node if it is a *)
(* comparison or its operands have one type, in every world that requests   *)
(* of any widths make, and two that differ in their type alone if its       *)
(* operands are unknowns of different types: World::binop takes the type    *)
(* of the result before it puts the operands in order.                      *)
THEOREM OrderIsCanonical == Spec => []CommutedOnce
<1>1. WorldIInv => CommutedOnce
  <2> SUFFICES ASSUME WorldIInv,
                      NEW op \in Commutative \cap Ops, NEW a \in Values, NEW b \in Values,
                      a < b, NEW r, r = Asked(w, op, a, b), NEW q, q = Asked(r.w, op, b, a)
               PROVE  IF op \in CmpOps \/ Type(w, a) = Type(w, b) THEN q = Hit(r.w, r.id)
                      ELSE \/ IsConst(w, a) \/ IsConst(w, b)
                           \/ /\ q.id # r.id
                              /\ NodeEq(q.w.nodes[q.id],
                                        [r.w.nodes[r.id] EXCEPT !.type = Type(w, b)])
    BY DEF CommutedOnce
  <2>1. /\ WellMade(w) /\ Good(w)
        /\ a \in DOMAIN w.nodes /\ b \in DOMAIN w.nodes
    BY DEF WorldIInv, Values, Ids
  <2>2. CASE op \in CmpOps
    <3>1. r = Cmp(w, op, b, a) /\ q = Cmp(r.w, op, b, a)
      BY <2>1, <2>2, CmpEitherWay DEF Asked
    <3> QED
      BY <2>1, <2>2, <3>1, CmpAgain
  <2>3. ASSUME op \notin CmpOps
        PROVE  /\ op \in BinOps
               /\ r = Binop(w, op, a, b) /\ q = Binop(r.w, op, b, a)
    BY <2>3 DEF Asked, Commutative, BinOps, CmpOps
  <2>4. CASE op \notin CmpOps /\ Type(w, a) = Type(w, b)
    <3>1. r = Binop(w, op, b, a) /\ q = Binop(r.w, op, b, a) /\ op \in BinOps
      BY <2>1, <2>3, <2>4, BinopEitherWay
    <3> QED
      BY <2>1, <2>4, <3>1, BinopAgain
  <2>5. CASE /\ op \notin CmpOps /\ Type(w, a) # Type(w, b)
             /\ ~IsConst(w, a) /\ ~IsConst(w, b)
    <3> DEFINE m == r.w.nodes[r.id]
               n == q.w.nodes[q.id]
               first == Node(op, Type(w, a), <<a, b>>)
               then == Node(op, Type(w, b), <<a, b>>)
    <3>1. Step(w, r) /\ WellMade(r.w) /\ Good(r.w) /\ Grown(w, r.w)
      BY <2>1, <2>3, <2>5, BinopStep, BinopGood DEF Step
    <3>2. /\ a \in DOMAIN r.w.nodes /\ b \in DOMAIN r.w.nodes /\ Type(r.w, b) = Type(w, b)
          /\ ~IsConst(r.w, a) /\ ~IsConst(r.w, b)
      BY <2>1, <2>5, <3>1, SameAnswers
    <3>3. Step(r.w, q)
      BY <2>3, <2>5, <3>1, <3>2, BinopStep
    <3>4. r = Intern(w, first) /\ q = Intern(r.w, then)
      BY <2>1, <2>3, <2>5, <3>1, <3>2, UnknownsMake
    <3> HIDE DEF first, then
    <3>5. NodeEq(m, first) /\ NodeEq(n, then)
      <4>1. NodeEq(m, first)
        BY <2>1, <3>1, <3>4, InternIs
      <4>2. NodeEq(n, then)
        BY <3>1, <3>3, <3>4, InternIs
      <4> QED
        BY <4>1, <4>2
    <3>6. q.w.nodes[r.id] = m
      BY <3>1, <3>3 DEF Step, Grown
    <3>7. "type" \in DOMAIN m
      BY <3>1 DEF Step, Good, Typed, TypedNode
    <3>8. r.id = q.id => m = n
      BY <3>6
    <3> HIDE DEF m, n
    <3>9. /\ m.op = op /\ n.op = op /\ m.type = Type(w, a) /\ n.type = Type(w, b)
          /\ m.ins = <<a, b>> /\ n.ins = <<a, b>> /\ m.imm = 0 /\ n.imm = 0
          /\ m.state_in = NONE /\ n.state_in = NONE
      BY <3>5 DEF NodeEq, Node, first, then
    <3>10. NodeEq(n, [m EXCEPT !.type = Type(w, b)])
      BY <3>7, <3>9 DEF NodeEq
    <3>11. r.id # q.id
      BY <2>5, <3>8, <3>9
    <3> QED
      BY <2>5, <3>10, <3>11 DEF m, n
  <2> QED
    BY <2>2, <2>4, <2>5
<1> QED
  BY <1>1, WorldInvariance, PTL
=============================================================================
