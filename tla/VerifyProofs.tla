------------------------------ MODULE VerifyProofs ------------------------------
(***************************************************************************)
(* Theorems about the verifier's walk over any graph.                      *)
(***************************************************************************)
EXTENDS Verify, SequenceTheorems, Recursion

Frames == [v : DOMAIN graph.nodes, next : Seq(Nat)]

GraphOK ==
    /\ Len(graph.nodes) \in Nat /\ DOMAIN graph.nodes = 1 .. Len(graph.nodes)
    /\ Roots(graph, func) \in Seq(Nat)
    /\ \A v \in DOMAIN graph.nodes : Successors(graph, v) \in Seq(Nat)

TypeOK ==
    /\ GraphOK
    /\ stk \in Seq(Frames)
    /\ roots \in Seq(Nat)
    /\ reached \subseteq DOMAIN graph.nodes

(* The nodes on the stack: each was a successor of the one below, no two    *)
(* are the same, and none has been left yet.                                *)
Path ==
    /\ \A i \in 1 .. Len(stk) : Range(stk[i].next) \subseteq Refers(graph, stk[i].v)
    /\ \A i \in 1 .. Len(stk) - 1 : stk[i + 1].v \in Refers(graph, stk[i].v)
    /\ \A i, j \in 1 .. Len(stk) : stk[i].v = stk[j].v => i = j
    /\ \A i \in 1 .. Len(stk) : stk[i].v \notin reached
    /\ Cardinality(OnStack) = Len(stk)

(* As long as nothing is reported: what a node on the stack refers to has   *)
(* been left, is above it, or is still to be visited; so with the roots.    *)
Above(i, s) == i < Len(stk) /\ stk[i + 1].v = s

Accounted ==
    /\ \A i \in 1 .. Len(stk) : \A s \in Refers(graph, stk[i].v) :
            s \in reached \/ s \in Range(stk[i].next) \/ Above(i, s)
    /\ \A s \in Range(Roots(graph, func)) :
            s \in reached \/ s \in Range(roots) \/ (stk # <<>> /\ stk[1].v = s)

Closed == \A v \in reached : Refers(graph, v) \subseteq reached

Quiet == Accounted /\ Closed /\ NoCycle /\ (done => stk = <<>> /\ roots = <<>>)

IInv == TypeOK /\ Path /\ (errors = {} => Quiet)

-----------------------------------------------------------------------------
(* The invariant holds before the walk. *)
LEMMA InitIInv == Init => IInv
<1> SUFFICES ASSUME Init PROVE IInv
  OBVIOUS
<1>1. /\ stk = <<>> /\ reached = {}
      /\ roots = <<>> \/ roots = Roots(graph, func)
      /\ errors = {} => roots = Roots(graph, func) /\ done = FALSE
  BY Zenon DEF Init
<1>2. GraphOK
  <2>1. PICK g \in Graphs : graph = g.w /\ func = g.func
    BY Zenon DEF Init
  <2> QED
    BY <2>1, GraphsAssumption DEF GraphOK
<1>3. TypeOK
  <2>1. <<>> \in Seq(Frames) /\ <<>> \in Seq(Nat)
    OBVIOUS
  <2> QED
    BY <2>1, <1>1, <1>2 DEF TypeOK, GraphOK
<1>4. DOMAIN stk = {} /\ Len(stk) = 0
  BY <1>1
<1>5. OnStack = {} /\ Cardinality(OnStack) = 0
  BY <1>4, FS_EmptySet DEF OnStack
<1>6. Path
  BY <1>4, <1>5 DEF Path
<1>7. ASSUME errors = {} PROVE Quiet
  <2>1. roots = Roots(graph, func) /\ done = FALSE
    BY <1>1, <1>7
  <2> QED
    BY <2>1, <1>1, <1>4 DEF Quiet, Accounted, Closed, NoCycle
<1> QED
  BY <1>3, <1>6, <1>7 DEF IInv

(* Stacks of the same nodes as stk, with no more left to visit. *)
Below(b) ==
    /\ b \in Seq(Frames) /\ Len(b) = Len(stk)
    /\ \A i \in 1 .. Len(stk) : b[i].v = stk[i].v /\ Range(b[i].next) \subseteq Range(stk[i].next)

(* What is on the stack are nodes of the graph. *)
LEMMA OnStackRange ==
    ASSUME TypeOK
    PROVE  OnStack \subseteq DOMAIN graph.nodes /\ Len(stk) \in Nat
<1>1. stk \in Seq(Frames)
  BY DEF TypeOK
<1>2. Len(stk) \in Nat
  BY <1>1
<1>3. \A i \in 1 .. Len(stk) : stk[i] \in Frames
  BY <1>1
<1>4. \A i \in 1 .. Len(stk) : stk[i].v \in DOMAIN graph.nodes
  BY <1>3 DEF Frames
<1> QED
  BY <1>2, <1>4 DEF OnStack

(* What a call of Visit comes to: the node does not exist; it has been left *)
(* or, with an error, is on the stack; or it is entered.                    *)
LEMMA VisitCases ==
    ASSUME TypeOK, Path, NEW s \in Nat, NEW b, Visit(s, b)
    PROVE  \/ stk' = b /\ errors' # {}
           \/ stk' = b /\ errors' = errors /\ s \in reached
           \/ /\ s \in DOMAIN graph.nodes /\ s \notin reached /\ s \notin OnStack
              /\ stk' = Append(b, [v |-> s, next |-> Successors(graph, s)])
              /\ errors' = errors
BY DEF Visit, Enter, Dangles

(* Taking the first of a list leaves the others. *)
LEMMA TakeFirst ==
    ASSUME NEW q \in Seq(Nat), q # <<>>
    PROVE  /\ Head(q) \in Nat /\ Tail(q) \in Seq(Nat)
           /\ Range(q) = {Head(q)} \cup Range(Tail(q))
<1>1. /\ Head(q) = q[1] /\ Len(Tail(q)) = Len(q) - 1 /\ Len(q) \in Nat \ {0}
      /\ Tail(q) \in Seq(Nat)
      /\ \A i \in 1 .. Len(q) - 1 : Tail(q)[i] = q[i + 1]
  OBVIOUS
<1>2. ASSUME NEW x \in Range(q) PROVE x \in {Head(q)} \cup Range(Tail(q))
  <2>1. PICK i \in 1 .. Len(q) : x = q[i]
    BY DEF Range
  <2>2. CASE i = 1
    BY <2>1, <2>2, <1>1
  <2>3. CASE i # 1
    <3>1. i - 1 \in DOMAIN Tail(q) /\ Tail(q)[i - 1] = x
      BY <2>1, <2>3, <1>1
    <3> QED
      BY <3>1 DEF Range
  <2> QED
    BY <2>2, <2>3
<1>3. ASSUME NEW x \in Range(Tail(q)) PROVE x \in Range(q)
  <2>1. PICK i \in 1 .. Len(q) - 1 : x = Tail(q)[i]
    BY <1>1 DEF Range
  <2>2. i + 1 \in DOMAIN q /\ q[i + 1] = x
    BY <2>1, <1>1
  <2> QED
    BY <2>2 DEF Range
<1>4. Head(q) \in Range(q) /\ Head(q) \in Nat
  BY <1>1 DEF Range
<1> QED
  BY <1>1, <1>2, <1>3, <1>4

-----------------------------------------------------------------------------
(* A node that is not entered leaves the stack a path. *)
LEMMA PassKeepsPath ==
    ASSUME TypeOK, Path, NEW b, Below(b), stk' = b, roots' \in Seq(Nat),
           UNCHANGED <<graph, func, reached>>
    PROVE  TypeOK' /\ Path'
<1>1. TypeOK'
  BY DEF TypeOK, GraphOK, Below, Frames
<1>2. OnStack' = OnStack
  BY DEF OnStack, Below
<1>3. Len(stk') = Len(stk) /\ \A i \in 1 .. Len(stk) : stk'[i].v = stk[i].v
  BY DEF Below
<1>4. \A i \in 1 .. Len(stk) : Range(stk'[i].next) \subseteq Refers(graph, stk[i].v)
  BY DEF Below, Path
<1>5. \A i \in 1 .. Len(stk) - 1 : stk'[i + 1].v \in Refers(graph, stk'[i].v)
  <2> SUFFICES ASSUME NEW i \in 1 .. Len(stk) - 1
               PROVE  stk'[i + 1].v \in Refers(graph, stk'[i].v)
    BY Zenon, <1>3
  <2>1. i \in 1 .. Len(stk) /\ i + 1 \in 1 .. Len(stk)
    BY OnStackRange
  <2>2. stk[i + 1].v \in Refers(graph, stk[i].v)
    BY Zenon DEF Path
  <2> QED
    BY Zenon, <1>3, <2>1, <2>2
<1>6. Path'
  <2>1. Cardinality(OnStack') = Len(stk')
    BY <1>2, <1>3 DEF Path
  <2>2. \A i, j \in 1 .. Len(stk') : stk'[i].v = stk'[j].v => i = j
    BY <1>3 DEF Path
  <2>3. \A i \in 1 .. Len(stk') : stk'[i].v \notin reached'
    BY <1>3 DEF Path
  <2>4. graph' = graph
    OBVIOUS
  <2>5. \A i \in 1 .. Len(stk') : Range(stk'[i].next) \subseteq Refers(graph', stk'[i].v)
    BY Zenon, <1>3, <1>4, <2>4
  <2>6. \A i \in 1 .. Len(stk') - 1 : stk'[i + 1].v \in Refers(graph', stk'[i].v)
    BY Zenon, <1>3, <1>5, <2>4
  <2> QED
    BY Zenon, <2>1, <2>2, <2>3, <2>5, <2>6 DEF Path
<1> QED
  BY <1>1, <1>6

(* Nor does a node that is entered from the top of it. *)
LEMMA EnterKeepsPath ==
    ASSUME TypeOK, Path, NEW b, Below(b), NEW s \in DOMAIN graph.nodes,
           s \notin reached, s \notin OnStack,
           stk # <<>> => s \in Refers(graph, stk[Len(stk)].v),
           stk' = Append(b, [v |-> s, next |-> Successors(graph, s)]),
           roots' \in Seq(Nat), UNCHANGED <<graph, func, reached>>
    PROVE  /\ TypeOK' /\ Path'
           /\ Len(stk') = Len(stk) + 1
           /\ \A i \in 1 .. Len(stk) : stk'[i] = b[i]
           /\ stk'[Len(stk) + 1] = [v |-> s, next |-> Successors(graph, s)]
<1> DEFINE top == [v |-> s, next |-> Successors(graph, s)]
<1>1. top \in Frames
  BY DEF TypeOK, GraphOK, Frames
<1>2. /\ stk' \in Seq(Frames)
      /\ Len(stk) \in Nat /\ Len(stk') = Len(stk) + 1
      /\ \A i \in 1 .. Len(stk) : stk'[i] = b[i]
      /\ stk'[Len(stk) + 1] = top
  BY <1>1 DEF Below
<1>3. TypeOK'
  BY <1>2 DEF TypeOK, GraphOK, Frames
<1>4. /\ \A i \in 1 .. Len(stk) : stk'[i].v = stk[i].v
      /\ stk'[Len(stk) + 1].v = s /\ stk'[Len(stk) + 1].next = Successors(graph, s)
  BY <1>2 DEF Below
<1>5. OnStack' = OnStack \cup {s}
  <2>1. 1 .. Len(stk') = 1 .. Len(stk) \cup {Len(stk) + 1}
    BY <1>2
  <2>2. \A x : x \in OnStack' <=> \E i \in 1 .. Len(stk') : x = stk'[i].v
    BY Zenon DEF OnStack
  <2>3. \A x : x \in OnStack <=> \E i \in 1 .. Len(stk) : x = stk[i].v
    BY Zenon DEF OnStack
  <2>4. \A x : x \in OnStack' <=> x \in OnStack \/ x = s
    <3>1. ASSUME NEW x, x \in OnStack' PROVE x \in OnStack \/ x = s
      BY <3>1, <2>1, <2>2, <2>3, <1>4
    <3>2. ASSUME NEW x, x \in OnStack PROVE x \in OnStack'
      BY <3>2, <2>1, <2>2, <2>3, <1>4
    <3>3. s \in OnStack'
      BY <2>1, <2>2, <1>4
    <3> QED
      BY <3>1, <3>2, <3>3
  <2> QED
    BY <2>4
<1>6. IsFiniteSet(OnStack)
  <2>1. 1 \in Int /\ Len(graph.nodes) \in Int
    BY DEF TypeOK, GraphOK
  <2>2. IsFiniteSet(1 .. Len(graph.nodes))
    BY <2>1, FS_Interval
  <2> QED
    BY <2>2, OnStackRange, FS_Subset DEF TypeOK, GraphOK
<1>7. Cardinality(OnStack') = Len(stk) + 1
  <2>1. Cardinality(OnStack \cup {s}) = Cardinality(OnStack) + 1
    BY <1>6, FS_AddElement
  <2>2. Cardinality(OnStack) = Len(stk)
    BY DEF Path
  <2> QED
    BY <2>1, <2>2, <1>5
<1>8. \A i \in 1 .. Len(stk) + 1 : Range(stk'[i].next) \subseteq Refers(graph, stk'[i].v)
  <2> SUFFICES ASSUME NEW i \in 1 .. Len(stk) + 1
               PROVE  Range(stk'[i].next) \subseteq Refers(graph, stk'[i].v)
    OBVIOUS
  <2>1. CASE i = Len(stk) + 1
    BY <2>1, <1>4 DEF Refers
  <2>2. CASE i \in 1 .. Len(stk)
    BY <2>2, <1>2, <1>4 DEF Path, Below
  <2>3. Len(stk) \in Nat
    BY OnStackRange
  <2>4. i = Len(stk) + 1 \/ i \in 1 .. Len(stk)
    BY <2>3
  <2> QED
    BY <2>1, <2>2, <2>4
<1>9. \A i \in 1 .. Len(stk') - 1 : stk'[i + 1].v \in Refers(graph, stk'[i].v)
  <2> SUFFICES ASSUME NEW i \in 1 .. Len(stk) PROVE stk'[i + 1].v \in Refers(graph, stk'[i].v)
    BY <1>2
  <2>1. CASE i = Len(stk)
    BY <2>1, <1>2, <1>4
  <2>2. CASE i # Len(stk)
    <3>1. i \in 1 .. Len(stk) - 1 /\ i + 1 \in 1 .. Len(stk)
      BY <2>2, OnStackRange
    <3>2. stk[i + 1].v \in Refers(graph, stk[i].v)
      BY Zenon, <3>1 DEF Path
    <3> QED
      BY Zenon, <3>1, <3>2, <1>4
  <2> QED
    BY <2>1, <2>2
<1>10. \A i \in 1 .. Len(stk) : stk[i].v # s
  BY DEF OnStack
<1>11. /\ \A i, j \in 1 .. Len(stk) + 1 : stk'[i].v = stk'[j].v => i = j
       /\ \A i \in 1 .. Len(stk) + 1 : stk'[i].v \notin reached
  <2>1. \A i \in 1 .. Len(stk) + 1 : i \in 1 .. Len(stk) \/ i = Len(stk) + 1
    BY <1>2
  <2> QED
    BY <2>1, <1>4, <1>10 DEF Path
<1>12. Path'
  <2>1. graph' = graph /\ reached' = reached
    OBVIOUS
  <2>2. Cardinality(OnStack') = Len(stk')
    BY Zenon, <1>2, <1>7
  <2> QED
    BY Zenon, <1>2, <1>8, <1>9, <1>11, <2>1, <2>2 DEF Path
<1> QED
  BY <1>2, <1>3, <1>12

(* The next successor of the top is taken. *)
LEMMA TakeSuccessor ==
    ASSUME TypeOK, Path, stk # <<>>, Last(stk).next # <<>>,
           NEW b, b = [stk EXCEPT ![Len(stk)].next = Tail(@)]
    PROVE  /\ Len(stk) \in Nat \ {0} /\ Below(b)
           /\ Head(Last(stk).next) \in Nat
           /\ Head(Last(stk).next) \in Refers(graph, stk[Len(stk)].v)
           /\ Range(stk[Len(stk)].next) = {Head(Last(stk).next)} \cup Range(b[Len(stk)].next)
           /\ \A i \in 1 .. Len(stk) - 1 : b[i] = stk[i]
<1> DEFINE n == Len(stk)
<1>1. n \in Nat \ {0} /\ stk[n] \in Frames /\ Last(stk) = stk[n]
  BY DEF TypeOK, Last
<1>2. stk[n].next \in Seq(Nat) /\ stk[n].next # <<>>
  BY <1>1 DEF Frames
<1>3. /\ Head(stk[n].next) \in Nat /\ Tail(stk[n].next) \in Seq(Nat)
      /\ Range(stk[n].next) = {Head(stk[n].next)} \cup Range(Tail(stk[n].next))
  BY <1>2, TakeFirst
<1> DEFINE top == [stk[n] EXCEPT !.next = Tail(@)]
<1>4. top \in Frames /\ top.v = stk[n].v /\ top.next = Tail(stk[n].next)
  BY <1>1, <1>3 DEF Frames
<1>5. b = [stk EXCEPT ![n] = top]
  OBVIOUS
<1> HIDE DEF top
<1>6. /\ b \in Seq(Frames) /\ Len(b) = n /\ b[n] = top
      /\ \A i \in 1 .. n - 1 : b[i] = stk[i]
  <2>1. stk \in Seq(Frames) /\ n \in 1 .. Len(stk)
    BY <1>1 DEF TypeOK
  <2> DEFINE c == [stk EXCEPT ![n] = top]
  <2>2. /\ c \in Seq(Frames) /\ Len(c) = Len(stk)
        /\ \A i \in 1 .. Len(stk) : c[i] = IF i = n THEN top ELSE stk[i]
    BY <2>1, <1>4, ExceptSeq
  <2>3. b = c
    BY <1>5
  <2> HIDE DEF c
  <2>4. \A i \in 1 .. n - 1 : i \in 1 .. Len(stk) /\ i # n
    BY <1>1
  <2>5. c \in Seq(Frames) /\ Len(c) = n /\ c[n] = top
    BY <2>1, <2>2
  <2>6. \A i \in 1 .. n - 1 : c[i] = stk[i]
    BY Zenon, <2>2, <2>4
  <2> QED
    BY Zenon, <2>3, <2>5, <2>6
<1>7. \A i \in 1 .. n : b[i].v = stk[i].v /\ Range(b[i].next) \subseteq Range(stk[i].next)
  BY <1>1, <1>3, <1>4, <1>6
<1>8. Below(b)
  BY <1>6, <1>7 DEF Below
<1>9. Head(stk[n].next) \in Refers(graph, stk[n].v)
  <2>1. Range(stk[n].next) \subseteq Refers(graph, stk[n].v)
    BY <1>1 DEF Path
  <2> QED
    BY <2>1, <1>3
<1> QED
  BY <1>1, <1>3, <1>4, <1>6, <1>8, <1>9

-----------------------------------------------------------------------------
(* While nothing is reported, a node passed over is done with. *)
LEMMA PassStep ==
    ASSUME IInv, NEW b, Below(b), NEW s \in Nat, stk' = b, roots' \in Seq(Nat),
           UNCHANGED <<graph, func, reached, done>>,
           errors' = {} => errors = {} /\ s \in reached,
           stk = <<>> \/ roots' = roots,
           Range(roots) \subseteq {s} \cup Range(roots'),
           \A i \in 1 .. Len(stk) : Range(stk[i].next) \subseteq {s} \cup Range(b[i].next),
           ~(stk = <<>> /\ roots = <<>>)
    PROVE  IInv'
<1>1. TypeOK' /\ Path'
  BY PassKeepsPath DEF IInv
<1>2. SUFFICES ASSUME errors' = {} PROVE Quiet'
  BY <1>1 DEF IInv
<1>3. Quiet /\ s \in reached
  BY <1>2 DEF IInv
<1>4. Len(stk') = Len(stk) /\ \A i \in 1 .. Len(stk) : stk'[i].v = stk[i].v
  BY DEF Below
<1>5. Len(stk) \in Nat /\ (stk # <<>> => Len(stk) # 0)
  BY OnStackRange DEF IInv, TypeOK
<1>6. \A i \in 1 .. Len(stk) : \A x \in Refers(graph, stk[i].v) :
         x \in reached \/ x \in Range(stk'[i].next) \/ (i < Len(stk) /\ stk'[i + 1].v = x)
  <2> SUFFICES ASSUME NEW i \in 1 .. Len(stk), NEW x \in Refers(graph, stk[i].v)
               PROVE  x \in reached \/ x \in Range(b[i].next)
                      \/ (i < Len(stk) /\ stk'[i + 1].v = x)
    OBVIOUS
  <2>1. x \in reached \/ x \in Range(stk[i].next) \/ (i < Len(stk) /\ stk[i + 1].v = x)
    BY <1>3 DEF Quiet, Accounted, Above
  <2>2. i < Len(stk) => i + 1 \in 1 .. Len(stk)
    BY <1>5
  <2>3. Range(stk[i].next) \subseteq {s} \cup Range(b[i].next)
    OBVIOUS
  <2>4. CASE i < Len(stk) /\ stk[i + 1].v = x
    BY <2>4, <2>2, <1>4
  <2> QED
    BY <2>1, <2>3, <2>4, <1>3
<1>7. \A x \in Range(Roots(graph, func)) :
         x \in reached \/ x \in Range(roots') \/ (stk' # <<>> /\ stk'[1].v = x)
  <2> SUFFICES ASSUME NEW x \in Range(Roots(graph, func)), stk # <<>>, stk[1].v = x
               PROVE  stk' # <<>> /\ stk'[1].v = x
    BY <1>3 DEF Quiet, Accounted
  <2>1. 1 \in 1 .. Len(stk)
    BY <1>5
  <2> QED
    BY <2>1, <1>4, <1>5 DEF Below
<1>8. Accounted'
  BY <1>4, <1>6, <1>7 DEF Accounted, Above
<1>9. ~done
  BY <1>3 DEF Quiet
<1> QED
  BY <1>3, <1>8, <1>9 DEF Quiet, Closed, NoCycle

(* All a node that is entered refers to is still to be visited. *)
LEMMA EnterStep ==
    ASSUME IInv, NEW b, Below(b), NEW s \in DOMAIN graph.nodes,
           s \notin reached, s \notin OnStack,
           stk # <<>> => s \in Refers(graph, stk[Len(stk)].v),
           stk' = Append(b, [v |-> s, next |-> Successors(graph, s)]),
           roots' \in Seq(Nat), errors' = errors,
           UNCHANGED <<graph, func, reached, done>>,
           stk = <<>> \/ roots' = roots,
           Range(roots) \subseteq {s} \cup Range(roots'),
           \A i \in 1 .. Len(stk) - 1 : b[i] = stk[i],
           stk # <<>> => Range(stk[Len(stk)].next) \subseteq {s} \cup Range(b[Len(stk)].next),
           ~(stk = <<>> /\ roots = <<>>)
    PROVE  IInv'
<1>1. /\ TypeOK' /\ Path'
      /\ Len(stk') = Len(stk) + 1
      /\ \A i \in 1 .. Len(stk) : stk'[i] = b[i]
      /\ stk'[Len(stk) + 1] = [v |-> s, next |-> Successors(graph, s)]
  BY EnterKeepsPath DEF IInv
<1>2. SUFFICES ASSUME errors = {} PROVE Quiet'
  BY <1>1 DEF IInv
<1>3. Quiet
  BY <1>2 DEF IInv
<1>4. /\ \A i \in 1 .. Len(stk) : stk'[i].v = stk[i].v
      /\ stk'[Len(stk) + 1].v = s /\ stk'[Len(stk) + 1].next = Successors(graph, s)
  BY <1>1 DEF Below
<1>5. Len(stk) \in Nat /\ (stk # <<>> <=> Len(stk) # 0)
  BY OnStackRange DEF IInv, TypeOK
<1>6. ASSUME NEW i \in 1 .. Len(stk) + 1, NEW x \in Refers(graph, stk'[i].v)
      PROVE  x \in reached \/ x \in Range(stk'[i].next)
             \/ (i < Len(stk) + 1 /\ stk'[i + 1].v = x)
  <2>1. CASE i = Len(stk) + 1
    BY <2>1, <1>4, <1>6 DEF Refers
  <2>2. CASE i = Len(stk)
    <3>0. Len(stk) # 0 /\ i \in 1 .. Len(stk)
      BY <2>2, <1>5
    <3>1. stk # <<>> /\ i \in 1 .. Len(stk) /\ x \in Refers(graph, stk[i].v)
      BY Zenon, <3>0, <1>4, <1>5, <1>6
    <3>a. Accounted
      BY <1>3 DEF Quiet
    <3>b. x \in reached \/ x \in Range(stk[i].next) \/ Above(i, x)
      BY Zenon, <3>a, <3>1 DEF Accounted
    <3>c. ~Above(i, x)
      BY <2>2, <1>5 DEF Above
    <3>2. x \in reached \/ x \in Range(stk[i].next)
      BY Zenon, <3>b, <3>c
    <3>3. x \in reached \/ x = s \/ x \in Range(b[i].next)
      BY <3>1, <3>2, <2>2
    <3> QED
      BY <3>1, <3>3, <2>2, <1>1, <1>4, <1>5
  <2>3. CASE i \in 1 .. Len(stk) - 1
    <3>1. /\ i \in 1 .. Len(stk) /\ i + 1 \in 1 .. Len(stk) /\ i < Len(stk) + 1
      BY <2>3, <1>5
    <3>2. x \in reached \/ x \in Range(stk[i].next) \/ stk[i + 1].v = x
      BY <3>1, <1>3, <1>4, <1>6 DEF Quiet, Accounted, Above
    <3>3. stk'[i] = stk[i] /\ stk'[i + 1].v = stk[i + 1].v
      BY <3>1, <2>3, <1>1, <1>4
    <3> QED
      BY <3>1, <3>2, <3>3
  <2>4. i \in 1 .. Len(stk) + 1 => i = Len(stk) + 1 \/ i = Len(stk) \/ i \in 1 .. Len(stk) - 1
    BY <1>5
  <2> QED
    BY <2>1, <2>2, <2>3, <2>4
<1>7. \A x \in Range(Roots(graph, func)) :
         x \in reached \/ x \in Range(roots') \/ (Len(stk') # 0 /\ stk'[1].v = x)
  <2> SUFFICES ASSUME NEW x \in Range(Roots(graph, func)), x \notin reached, x \notin Range(roots')
               PROVE  stk'[1].v = x
    BY <1>1, <1>5
  <2>1. CASE stk = <<>>
    BY <2>1, <1>3, <1>4 DEF Quiet, Accounted
  <2>2. CASE stk # <<>>
    <3>1. x \notin Range(roots)
      BY <2>2
    <3>a. Accounted
      BY <1>3 DEF Quiet
    <3>b. stk[1].v = x
      BY Zenon, <3>1, <3>a DEF Accounted
    <3>2. stk[1].v = x /\ 1 \in 1 .. Len(stk)
      BY <3>b, <1>5, <2>2
    <3> QED
      BY <3>2, <1>4
  <2> QED
    BY <2>1, <2>2
<1>8. stk' # <<>>
  BY <1>1, <1>5
<1>9. Accounted'
  <2>1. Len(stk') = Len(stk) + 1 /\ graph' = graph /\ reached' = reached
    BY <1>1
  <2>2. \A i \in 1 .. Len(stk') : \A x \in Refers(graph', stk'[i].v) :
           x \in reached' \/ x \in Range(stk'[i].next) \/ (i < Len(stk') /\ stk'[i + 1].v = x)
    BY Zenon, <1>6, <2>1
  <2>3. \A x \in Range(Roots(graph', func')) :
           x \in reached' \/ x \in Range(roots') \/ (stk' # <<>> /\ stk'[1].v = x)
    BY <1>7, <1>8
  <2> QED
    BY <2>2, <2>3 DEF Accounted, Above
<1>10. ~done
  BY <1>3 DEF Quiet
<1> QED
  BY <1>3, <1>9, <1>10 DEF Quiet, Closed, NoCycle

(* Looking at the next successor keeps the invariant. *)
LEMMA NextSuccessorStep == ASSUME IInv, NextSuccessor PROVE IInv'
<1> DEFINE s == Head(Last(stk).next)
           b == [stk EXCEPT ![Len(stk)].next = Tail(@)]
<1>1. /\ stk # <<>> /\ Last(stk).next # <<>> /\ Visit(s, b)
      /\ UNCHANGED <<graph, func, roots, reached, done>>
  BY DEF NextSuccessor
<1>2. /\ Len(stk) \in Nat \ {0} /\ Below(b) /\ s \in Nat
      /\ s \in Refers(graph, stk[Len(stk)].v)
      /\ Range(stk[Len(stk)].next) = {s} \cup Range(b[Len(stk)].next)
      /\ \A i \in 1 .. Len(stk) - 1 : b[i] = stk[i]
  BY <1>1, TakeSuccessor, Zenon DEF IInv
<1> HIDE DEF s, b
<1>3. roots' \in Seq(Nat) /\ Range(roots) \subseteq {s} \cup Range(roots')
  BY <1>1 DEF IInv, TypeOK
<1>4. \A i \in 1 .. Len(stk) : Range(stk[i].next) \subseteq {s} \cup Range(b[i].next)
  <2> SUFFICES ASSUME NEW i \in 1 .. Len(stk)
               PROVE  Range(stk[i].next) \subseteq {s} \cup Range(b[i].next)
    OBVIOUS
  <2>1. CASE i = Len(stk)
    BY <2>1, <1>2
  <2>2. CASE i \in 1 .. Len(stk) - 1
    BY <2>2, <1>2
  <2> QED
    BY <2>1, <2>2, <1>2
<1>5. \/ stk' = b /\ errors' # {}
      \/ stk' = b /\ errors' = errors /\ s \in reached
      \/ /\ s \in DOMAIN graph.nodes /\ s \notin reached /\ s \notin OnStack
         /\ stk' = Append(b, [v |-> s, next |-> Successors(graph, s)])
         /\ errors' = errors
  BY <1>1, <1>2, VisitCases DEF IInv
<1>6. CASE stk' = b /\ (errors' # {} \/ (errors' = errors /\ s \in reached))
  BY <1>1, <1>2, <1>3, <1>4, <1>6, PassStep
<1>7. CASE /\ s \in DOMAIN graph.nodes /\ s \notin reached /\ s \notin OnStack
           /\ stk' = Append(b, [v |-> s, next |-> Successors(graph, s)])
           /\ errors' = errors
  BY <1>1, <1>2, <1>3, <1>7, EnterStep
<1> QED
  BY <1>5, <1>6, <1>7

(* Starting from the next root keeps the invariant. *)
LEMMA BeginRootStep == ASSUME IInv, BeginRoot PROVE IInv'
<1> DEFINE s == Head(roots)
<1>1. /\ stk = <<>> /\ roots # <<>> /\ Visit(s, <<>>) /\ roots' = Tail(roots)
      /\ UNCHANGED <<graph, func, reached, done>>
  BY DEF BeginRoot
<1>2. s \in Nat /\ roots' \in Seq(Nat) /\ Range(roots) \subseteq {s} \cup Range(roots')
  BY <1>1, TakeFirst, Zenon DEF IInv, TypeOK
<1>3. Len(stk) = 0 /\ Below(<<>>) /\ 1 .. Len(stk) = {} /\ 1 .. Len(stk) - 1 = {}
  BY <1>1 DEF Below
<1> HIDE DEF s
<1>4. \/ stk' = <<>> /\ errors' # {}
      \/ stk' = <<>> /\ errors' = errors /\ s \in reached
      \/ /\ s \in DOMAIN graph.nodes /\ s \notin reached /\ s \notin OnStack
         /\ stk' = Append(<<>>, [v |-> s, next |-> Successors(graph, s)])
         /\ errors' = errors
  BY <1>1, <1>2, VisitCases DEF IInv
<1>5. CASE stk' = <<>> /\ (errors' # {} \/ (errors' = errors /\ s \in reached))
  BY <1>1, <1>2, <1>3, <1>5, PassStep, Zenon
<1>6. CASE /\ s \in DOMAIN graph.nodes /\ s \notin reached /\ s \notin OnStack
           /\ stk' = Append(<<>>, [v |-> s, next |-> Successors(graph, s)])
           /\ errors' = errors
  BY <1>1, <1>2, <1>3, <1>6, EnterStep, Zenon
<1> QED
  BY <1>4, <1>5, <1>6

(* A node is left when all it refers to has been: every set of nodes left   *)
(* that holds it has another last one, or it is the last itself.            *)
LEMMA NoCycleGrows ==
    ASSUME NoCycle, NEW x, \A v \in reached \cup {x} : x \notin Refers(graph, v),
           reached' = reached \cup {x}, graph' = graph
    PROVE  NoCycle'
<1>1. ASSUME NEW nodes \in SUBSET (reached \cup {x}), nodes # {}
      PROVE  \E v \in nodes : Refers(graph, v) \cap nodes = {}
  <2>1. CASE nodes \cap reached = {}
    <3>1. nodes = {x}
      BY <1>1, <2>1
    <3> QED
      BY <3>1
  <2>2. CASE nodes \cap reached # {}
    <3>1. PICK v \in nodes \cap reached : Refers(graph, v) \cap (nodes \cap reached) = {}
      BY <2>2 DEF NoCycle
    <3>2. x \notin Refers(graph, v)
      BY <3>1
    <3> QED
      BY <3>1, <3>2
  <2> QED
    BY <2>1, <2>2
<1> QED
  BY <1>1 DEF NoCycle

(* The stack without its last frame. *)
LEMMA Popped ==
    ASSUME TypeOK, stk # <<>>, stk' = SubSeq(stk, 1, Len(stk) - 1)
    PROVE  /\ stk' \in Seq(Frames) /\ Len(stk') = Len(stk) - 1
           /\ \A i \in 1 .. Len(stk) - 1 : stk'[i] = stk[i]
<1> DEFINE n == Len(stk)
<1>1. stk \in Seq(Frames) /\ n \in Nat \ {0}
  BY DEF TypeOK
<1>2. n - 1 - 1 + 1 = n - 1 /\ \A i \in 1 .. n - 1 : 1 + i - 1 = i
  BY <1>1
<1>3. /\ SubSeq(stk, 1, n - 1) \in Seq(Frames)
      /\ Len(SubSeq(stk, 1, n - 1)) = IF 1 <= n - 1 THEN n - 1 - 1 + 1 ELSE 0
      /\ \A i \in 1 .. n - 1 - 1 + 1 : SubSeq(stk, 1, n - 1)[i] = stk[1 + i - 1]
  BY <1>1, SubSeqProperties
<1>4. Len(stk') = n - 1
  <2>1. n \in Nat \ {0} => (IF 1 <= n - 1 THEN n - 1 - 1 + 1 ELSE 0) = n - 1
    <3> HIDE DEF n
    <3> QED
      OBVIOUS
  <2> QED
    BY Zenon, <1>1, <1>3, <2>1
<1>5. \A i \in 1 .. n - 1 : stk'[i] = stk[i]
  BY Zenon, <1>2, <1>3
<1> QED
  BY <1>3, <1>4, <1>5

(* Leaving a node keeps the invariant. *)
LEMMA LeaveNodeStep == ASSUME IInv, LeaveNode PROVE IInv'
<1> DEFINE n == Len(stk)
           x == stk[n].v
<1>1. /\ stk # <<>> /\ stk[n].next = <<>>
      /\ reached' = reached \cup {x} /\ stk' = SubSeq(stk, 1, n - 1)
      /\ UNCHANGED <<graph, func, roots, errors, done>>
  BY DEF LeaveNode, Last
<1>2. stk \in Seq(Frames) /\ n \in Nat \ {0}
  BY <1>1 DEF IInv, TypeOK
<1>3. /\ stk' \in Seq(Frames) /\ Len(stk') = n - 1
      /\ \A i \in 1 .. n - 1 : stk'[i] = stk[i]
  BY <1>1, Popped, Zenon DEF IInv
<1>4. /\ x \in DOMAIN graph.nodes /\ x \in OnStack /\ Range(stk[n].next) = {}
      /\ \A i \in 1 .. n - 1 : i \in 1 .. n /\ i # n
  <2>1. stk[n] \in Frames /\ n \in 1 .. Len(stk)
    BY <1>2
  <2>2. x \in DOMAIN graph.nodes /\ x \in OnStack
    BY <2>1 DEF Frames, OnStack
  <2>3. Range(stk[n].next) = {}
    BY <1>1 DEF Range
  <2>4. \A i \in 1 .. n - 1 : i \in 1 .. n /\ i # n
    BY <1>2
  <2> QED
    BY <2>2, <2>3, <2>4
<1> HIDE DEF n
<1>5. TypeOK'
  BY <1>1, <1>3, <1>4 DEF IInv, TypeOK, GraphOK, Frames
<1>6. \A i \in 1 .. n - 1 : stk[i].v # x /\ stk[i].v \notin reached
  BY <1>2, <1>4 DEF IInv, Path, n
<1>7. Cardinality(OnStack') = Len(stk')
  <2>1. OnStack' = OnStack \ {x}
    <3>1. ASSUME NEW y \in OnStack' PROVE y \in OnStack \ {x}
      <4>1. PICK i \in 1 .. n - 1 : y = stk'[i].v
        BY <1>3 DEF OnStack
      <4>2. y = stk[i].v /\ y # x
        BY Zenon, <4>1, <1>3, <1>6
      <4>3. i \in 1 .. Len(stk)
        BY Zenon, <4>1, <1>4 DEF n
      <4> QED
        BY Zenon, <4>2, <4>3 DEF OnStack
    <3>2. ASSUME NEW y \in OnStack \ {x} PROVE y \in OnStack'
      <4>1. PICK i \in 1 .. n : y = stk[i].v
        BY DEF OnStack, n
      <4>2. i \in 1 .. n - 1
        BY <4>1, <1>2
      <4> QED
        BY <4>1, <4>2, <1>3 DEF OnStack
    <3> QED
      BY <3>1, <3>2
  <2>2. IsFiniteSet(OnStack)
    <3>1. 1 \in Int /\ Len(graph.nodes) \in Int
      BY DEF IInv, TypeOK, GraphOK
    <3>2. IsFiniteSet(1 .. Len(graph.nodes))
      BY <3>1, FS_Interval
    <3> QED
      BY <3>2, OnStackRange, FS_Subset DEF IInv, TypeOK, GraphOK
  <2>3. Cardinality(OnStack \ {x}) = Cardinality(OnStack) - 1
    BY <2>2, <1>4, FS_RemoveElement
  <2>4. Cardinality(OnStack) = n
    BY DEF IInv, Path, n
  <2> QED
    BY <2>1, <2>3, <2>4, <1>3
<1>8. Path'
  <2>1. \A i \in 1 .. n - 1 : Range(stk'[i].next) \subseteq Refers(graph, stk'[i].v)
    BY <1>3, <1>4 DEF IInv, Path, n
  <2>2. \A i \in 1 .. n - 2 : stk'[i + 1].v \in Refers(graph, stk'[i].v)
    <3> SUFFICES ASSUME NEW i \in 1 .. n - 2 PROVE stk'[i + 1].v \in Refers(graph, stk'[i].v)
      OBVIOUS
    <3>1. i \in 1 .. n - 1 /\ i + 1 \in 1 .. n - 1
      BY <1>2
    <3> QED
      BY <3>1, <1>3 DEF IInv, Path, n
  <2>3. \A i, j \in 1 .. n - 1 : stk'[i].v = stk'[j].v => i = j
    BY <1>3, <1>4 DEF IInv, Path, n
  <2>4. \A i \in 1 .. n - 1 : stk'[i].v \notin reached'
    BY <1>1, <1>3, <1>6
  <2>5. Len(stk') - 1 = n - 2
    BY <1>2, <1>3
  <2> QED
    BY <2>1, <2>2, <2>3, <2>4, <2>5, <1>1, <1>3, <1>7 DEF Path
<1>9. SUFFICES ASSUME errors = {} PROVE Quiet'
  BY <1>1, <1>5, <1>8 DEF IInv
<1>10. Quiet
  BY <1>9 DEF IInv
<1>11. Refers(graph, x) \subseteq reached
  BY <1>2, <1>4, <1>10 DEF Quiet, Accounted, Above, n
<1>12. NoCycle' /\ Closed'
  <2>1. x \notin reached
    BY <1>2 DEF IInv, Path, n
  <2>2. \A v \in reached \cup {x} : x \notin Refers(graph, v)
    BY <2>1, <1>10, <1>11 DEF Quiet, Closed
  <2>3. Closed'
    BY <1>1, <1>10, <1>11 DEF Quiet, Closed
  <2> HIDE DEF x
  <2> QED
    BY <2>2, <2>3, <1>1, <1>10, NoCycleGrows DEF Quiet
<1>13. Accounted'
  <2>1. ASSUME NEW i \in 1 .. n - 1, NEW y \in Refers(graph, stk'[i].v)
        PROVE  y \in reached' \/ y \in Range(stk'[i].next) \/ (i < n - 1 /\ stk'[i + 1].v = y)
    <3>1. /\ y \in Refers(graph, stk[i].v) /\ stk'[i] = stk[i] /\ i \in 1 .. n
      BY <2>1, <1>3, <1>4
    <3>2. y \in reached \/ y \in Range(stk[i].next) \/ stk[i + 1].v = y
      BY <3>1, <1>10 DEF Quiet, Accounted, Above, n
    <3>3. CASE i = n - 1 /\ stk[i + 1].v = y
      BY <3>3, <1>1, <1>2
    <3>4. CASE i # n - 1 /\ stk[i + 1].v = y
      <4>1. i + 1 \in 1 .. n - 1 /\ i < n - 1
        BY <3>4, <1>2
      <4> QED
        BY <4>1, <3>4, <1>3
    <3> QED
      BY <3>1, <3>2, <3>3, <3>4, <1>1
  <2>2. ASSUME NEW y \in Range(Roots(graph, func))
        PROVE  y \in reached' \/ y \in Range(roots) \/ (stk' # <<>> /\ stk'[1].v = y)
    <3>1. y \in reached \/ y \in Range(roots) \/ stk[1].v = y
      BY <1>10 DEF Quiet, Accounted
    <3>2. CASE stk[1].v = y /\ n = 1
      BY <3>2, <1>1
    <3>3. CASE stk[1].v = y /\ n # 1
      <4>1. 1 \in 1 .. n - 1 /\ Len(stk') # 0
        BY <3>3, <1>2, <1>3
      <4> QED
        BY <4>1, <3>3, <1>3
    <3> QED
      BY <3>1, <3>2, <3>3, <1>1
  <2> QED
    BY <2>1, <2>2, <1>1, <1>3 DEF Accounted, Above
<1>14. ~done
  BY <1>1, <1>10 DEF Quiet
<1> QED
  BY <1>1, <1>12, <1>13, <1>14 DEF Quiet

(* The checks behind the walk keep the invariant. *)
LEMMA CheckStep == ASSUME IInv, Check PROVE IInv'
<1>1. /\ stk = <<>> /\ roots = <<>> /\ errors \subseteq errors'
      /\ UNCHANGED <<graph, func, roots, stk, reached>>
  BY DEF Check
<1>2. TypeOK' /\ Path'
  BY <1>1 DEF IInv, TypeOK, GraphOK, Frames, Path, OnStack
<1>3. ASSUME errors' = {} PROVE Quiet'
  <2>1. Quiet
    BY <1>1, <1>3 DEF IInv
  <2> QED
    BY <2>1, <1>1 DEF Quiet, Accounted, Above, Closed, NoCycle
<1> QED
  BY <1>2, <1>3 DEF IInv

(* The invariant speaks of the variables only. *)
LEMMA StutterStep == ASSUME IInv, UNCHANGED vars PROVE IInv'
<1>1. UNCHANGED <<graph, func, roots, stk, reached, errors, done>>
  BY DEF vars
<1>2. TypeOK' /\ Path'
  BY <1>1 DEF IInv, TypeOK, GraphOK, Frames, Path, OnStack
<1>3. Quiet' <=> Quiet
  BY <1>1 DEF Quiet, Accounted, Above, Closed, NoCycle
<1> QED
  BY <1>1, <1>2, <1>3 DEF IInv

(* The inductive invariant of the verifier's walk, for any set of graphs.   *)
THEOREM Invariance == Spec => []IInv
<1>1. ASSUME IInv, [Next]_vars PROVE IInv'
  <2>1. CASE BeginRoot
    BY <2>1, <1>1, BeginRootStep
  <2>2. CASE NextSuccessor
    BY <2>2, <1>1, NextSuccessorStep
  <2>3. CASE LeaveNode
    BY <2>3, <1>1, LeaveNodeStep
  <2>4. CASE Check
    BY <2>4, <1>1, CheckStep
  <2>5. CASE UNCHANGED vars
    BY <2>5, <1>1, StutterStep
  <2> QED
    BY <2>1, <2>2, <2>3, <2>4, <2>5, <1>1 DEF Next
<1> QED
  BY InitIInv, <1>1, PTL DEF Spec

(* Whatever graph the verifier is given: if it reports nothing, everything  *)
(* the function refers to exists, and no set of the nodes it reached has a  *)
(* way without end, so the back ends' recursions over it end.               *)
THEOREM AcceptedGraphsAreSound == Spec => []VerifiedIsSound
<1>1. IInv => VerifiedIsSound
  <2> SUFFICES ASSUME IInv, done, errors = {} PROVE WalkedAll /\ NoCycle
    BY DEF VerifiedIsSound
  <2>1. Quiet /\ stk = <<>> /\ roots = <<>>
    BY DEF IInv, Quiet
  <2>2. Range(roots) = {}
    BY <2>1 DEF Range
  <2>3. WalkedAll
    BY <2>1, <2>2 DEF WalkedAll, Quiet, Accounted, Closed, IInv, TypeOK
  <2> QED
    BY <2>1, <2>3 DEF Quiet
<1> QED
  BY Invariance, <1>1, PTL

(* The walk's stack is a path of distinct nodes and never outgrows the      *)
(* graph: the verifier does not overflow on shared or cyclic graphs.        *)
THEOREM StackNeverOutgrowsGraph == Spec => []StackIsPath
<1>1. IInv => StackIsPath
  <2> SUFFICES ASSUME IInv PROVE StackIsPath
    OBVIOUS
  <2>1. /\ 1 \in Int /\ Len(graph.nodes) \in Nat /\ DOMAIN graph.nodes = 1 .. Len(graph.nodes)
    BY DEF IInv, TypeOK, GraphOK
  <2>2. /\ IsFiniteSet(1 .. Len(graph.nodes))
        /\ Cardinality(1 .. Len(graph.nodes)) = Len(graph.nodes)
    <3> DEFINE m == Len(graph.nodes)
    <3>1. 1 \in Int /\ m \in Int
      BY <2>1
    <3> HIDE DEF m
    <3>2. /\ IsFiniteSet(1 .. m)
          /\ Cardinality(1 .. m) = IF 1 > m THEN 0 ELSE m - 1 + 1
      BY <3>1, FS_Interval
    <3>3. m \in Nat
      BY <2>1 DEF m
    <3>4. Cardinality(1 .. m) = m
      BY <3>2, <3>3
    <3> QED
      BY <3>2, <3>4 DEF m
  <2>3. Cardinality(OnStack) <= Len(graph.nodes)
    BY <2>1, <2>2, OnStackRange, FS_Subset DEF IInv
  <2>4. OnStack \cap reached = {}
    BY DEF IInv, Path, OnStack
  <2> QED
    BY <2>3, <2>4 DEF StackIsPath, IInv, Path
<1> QED
  BY Invariance, <1>1, PTL

-----------------------------------------------------------------------------
(* What the walk is to find out, as WellFormed defines it: the body of a    *)
(* function is what its roots lead to, and its endless part the largest set *)
(* whose members all refer to members.                                      *)
NumberedWorld(u) == Len(u.nodes) \in Nat /\ DOMAIN u.nodes = 1 .. Len(u.nodes)

WithReferred(u, nodes) == nodes \cup ((UNION {Refers(u, v) : v \in nodes}) \cap DOMAIN u.nodes)

GoesOn(u, nodes) == {v \in nodes : Refers(u, v) \cap nodes # {}}

HoldsBody(u, f, nodes) ==
    /\ Range(Roots(u, f)) \cap DOMAIN u.nodes \subseteq nodes
    /\ \A v \in nodes : Refers(u, v) \cap DOMAIN u.nodes \subseteq nodes

(* One step of the closure adds the nodes that its nodes refer to. *)
LEMMA WithReferredMembers ==
    ASSUME NEW u, NEW nodes, NEW s
    PROVE  s \in WithReferred(u, nodes)
           <=> s \in nodes \/ (s \in DOMAIN u.nodes /\ \E v \in nodes : s \in Refers(u, v))
<1> DEFINE each == {Refers(u, v) : v \in nodes}
<1>1. s \in UNION each <=> \E r \in each : s \in r
  OBVIOUS
<1>2. \A r : r \in each <=> \E v \in nodes : r = Refers(u, v)
  OBVIOUS
<1>3. WithReferred(u, nodes) = nodes \cup ((UNION each) \cap DOMAIN u.nodes)
  BY Zenon DEF WithReferred, each
<1> HIDE DEF each
<1>4. s \in UNION each <=> \E v \in nodes : s \in Refers(u, v)
  BY <1>1, <1>2
<1> QED
  BY <1>3, <1>4

(* A step function can be iterated as often as one likes. *)
LEMMA Iterates ==
    ASSUME NEW S, NEW base \in S, NEW step \in [S -> S]
    PROVE  \E c \in [Nat -> S] : c[0] = base /\ \A n \in Nat : c[n + 1] = step[c[n]]
<1> DEFINE turn == [x \in Nat \X S |-> step[x[2]]]
<1>1. base \in S /\ turn \in [Nat \X S -> S]
  OBVIOUS
<1>2. PICK c : Recurses(c, S, base, turn)
  <2> HIDE DEF turn
  <2> QED
    BY <1>1, RecursionExists
<1>3. c \in [Nat -> S] /\ c[0] = base /\ \A n \in Nat : c[n + 1] = turn[<<n, c[n]>>]
  BY <1>2 DEF Recurses
<1>4. ASSUME NEW n \in Nat PROVE c[n + 1] = step[c[n]]
  <2>1. <<n, c[n]>> \in Nat \X S /\ <<n, c[n]>>[2] = c[n]
    BY <1>3
  <2> QED
    BY <1>3, <2>1
<1> QED
  BY <1>3, <1>4

(* A recursion over 0 .. last defines the first elements of the iteration.  *)
LEMMA DefinesIterates ==
    ASSUME NEW c, NEW f, NEW last \in Nat, f[0] = c[0],
           \A n \in 1 .. last : f[n - 1] = c[n - 1] => f[n] = c[n]
    PROVE  f[last] = c[last]
<1> DEFINE first == 0
<1>1. first \in Nat /\ f[first] = c[first]
  OBVIOUS
<1>2. \A i \in first + 1 .. last : f[i - 1] = c[i - 1] => f[i] = c[i]
  OBVIOUS
<1>3. last \in first .. last
  OBVIOUS
<1> HIDE DEF first
<1>4. AgreeUpTo(f, c, first, last)
  BY <1>1, <1>2, Agreement
<1> QED
  BY <1>3, <1>4 DEF AgreeUpTo

(* Body, a recursive function, is the last of a chain of such steps. *)
LEMMA BodyUnfold ==
    ASSUME NEW u, NumberedWorld(u), NEW f
    PROVE  \E c \in [Nat -> SUBSET DOMAIN u.nodes] :
              /\ c[0] = Range(Roots(u, f)) \cap DOMAIN u.nodes
              /\ \A n \in Nat : c[n + 1] = WithReferred(u, c[n])
              /\ Body(u, f) = c[Len(u.nodes)]
<1> DEFINE N == DOMAIN u.nodes
           last == Len(u.nodes)
           base == Range(Roots(u, f)) \cap N
           step == [nodes \in SUBSET N |-> WithReferred(u, nodes)]
<1>1. base \in SUBSET N /\ step \in [SUBSET N -> SUBSET N] /\ last \in Nat
  <2>1. \A nodes \in SUBSET N : WithReferred(u, nodes) \in SUBSET N
    BY WithReferredMembers
  <2>2. base \in SUBSET N /\ last \in Nat
    BY DEF NumberedWorld
  <2> QED
    BY <2>1, <2>2
<1> DEFINE S == SUBSET N
<1>2. PICK c \in [Nat -> S] : c[0] = base /\ \A n \in Nat : c[n + 1] = step[c[n]]
  <2>1. base \in S /\ step \in [S -> S]
    BY <1>1
  <2> HIDE DEF S, base, step
  <2> QED
    BY <2>1, Iterates
<1>3. \A n \in Nat : c[n + 1] = WithReferred(u, c[n])
  BY <1>2
<1> DEFINE Recurs(h) == h = [n \in 0 .. last |->
               IF n = 0 THEN base ELSE LET before == h[n - 1] IN WithReferred(u, before)]
           h == [n \in 0 .. last |-> c[n]]
           by == CHOOSE h1 : Recurs(h1)
<1>4. ASSUME NEW n \in 1 .. last
      PROVE  n - 1 \in 0 .. last /\ n \in 0 .. last /\ n # 0 /\ c[n] = WithReferred(u, c[n - 1])
  <2>1. /\ n - 1 \in Nat /\ (n - 1) + 1 = n
        /\ n - 1 \in 0 .. last /\ n \in 0 .. last /\ n # 0
    BY <1>1
  <2>2. c[(n - 1) + 1] = WithReferred(u, c[n - 1])
    BY <1>3, <2>1, Zenon
  <2> QED
    BY <2>1, <2>2, Zenon
<1>5. Recurs(h)
  <2> SUFFICES ASSUME NEW n \in 0 .. last, n # 0 PROVE h[n] = WithReferred(u, h[n - 1])
    BY <1>2
  <2>1. n \in 1 .. last
    BY <1>1
  <2> QED
    BY <1>4, <2>1
<1>6. Recurs(by)
  <2> HIDE DEF Recurs, h
  <2> QED
    BY <1>5
<1>7. Body(u, f) = by[last]
  BY DEF Body, WithReferred
<1> HIDE DEF by
<1>8. by[0] = c[0]
  BY <1>1, <1>2, <1>6
<1>9. \A n \in 1 .. last : by[n - 1] = c[n - 1] => by[n] = c[n]
  <2> SUFFICES ASSUME NEW n \in 1 .. last, by[n - 1] = c[n - 1] PROVE by[n] = c[n]
    OBVIOUS
  <2>1. by[n] = WithReferred(u, by[n - 1])
    BY <1>4, <1>6
  <2> QED
    BY <1>4, <2>1
<1>10. by[last] = c[last]
  BY <1>1, <1>8, <1>9, DefinesIterates
<1> QED
  BY <1>2, <1>3, <1>7, <1>10

(* The body is closed under what its nodes refer to, *)
LEMMA BodyIsClosed ==
    ASSUME NEW u, NumberedWorld(u), NEW f
    PROVE  Body(u, f) \subseteq DOMAIN u.nodes /\ HoldsBody(u, f, Body(u, f))
<1>1. PICK c \in [Nat -> SUBSET DOMAIN u.nodes] :
              /\ c[0] = Range(Roots(u, f)) \cap DOMAIN u.nodes
              /\ \A n \in Nat : c[n + 1] = WithReferred(u, c[n])
              /\ Body(u, f) = c[Len(u.nodes)]
  BY BodyUnfold
<1> DEFINE N == DOMAIN u.nodes
           last == Len(u.nodes)
<1>2. last \in Nat /\ IsFiniteSet(N) /\ Cardinality(N) <= last
  <2>1. 1 \in Int /\ last \in Int /\ last \in Nat /\ N = 1 .. last
    BY DEF NumberedWorld
  <2> HIDE DEF last, N
  <2>2. IsFiniteSet(1 .. last) /\ Cardinality(1 .. last) = IF 1 > last THEN 0 ELSE last - 1 + 1
    BY <2>1, FS_Interval
  <2> QED
    BY <2>1, <2>2
<1>3. \A n \in Nat : c[n] \subseteq c[n + 1]
  BY <1>1 DEF WithReferred
<1>4. \A n \in Nat : c[n + 1] = c[n] => c[n + 2] = c[n + 1]
  <2> SUFFICES ASSUME NEW n \in Nat, c[n + 1] = c[n] PROVE c[n + 2] = c[n + 1]
    OBVIOUS
  <2>1. n + 1 \in Nat /\ (n + 1) + 1 = n + 2
    OBVIOUS
  <2>2. c[n + 2] = WithReferred(u, c[n + 1])
    BY <1>1, <2>1
  <2> QED
    BY <1>1, <2>2
<1>5. c[last + 1] = c[last]
  <2>1. c \in [Nat -> SUBSET N]
    BY <1>1
  <2> HIDE DEF N, last
  <2> QED
    BY <2>1, <1>2, <1>3, <1>4, GrowthStops, Zenon
<1>6. WithReferred(u, Body(u, f)) = Body(u, f)
  BY <1>1, <1>2, <1>5
<1>7. c[0] \subseteq c[last]
  <2> DEFINE T == {n \in Nat : c[0] \subseteq c[n]}
  <2>1. 0 \in T /\ \A n \in Nat : n \in T => n + 1 \in T
    BY <1>3
  <2> HIDE DEF T
  <2>2. Nat \subseteq T
    BY <2>1, SetInduction
  <2> QED
    BY <1>2, <2>2 DEF T
<1>8. Body(u, f) \subseteq DOMAIN u.nodes
  BY <1>1, <1>2
<1>9. Range(Roots(u, f)) \cap DOMAIN u.nodes \subseteq Body(u, f)
  BY <1>1, <1>7
<1>10. ASSUME NEW v \in Body(u, f), NEW s \in Refers(u, v) \cap DOMAIN u.nodes
       PROVE  s \in Body(u, f)
  <2>1. s \in WithReferred(u, Body(u, f))
    BY WithReferredMembers
  <2> QED
    BY <1>6, <2>1
<1> QED
  BY <1>8, <1>9, <1>10 DEF HoldsBody

(* and any set that is holds it. *)
LEMMA BodyIsLeast ==
    ASSUME NEW u, NumberedWorld(u), NEW f, NEW nodes, HoldsBody(u, f, nodes)
    PROVE  Body(u, f) \subseteq nodes
<1>1. PICK c \in [Nat -> SUBSET DOMAIN u.nodes] :
              /\ c[0] = Range(Roots(u, f)) \cap DOMAIN u.nodes
              /\ \A n \in Nat : c[n + 1] = WithReferred(u, c[n])
              /\ Body(u, f) = c[Len(u.nodes)]
  BY BodyUnfold
<1> DEFINE T == {n \in Nat : c[n] \subseteq nodes}
<1>2. 0 \in T
  BY <1>1 DEF HoldsBody
<1>3. ASSUME NEW n \in Nat, n \in T PROVE n + 1 \in T
  <2>1. ASSUME NEW s \in WithReferred(u, c[n]) PROVE s \in nodes
    <3>1. CASE s \in c[n]
      BY <1>3, <3>1
    <3>2. CASE s \notin c[n]
      <4>1. PICK v \in c[n] : s \in Refers(u, v) \cap DOMAIN u.nodes
        BY <3>2, <2>1, WithReferredMembers
      <4>2. v \in nodes
        BY <1>3
      <4> QED
        BY <4>1, <4>2 DEF HoldsBody
    <3> QED
      BY <3>1, <3>2
  <2> QED
    BY <1>1, <2>1
<1> HIDE DEF T
<1>4. Nat \subseteq T
  BY <1>2, <1>3, SetInduction
<1>5. Len(u.nodes) \in T
  BY <1>4 DEF NumberedWorld
<1> QED
  BY <1>1, <1>5 DEF T

(* Endless, a recursive function, is the last of a chain that drops, step by
   step, the nodes all of whose ways have left the set. *)
LEMMA EndlessUnfold ==
    ASSUME NEW u, NumberedWorld(u), NEW nodes
    PROVE  \E c \in [Nat -> SUBSET nodes] :
              /\ c[0] = nodes
              /\ \A n \in Nat : c[n + 1] = GoesOn(u, c[n])
              /\ Endless(u, nodes) = c[Len(u.nodes)]
<1> DEFINE S == SUBSET nodes
           last == Len(u.nodes)
           step == [some \in S |-> GoesOn(u, some)]
<1>1. nodes \in S /\ step \in [S -> S] /\ last \in Nat
  BY DEF GoesOn, NumberedWorld
<1>2. PICK c \in [Nat -> S] : c[0] = nodes /\ \A n \in Nat : c[n + 1] = step[c[n]]
  <2>1. nodes \in S /\ step \in [S -> S]
    BY <1>1
  <2> HIDE DEF S, step
  <2> QED
    BY <2>1, Iterates
<1>3. \A n \in Nat : c[n + 1] = GoesOn(u, c[n])
  BY <1>2
<1> DEFINE Recurs(h) == h = [n \in 0 .. last |->
               IF n = 0 THEN nodes ELSE LET before == h[n - 1] IN GoesOn(u, before)]
           h == [n \in 0 .. last |-> c[n]]
           left == CHOOSE h1 : Recurs(h1)
<1>4. ASSUME NEW n \in 1 .. last
      PROVE  n - 1 \in 0 .. last /\ n \in 0 .. last /\ n # 0 /\ c[n] = GoesOn(u, c[n - 1])
  <2>1. /\ n - 1 \in Nat /\ (n - 1) + 1 = n
        /\ n - 1 \in 0 .. last /\ n \in 0 .. last /\ n # 0
    BY <1>1
  <2>2. c[(n - 1) + 1] = GoesOn(u, c[n - 1])
    BY <1>3, <2>1, Zenon
  <2> QED
    BY <2>1, <2>2, Zenon
<1>5. Recurs(h)
  <2> SUFFICES ASSUME NEW n \in 0 .. last, n # 0 PROVE h[n] = GoesOn(u, h[n - 1])
    BY <1>2
  <2>1. n \in 1 .. last
    BY <1>1
  <2> QED
    BY <1>4, <2>1
<1>6. Recurs(left)
  <2> HIDE DEF Recurs, h
  <2> QED
    BY <1>5
<1>7. Endless(u, nodes) = left[last]
  BY DEF Endless, GoesOn
<1> HIDE DEF left
<1>8. left[0] = c[0]
  BY <1>1, <1>2, <1>6
<1>9. \A n \in 1 .. last : left[n - 1] = c[n - 1] => left[n] = c[n]
  <2> SUFFICES ASSUME NEW n \in 1 .. last, left[n - 1] = c[n - 1] PROVE left[n] = c[n]
    OBVIOUS
  <2>1. left[n] = GoesOn(u, left[n - 1])
    BY <1>4, <1>6
  <2> QED
    BY <1>4, <2>1
<1>10. left[last] = c[last]
  BY <1>1, <1>8, <1>9, DefinesIterates
<1> QED
  BY <1>2, <1>3, <1>7, <1>10

(* A set from whose nodes there is a way that never leaves it. *)
NoWayOut(u, nodes) == \A v \in nodes : Refers(u, v) \cap nodes # {}

(* The endless nodes have no way out, and hold all sets that have none. *)
LEMMA EndlessIsLargest ==
    ASSUME NEW u, NumberedWorld(u), NEW nodes \in SUBSET DOMAIN u.nodes
    PROVE  /\ Endless(u, nodes) \subseteq nodes /\ NoWayOut(u, Endless(u, nodes))
           /\ \A some \in SUBSET nodes : NoWayOut(u, some) => some \subseteq Endless(u, nodes)
<1>1. PICK c \in [Nat -> SUBSET nodes] :
              /\ c[0] = nodes
              /\ \A n \in Nat : c[n + 1] = GoesOn(u, c[n])
              /\ Endless(u, nodes) = c[Len(u.nodes)]
  BY EndlessUnfold
<1> DEFINE last == Len(u.nodes)
           gone == [n \in Nat |-> nodes \ c[n]]
<1>2. last \in Nat /\ IsFiniteSet(nodes) /\ Cardinality(nodes) <= last
  <2>1. 1 \in Int /\ last \in Int /\ last \in Nat /\ DOMAIN u.nodes = 1 .. last
    BY DEF NumberedWorld
  <2>2. nodes \in SUBSET (1 .. last)
    BY <2>1
  <2> HIDE DEF last
  <2>3. IsFiniteSet(1 .. last) /\ Cardinality(1 .. last) = IF 1 > last THEN 0 ELSE last - 1 + 1
    BY <2>1, FS_Interval
  <2>4. /\ IsFiniteSet(nodes) /\ Cardinality(nodes) <= Cardinality(1 .. last)
        /\ Cardinality(nodes) \in Nat
    BY <2>2, <2>3, FS_Subset, FS_CardinalityType
  <2> QED
    BY <2>1, <2>3, <2>4
<1>3. gone \in [Nat -> SUBSET nodes]
  OBVIOUS
<1>4. ASSUME NEW n \in Nat PROVE gone[n] \subseteq gone[n + 1]
  BY <1>1 DEF GoesOn
<1>5. ASSUME NEW n \in Nat, gone[n + 1] = gone[n] PROVE gone[n + 2] = gone[n + 1]
  <2>1. n + 1 \in Nat /\ (n + 1) + 1 = n + 2 /\ n + 2 \in Nat
    OBVIOUS
  <2>2. c[n] \in SUBSET nodes /\ c[n + 1] \in SUBSET nodes
    BY <2>1
  <2>3. c[n + 1] = c[n]
    BY <1>5, <2>1, <2>2
  <2>4. c[n + 2] = c[n + 1]
    BY <1>1, <2>1, <2>3
  <2> QED
    BY <2>1, <2>4
<1>6. gone[last + 1] = gone[last]
  <2> HIDE DEF gone, last
  <2> QED
    BY <1>2, <1>3, <1>4, <1>5, GrowthStops
<1>7. c[last + 1] = c[last]
  <2>1. last + 1 \in Nat /\ c[last + 1] \in SUBSET nodes /\ c[last] \in SUBSET nodes
    BY <1>2
  <2> QED
    BY <1>2, <1>6, <2>1
<1>8. Endless(u, nodes) \subseteq nodes /\ GoesOn(u, Endless(u, nodes)) = Endless(u, nodes)
  BY <1>1, <1>2, <1>7
<1>9. NoWayOut(u, Endless(u, nodes))
  <2> SUFFICES ASSUME NEW v \in Endless(u, nodes)
               PROVE  Refers(u, v) \cap Endless(u, nodes) # {}
    BY DEF NoWayOut
  <2>1. v \in GoesOn(u, Endless(u, nodes))
    BY <1>8
  <2> QED
    BY <2>1 DEF GoesOn
<1>10. ASSUME NEW some \in SUBSET nodes, NoWayOut(u, some)
       PROVE  some \subseteq Endless(u, nodes)
  <2> DEFINE T == {n \in Nat : some \subseteq c[n]}
  <2>1. 0 \in T
    BY <1>1
  <2>2. ASSUME NEW n \in Nat, n \in T PROVE n + 1 \in T
    <3>1. some \subseteq GoesOn(u, c[n])
      BY <2>2, <1>10 DEF NoWayOut, GoesOn
    <3> QED
      BY <1>1, <3>1
  <2> HIDE DEF T
  <2>3. Nat \subseteq T
    BY <2>1, <2>2, SetInduction
  <2>4. last \in T
    BY <1>2, <2>3
  <2> QED
    BY <1>1, <2>4 DEF T
<1> QED
  BY <1>8, <1>9, <1>10

-----------------------------------------------------------------------------
(* What the walk knows at any time, whatever it reported.                   *)
Seen == reached \cup OnStack

Met(s) == s \in Seen \/ (Dangles(graph, s) /\ "dangling" \in errors)

(* What was referred to so far has been met or is still to come. *)
NothingForgotten ==
    /\ Range(roots) \subseteq Range(Roots(graph, func))
    /\ \A s \in Range(Roots(graph, func)) : s \in Range(roots) \/ Met(s)
    /\ \A v \in reached : \A s \in Refers(graph, v) : Met(s)
    /\ \A i \in 1 .. Len(stk) : \A s \in Refers(graph, stk[i].v) :
            s \in Range(stk[i].next) \/ Met(s)

(* What was reported of the walk is true of the nodes seen. *)
ReportsAreTrue ==
    /\ "dangling" \in errors =>
          \E s : Dangles(graph, s) /\ (s \in Range(Roots(graph, func))
                                       \/ \E v \in Seen : s \in Refers(graph, v))
    /\ "cycle" \in errors =>
          \E nodes \in SUBSET Seen : nodes # {} /\ NoWayOut(graph, nodes)

(* As long as no cycle is reported, the nodes are left in an order in which *)
(* each comes after all it refers to.                                       *)
LeftInOrder ==
    /\ \A v \in reached : \A s \in Refers(graph, v) : s \in reached \/ Dangles(graph, s)
    /\ \A i \in 1 .. Len(stk) : \A s \in Refers(graph, stk[i].v) :
            s \in reached \/ s \in Range(stk[i].next) \/ Above(i, s) \/ Dangles(graph, s)
    /\ NoCycle

WalkErrors == {"dangling", "cycle"}

CheckErrors == RegionErrors(graph, reached) \cup LinearityErrors(graph, func, reached)

ReportsByStage ==
    /\ done => stk = <<>> /\ roots = <<>>
    /\ ~done => errors \subseteq WalkErrors
    /\ done => errors \subseteq WalkErrors \cup CheckErrors
    /\ done => CheckErrors \subseteq errors
    /\ Info(graph, func).result # NONE

Told ==
    /\ Seen \subseteq Body(graph, func)
    /\ \/ errors = {"no result"} /\ done /\ stk = <<>> /\ roots = <<>>
       \/ /\ NothingForgotten /\ ReportsAreTrue /\ ReportsByStage
          /\ "cycle" \notin errors => LeftInOrder

(* Before the walk nothing has been seen and nothing reported. *)
LEMMA InitTold == Init => Told
<1> SUFFICES ASSUME Init PROVE Told
  OBVIOUS
<1>1. stk = <<>> /\ reached = {} /\ OnStack = {} /\ 1 .. Len(stk) = {}
  <2>1. stk = <<>> /\ reached = {}
    BY Zenon DEF Init
  <2>2. 1 .. Len(stk) = {}
    BY <2>1
  <2> QED
    BY <2>1, <2>2 DEF OnStack
<1>2. CASE Info(graph, func).result = NONE
  BY <1>1, <1>2 DEF Init, Told, Seen
<1>3. CASE Info(graph, func).result # NONE
  <2>1. done = FALSE /\ errors = {} /\ roots = Roots(graph, func)
    BY <1>3, Zenon DEF Init
  <2>2. NothingForgotten
    BY <1>1, <2>1 DEF NothingForgotten
  <2>3. ReportsAreTrue /\ ReportsByStage
    BY <1>3, <2>1 DEF ReportsAreTrue, ReportsByStage
  <2>4. LeftInOrder
    BY <1>1 DEF LeftInOrder, NoCycle
  <2> QED
    BY <1>1, <2>2, <2>3, <2>4 DEF Told, Seen
<1> QED
  BY <1>2, <1>3

(* What the next node comes to, errors told apart. *)
LEMMA VisitTold ==
    ASSUME NEW s, NEW b, Visit(s, b)
    PROVE  \/ stk' = b /\ Dangles(graph, s) /\ errors' = errors \cup {"dangling"}
           \/ stk' = b /\ s \in reached /\ errors' = errors
           \/ stk' = b /\ s \in OnStack /\ errors' = errors \cup {"cycle"}
           \/ /\ s \in DOMAIN graph.nodes /\ s \notin reached /\ s \notin OnStack
              /\ stk' = Append(b, [v |-> s, next |-> Successors(graph, s)])
              /\ errors' = errors
BY DEF Visit, Enter, Dangles

(* A node the top of the stack refers to and that lies on it closes a cycle *)
LEMMA StackCycle ==
    ASSUME IInv, stk # <<>>, NEW s \in OnStack, s \in Refers(graph, stk[Len(stk)].v)
    PROVE  \E nodes \in SUBSET OnStack : nodes # {} /\ NoWayOut(graph, nodes)
<1> DEFINE n == Len(stk)
<1>1. n \in Nat \ {0} /\ Path
  BY DEF IInv, TypeOK
<1>2. PICK p \in 1 .. n : s = stk[p].v
  BY DEF OnStack
<1> DEFINE nodes == {stk[i].v : i \in p .. n}
<1>3. nodes # {} /\ nodes \subseteq OnStack
  <2>1. p .. n \subseteq 1 .. n /\ p \in p .. n
    BY <1>1
  <2> QED
    BY <2>1 DEF OnStack
<1>4. ASSUME NEW v \in nodes PROVE Refers(graph, v) \cap nodes # {}
  <2>1. PICK i \in p .. n : v = stk[i].v
    OBVIOUS
  <2>2. CASE i = n
    <3>1. p \in p .. n
      BY <1>1
    <3>2. s \in nodes
      BY <1>2, <3>1
    <3> QED
      BY <2>1, <2>2, <3>2
  <2>3. CASE i # n
    <3>1. i \in 1 .. n - 1 /\ i + 1 \in p .. n
      BY <1>1, <2>3
    <3>2. stk[i + 1].v \in Refers(graph, v)
      BY <1>1, <2>1, <3>1 DEF Path
    <3>3. stk[i + 1].v \in nodes
      BY <3>1
    <3> QED
      BY <3>2, <3>3
  <2> QED
    BY <2>2, <2>3
<1> HIDE DEF nodes
<1> QED
  BY <1>3, <1>4 DEF NoWayOut

(* The node that is taken from the stack or the roots, and what is left:    *)
(* the next stack has b below.                                              *)
Taken(s, b) ==
    /\ ~done /\ UNCHANGED <<graph, func, reached, done>>
    /\ Below(b) /\ s \in Nat
    /\ Range(roots) \subseteq {s} \cup Range(roots') /\ Range(roots') \subseteq Range(roots)
    /\ roots' \in Seq(Nat)
    /\ \A i \in 1 .. Len(stk) : Range(stk[i].next) \subseteq {s} \cup Range(b[i].next)
    /\ \A i \in 1 .. Len(stk) - 1 : b[i] = stk[i]
    /\ \/ stk = <<>> /\ s \in Range(roots)
       \/ stk # <<>> /\ s \in Refers(graph, stk[Len(stk)].v)

(* What the walk looks at next is a root or referred to by a node on the stack,
   and is in the body if it exists. *)
LEMMA TakenIsReferred ==
    ASSUME IInv, Told, NEW s, NEW b, Taken(s, b)
    PROVE  /\ NothingForgotten /\ ReportsAreTrue /\ ReportsByStage
           /\ "cycle" \notin errors => LeftInOrder
           /\ s \in Range(Roots(graph, func)) \/ \E v \in OnStack : s \in Refers(graph, v)
           /\ s \in DOMAIN graph.nodes => s \in Body(graph, func)
<1>1. /\ NothingForgotten /\ ReportsAreTrue /\ ReportsByStage
      /\ "cycle" \notin errors => LeftInOrder
  BY DEF Told, Taken
<1>2. s \in Range(Roots(graph, func)) \/ \E v \in OnStack : s \in Refers(graph, v)
  <2>1. CASE stk = <<>>
    BY <1>1, <2>1 DEF Taken, NothingForgotten
  <2>2. CASE stk # <<>>
    <3>1. Len(stk) \in 1 .. Len(stk)
      BY <2>2 DEF IInv, TypeOK
    <3>2. stk[Len(stk)].v \in OnStack /\ s \in Refers(graph, stk[Len(stk)].v)
      BY <2>2, <3>1 DEF Taken, OnStack
    <3> QED
      BY <3>2
  <2> QED
    BY <2>1, <2>2
<1>3. HoldsBody(graph, func, Body(graph, func)) /\ OnStack \subseteq Body(graph, func)
  <2>1. NumberedWorld(graph)
    BY DEF IInv, TypeOK, GraphOK, NumberedWorld
  <2> QED
    BY <2>1, BodyIsClosed DEF Told, Seen
<1>4. s \in DOMAIN graph.nodes => s \in Body(graph, func)
  BY <1>2, <1>3 DEF HoldsBody
<1> QED
  BY <1>1, <1>2, <1>4

(* A node that is passed over, with its error if it deserves one. *)
LEMMA PassTold ==
    ASSUME IInv, Told, NEW s, NEW b, Taken(s, b), stk' = b,
           \/ Dangles(graph, s) /\ errors' = errors \cup {"dangling"}
           \/ s \in reached /\ errors' = errors
           \/ s \in OnStack /\ errors' = errors \cup {"cycle"}
    PROVE  Told'
<1>1. /\ NothingForgotten /\ ReportsAreTrue /\ ReportsByStage
      /\ "cycle" \notin errors => LeftInOrder
      /\ s \in Range(Roots(graph, func)) \/ \E v \in OnStack : s \in Refers(graph, v)
  BY TakenIsReferred
<1>2. /\ Len(stk') = Len(stk) /\ \A i \in 1 .. Len(stk) : stk'[i].v = stk[i].v
      /\ graph' = graph /\ func' = func /\ reached' = reached /\ done' = done /\ ~done
      /\ \A i \in 1 .. Len(stk) : Range(stk[i].next) \subseteq {s} \cup Range(stk'[i].next)
      /\ Range(roots) \subseteq {s} \cup Range(roots') /\ Range(roots') \subseteq Range(roots)
  BY DEF Taken, Below
<1>3. OnStack' = OnStack /\ Seen' = Seen
  BY <1>2 DEF OnStack, Seen
<1>4. errors \subseteq errors' /\ errors' \subseteq errors \cup WalkErrors
  BY DEF WalkErrors
<1>5. \A x : Dangles(graph, x)' <=> Dangles(graph, x)
  BY <1>2 DEF Dangles
<1>6. \A x : Met(x) \/ x = s => Met(x)'
  <2>1. \A x : Met(x) => Met(x)'
    BY <1>2, <1>3, <1>4 DEF Met, Dangles
  <2>2. Met(s)'
    BY <1>2, <1>3 DEF Met, Dangles, Seen
  <2> QED
    BY <2>1, <2>2
<1> HIDE DEF OnStack, Seen, Met
<1>7. NothingForgotten'
  <2>1. Range(roots') \subseteq Range(Roots(graph, func))
    BY <1>1, <1>2 DEF NothingForgotten
  <2>2. \A x \in Range(Roots(graph, func)) : x \in Range(roots') \/ Met(x)'
    BY <1>1, <1>2, <1>6 DEF NothingForgotten
  <2>3. \A v \in reached : \A x \in Refers(graph, v) : Met(x)'
    BY <1>1, <1>6 DEF NothingForgotten
  <2>4. ASSUME NEW i \in 1 .. Len(stk), NEW x \in Refers(graph, stk[i].v)
        PROVE  x \in Range(stk'[i].next) \/ Met(x)'
    BY <1>1, <1>2, <1>6 DEF NothingForgotten
  <2> QED
    BY <1>2, <2>1, <2>2, <2>3, <2>4 DEF NothingForgotten
<1>8. ReportsAreTrue'
  <2>1. ASSUME "dangling" \in errors'
        PROVE  \E x : Dangles(graph, x) /\ (x \in Range(Roots(graph, func))
                                            \/ \E v \in Seen : x \in Refers(graph, v))
    <3>1. CASE "dangling" \in errors
      BY <1>1, <3>1 DEF ReportsAreTrue
    <3>2. CASE "dangling" \notin errors
      <4>1. Dangles(graph, s)
        BY <2>1, <3>2
      <4>2. OnStack \subseteq Seen
        BY DEF Seen
      <4> QED
        BY <1>1, <4>1, <4>2
    <3> QED
      BY <3>1, <3>2
  <2>2. ASSUME "cycle" \in errors'
        PROVE  \E nodes \in SUBSET Seen : nodes # {} /\ NoWayOut(graph, nodes)
    <3>1. CASE "cycle" \in errors
      BY <1>1, <3>1 DEF ReportsAreTrue
    <3>2. CASE "cycle" \notin errors
      <4>1. s \in OnStack
        BY <2>2, <3>2
      <4>2. stk # <<>>
        BY <4>1 DEF OnStack
      <4>3. s \in Refers(graph, stk[Len(stk)].v)
        BY <4>2 DEF Taken
      <4>4. \E nodes \in SUBSET OnStack : nodes # {} /\ NoWayOut(graph, nodes)
        BY <4>1, <4>2, <4>3, StackCycle
      <4>5. OnStack \subseteq Seen
        BY DEF Seen
      <4> QED
        BY <4>4, <4>5
    <3> QED
      BY <3>1, <3>2
  <2> QED
    BY <1>2, <1>3, <2>1, <2>2 DEF ReportsAreTrue, Dangles
<1>9. ReportsByStage'
  BY <1>1, <1>2, <1>4 DEF ReportsByStage
<1>10. ASSUME "cycle" \notin errors' PROVE LeftInOrder'
  <2>1. LeftInOrder /\ (Dangles(graph, s) \/ s \in reached)
    BY <1>1, <1>10
  <2>2. ASSUME NEW i \in 1 .. Len(stk), NEW x \in Refers(graph, stk[i].v)
        PROVE  \/ x \in reached \/ x \in Range(stk'[i].next)
               \/ (i < Len(stk') /\ stk'[i + 1].v = x) \/ Dangles(graph, x)
    <3>1. x \in reached \/ x \in Range(stk[i].next) \/ Above(i, x) \/ Dangles(graph, x)
      BY <2>1 DEF LeftInOrder
    <3>2. CASE x \in Range(stk[i].next)
      BY <1>2, <2>1, <3>2
    <3>3. CASE Above(i, x)
      <4>1. i < Len(stk') /\ i + 1 \in 1 .. Len(stk) /\ stk[i + 1].v = x
        BY <1>2, <3>3, OnStackRange DEF Above, IInv
      <4> QED
        BY <1>2, <4>1
    <3> QED
      BY <3>1, <3>2, <3>3
  <2>3. \A v \in reached : \A x \in Refers(graph, v) : x \in reached \/ Dangles(graph, x)
    BY <2>1 DEF LeftInOrder
  <2>4. NoCycle'
    BY <1>2, <2>1 DEF LeftInOrder, NoCycle
  <2> QED
    BY <1>2, <2>2, <2>3, <2>4 DEF LeftInOrder, Above, Dangles
<1>11. Seen' \subseteq Body(graph', func')
  BY <1>2, <1>3 DEF Told
<1> QED
  BY <1>7, <1>8, <1>9, <1>10, <1>11 DEF Told

(* A node that is entered. *)
LEMMA EnterTold ==
    ASSUME IInv, Told, NEW s, NEW b, Taken(s, b),
           s \in DOMAIN graph.nodes, s \notin reached, s \notin OnStack,
           stk' = Append(b, [v |-> s, next |-> Successors(graph, s)]), errors' = errors
    PROVE  Told'
<1>1. /\ NothingForgotten /\ ReportsAreTrue /\ ReportsByStage
      /\ "cycle" \notin errors => LeftInOrder
      /\ s \in Range(Roots(graph, func)) \/ \E v \in OnStack : s \in Refers(graph, v)
      /\ s \in Body(graph, func)
  BY TakenIsReferred
<1>2. /\ graph' = graph /\ func' = func /\ reached' = reached /\ done' = done /\ ~done
      /\ Range(roots) \subseteq {s} \cup Range(roots') /\ Range(roots') \subseteq Range(roots)
      /\ \A i \in 1 .. Len(stk) : Range(stk[i].next) \subseteq {s} \cup Range(b[i].next)
      /\ \A i \in 1 .. Len(stk) : b[i].v = stk[i].v
      /\ roots' \in Seq(Nat) /\ UNCHANGED <<graph, func, reached>>
      /\ Below(b) /\ (stk # <<>> => s \in Refers(graph, stk[Len(stk)].v))
  BY DEF Taken, Below
<1>3. /\ Len(stk') = Len(stk) + 1 /\ Len(stk) \in Nat
      /\ \A i \in 1 .. Len(stk) : stk'[i] = b[i]
      /\ stk'[Len(stk) + 1].v = s
      /\ Range(stk'[Len(stk) + 1].next) = Refers(graph, s)
  <2>1. /\ Len(stk') = Len(stk) + 1
        /\ \A i \in 1 .. Len(stk) : stk'[i] = b[i]
        /\ stk'[Len(stk) + 1] = [v |-> s, next |-> Successors(graph, s)]
    BY <1>2, EnterKeepsPath DEF IInv
  <2> QED
    BY <2>1, OnStackRange DEF IInv, Refers
<1>4. ASSUME NEW i \in 1 .. Len(stk') PROVE i = Len(stk) + 1 \/ i \in 1 .. Len(stk)
  BY <1>3
<1>5. OnStack' = OnStack \cup {s}
  <2>1. ASSUME NEW x \in OnStack' PROVE x \in OnStack \cup {s}
    <3>1. PICK i \in 1 .. Len(stk') : x = stk'[i].v
      BY DEF OnStack
    <3> QED
      BY <1>2, <1>3, <1>4, <3>1 DEF OnStack
  <2>2. ASSUME NEW x \in OnStack PROVE x \in OnStack'
    <3>1. PICK i \in 1 .. Len(stk) : x = stk[i].v
      BY DEF OnStack
    <3>2. i \in 1 .. Len(stk') /\ x = stk'[i].v
      BY <1>2, <1>3, <3>1
    <3> QED
      BY <3>2 DEF OnStack
  <2>3. s \in OnStack'
    <3>1. Len(stk) + 1 \in 1 .. Len(stk')
      BY <1>3
    <3> QED
      BY <1>3, <3>1 DEF OnStack
  <2> QED
    BY <2>1, <2>2, <2>3
<1>6. Seen' = Seen \cup {s}
  BY <1>2, <1>5 DEF Seen
<1>7. \A x : Met(x) \/ x = s => Met(x)'
  BY <1>2, <1>6 DEF Met, Dangles
<1> HIDE DEF OnStack, Seen, Met
<1>8. NothingForgotten'
  <2>1. Range(roots') \subseteq Range(Roots(graph, func))
    BY <1>1, <1>2 DEF NothingForgotten
  <2>2. \A x \in Range(Roots(graph, func)) : x \in Range(roots') \/ Met(x)'
    BY <1>1, <1>2, <1>7 DEF NothingForgotten
  <2>3. \A v \in reached : \A x \in Refers(graph, v) : Met(x)'
    BY <1>1, <1>7 DEF NothingForgotten
  <2>4. ASSUME NEW i \in 1 .. Len(stk'), NEW x \in Refers(graph, stk'[i].v)
        PROVE  x \in Range(stk'[i].next) \/ Met(x)'
    <3>1. CASE i = Len(stk) + 1
      BY <1>3, <2>4, <3>1
    <3>2. CASE i \in 1 .. Len(stk)
      <4>1. x \in Refers(graph, stk[i].v) /\ stk'[i] = b[i]
        BY <1>2, <1>3, <2>4, <3>2
      <4>2. x \in Range(stk[i].next) \/ Met(x)
        BY <1>1, <3>2, <4>1 DEF NothingForgotten
      <4> QED
        BY <1>2, <1>7, <3>2, <4>1, <4>2
    <3> QED
      BY <1>4, <3>1, <3>2
  <2> QED
    BY <1>2, <2>1, <2>2, <2>3, <2>4 DEF NothingForgotten
<1>9. ReportsAreTrue'
  <2>1. Seen \subseteq Seen' /\ SUBSET Seen \subseteq SUBSET Seen'
    BY <1>6
  <2>2. "dangling" \in errors =>
          \E x : Dangles(graph, x) /\ (x \in Range(Roots(graph, func))
                                       \/ \E v \in Seen' : x \in Refers(graph, v))
    BY <1>1, <2>1 DEF ReportsAreTrue
  <2>3. "cycle" \in errors =>
          \E nodes \in SUBSET Seen' : nodes # {} /\ NoWayOut(graph, nodes)
    BY <1>1, <2>1 DEF ReportsAreTrue
  <2> QED
    BY <1>2, <2>2, <2>3 DEF ReportsAreTrue, Dangles
<1>10. ReportsByStage'
  BY <1>1, <1>2 DEF ReportsByStage
<1>11. ASSUME "cycle" \notin errors' PROVE LeftInOrder'
  <2>1. LeftInOrder
    BY <1>1, <1>11
  <2>2. ASSUME NEW i \in 1 .. Len(stk'), NEW x \in Refers(graph, stk'[i].v)
        PROVE  \/ x \in reached \/ x \in Range(stk'[i].next)
               \/ (i < Len(stk') /\ stk'[i + 1].v = x) \/ Dangles(graph, x)
    <3>1. CASE i = Len(stk) + 1
      BY <1>3, <2>2, <3>1
    <3>2. CASE i \in 1 .. Len(stk)
      <4>1. x \in Refers(graph, stk[i].v) /\ stk'[i] = b[i]
        BY <1>2, <1>3, <2>2, <3>2
      <4>2. x \in reached \/ x \in Range(stk[i].next) \/ Above(i, x) \/ Dangles(graph, x)
        BY <2>1, <3>2, <4>1 DEF LeftInOrder
      <4>3. CASE x \in Range(stk[i].next)
        <5>1. x = s \/ x \in Range(stk'[i].next)
          BY <1>2, <3>2, <4>1, <4>3
        <5>2. CASE x = s /\ i = Len(stk)
          BY <1>3, <5>2
        <5>3. CASE i # Len(stk)
          <6>1. i \in 1 .. Len(stk) - 1
            BY <1>3, <3>2, <5>3
          <6>2. b[i] = stk[i]
            BY <6>1 DEF Taken
          <6> QED
            BY <4>1, <4>3, <6>2
        <5> QED
          BY <5>1, <5>2, <5>3
      <4>4. CASE Above(i, x)
        <5>1. i < Len(stk') /\ i + 1 \in 1 .. Len(stk) /\ stk[i + 1].v = x
          BY <1>3, <3>2, <4>4 DEF Above
        <5>2. stk'[i + 1].v = x
          BY <1>2, <1>3, <5>1
        <5> QED
          BY <5>1, <5>2
      <4> QED
        BY <4>1, <4>2, <4>3, <4>4
    <3> QED
      BY <1>4, <3>1, <3>2
  <2>3. \A v \in reached : \A x \in Refers(graph, v) : x \in reached \/ Dangles(graph, x)
    BY <2>1 DEF LeftInOrder
  <2>4. NoCycle'
    BY <1>2, <2>1 DEF LeftInOrder, NoCycle
  <2> QED
    BY <1>2, <2>2, <2>3, <2>4 DEF LeftInOrder, Above, Dangles
<1>12. Seen' \subseteq Body(graph', func')
  BY <1>1, <1>2, <1>6 DEF Told
<1> QED
  BY <1>8, <1>9, <1>10, <1>11, <1>12 DEF Told

(* Looking at a node, whatever is found, keeps what the reports say true and
   complete. *)
LEMMA VisitKeepsTold ==
    ASSUME IInv, Told, NEW s, NEW b, Taken(s, b), Visit(s, b)
    PROVE  Told'
<1>1. \/ stk' = b /\ Dangles(graph, s) /\ errors' = errors \cup {"dangling"}
      \/ stk' = b /\ s \in reached /\ errors' = errors
      \/ stk' = b /\ s \in OnStack /\ errors' = errors \cup {"cycle"}
      \/ /\ s \in DOMAIN graph.nodes /\ s \notin reached /\ s \notin OnStack
         /\ stk' = Append(b, [v |-> s, next |-> Successors(graph, s)])
         /\ errors' = errors
  BY VisitTold
<1>2. CASE stk' = b
  <2>1. \/ Dangles(graph, s) /\ errors' = errors \cup {"dangling"}
        \/ s \in reached /\ errors' = errors
        \/ s \in OnStack /\ errors' = errors \cup {"cycle"}
    <3>1. Len(b) = Len(stk) /\ Len(stk) \in Nat /\ b \in Seq(Frames)
      BY OnStackRange DEF Taken, Below, IInv
    <3>2. b # Append(b, [v |-> s, next |-> Successors(graph, s)])
      BY <3>1
    <3> QED
      BY <1>1, <1>2, <3>2
  <2> QED
    BY <1>2, <2>1, PassTold
<1>3. CASE /\ s \in DOMAIN graph.nodes /\ s \notin reached /\ s \notin OnStack
           /\ stk' = Append(b, [v |-> s, next |-> Successors(graph, s)])
           /\ errors' = errors
  BY <1>3, EnterTold
<1> QED
  BY <1>1, <1>2, <1>3

(* So it is kept by the next successor of the last node on the stack, *)
LEMMA NextSuccessorTold == ASSUME IInv, Told, NextSuccessor PROVE Told'
<1> DEFINE s == Head(Last(stk).next)
           b == [stk EXCEPT ![Len(stk)].next = Tail(@)]
<1>1. /\ stk # <<>> /\ Last(stk).next # <<>> /\ Visit(s, b)
      /\ UNCHANGED <<graph, func, roots, reached, done>>
  BY DEF NextSuccessor
<1>2. /\ Len(stk) \in Nat \ {0} /\ Below(b) /\ s \in Nat
      /\ s \in Refers(graph, stk[Len(stk)].v)
      /\ Range(stk[Len(stk)].next) = {s} \cup Range(b[Len(stk)].next)
      /\ \A i \in 1 .. Len(stk) - 1 : b[i] = stk[i]
  BY <1>1, TakeSuccessor, Zenon DEF IInv
<1> HIDE DEF s, b
<1>3. roots' \in Seq(Nat) /\ roots' = roots /\ ~done
  BY <1>1 DEF IInv, TypeOK, Told, ReportsByStage
<1>4. ASSUME NEW i \in 1 .. Len(stk)
      PROVE  Range(stk[i].next) \subseteq {s} \cup Range(b[i].next)
  <2>1. CASE i = Len(stk)
    BY <2>1, <1>2
  <2>2. CASE i \in 1 .. Len(stk) - 1
    BY <2>2, <1>2
  <2> QED
    BY <2>1, <2>2, <1>2
<1>5. Taken(s, b)
  BY <1>1, <1>2, <1>3, <1>4 DEF Taken
<1> QED
  BY <1>1, <1>5, VisitKeepsTold

(* by the next root, *)
LEMMA BeginRootTold == ASSUME IInv, Told, BeginRoot PROVE Told'
<1> DEFINE s == Head(roots)
<1>1. /\ stk = <<>> /\ roots # <<>> /\ Visit(s, <<>>) /\ roots' = Tail(roots)
      /\ UNCHANGED <<graph, func, reached, done>>
  BY DEF BeginRoot
<1>2. s \in Nat /\ roots' \in Seq(Nat) /\ Range(roots) = {s} \cup Range(roots')
  BY <1>1, TakeFirst, Zenon DEF IInv, TypeOK
<1>3. Len(stk) = 0 /\ Below(<<>>) /\ 1 .. Len(stk) = {} /\ 1 .. Len(stk) - 1 = {}
  BY <1>1 DEF Below
<1>4. ~done
  BY <1>1 DEF Told, ReportsByStage
<1> HIDE DEF s
<1>5. Taken(s, <<>>)
  BY <1>1, <1>2, <1>3, <1>4, Zenon DEF Taken
<1> QED
  BY <1>1, <1>5, VisitKeepsTold

(* A node is left: what was on the stack has been reached. *)
LEMMA LeaveNodeTold == ASSUME IInv, Told, LeaveNode, TypeOK' PROVE Told'
<1> DEFINE n == Len(stk)
           x == stk[n].v
<1>1. /\ stk # <<>> /\ stk[n].next = <<>>
      /\ reached' = reached \cup {x} /\ stk' = SubSeq(stk, 1, n - 1)
      /\ UNCHANGED <<graph, func, roots, errors, done>>
  BY DEF LeaveNode, Last
<1>2. stk \in Seq(Frames) /\ n \in Nat \ {0} /\ Path
  BY <1>1 DEF IInv, TypeOK
<1>3. Len(stk') = n - 1 /\ \A i \in 1 .. n - 1 : stk'[i] = stk[i] /\ i \in 1 .. n /\ i # n
  <2>1. Len(stk') = n - 1 /\ \A i \in 1 .. n - 1 : stk'[i] = stk[i]
    BY <1>1, Popped, Zenon DEF IInv
  <2>2. \A i \in 1 .. n - 1 : i \in 1 .. n /\ i # n
    BY <1>2
  <2> QED
    BY <2>1, <2>2
<1>4. /\ ~done /\ NothingForgotten /\ ReportsAreTrue /\ ReportsByStage
      /\ "cycle" \notin errors => LeftInOrder
  BY <1>1 DEF Told, ReportsByStage
<1>5. n \in 1 .. n /\ x \in OnStack /\ Range(stk[n].next) = {} /\ x \in DOMAIN graph.nodes
      /\ x \notin reached
  <2>1. n \in 1 .. n /\ stk[n] \in Frames
    BY <1>2
  <2>2. x \in OnStack /\ x \in DOMAIN graph.nodes
    BY <2>1 DEF OnStack, Frames
  <2>3. Range(stk[n].next) = {}
    BY <1>1 DEF Range
  <2>4. x \notin reached
    BY <1>2, <2>1 DEF Path
  <2> QED
    BY <2>1, <2>2, <2>3, <2>4
<1>6. OnStack' \cup {x} = OnStack
  <2>1. ASSUME NEW y \in OnStack' PROVE y \in OnStack
    <3>1. PICK i \in 1 .. n - 1 : y = stk'[i].v
      BY <1>3 DEF OnStack
    <3> QED
      BY <1>3, <3>1 DEF OnStack
  <2>2. ASSUME NEW y \in OnStack, y # x PROVE y \in OnStack'
    <3>1. PICK i \in 1 .. n : y = stk[i].v
      BY DEF OnStack
    <3>2. i \in 1 .. n - 1
      BY <1>2, <2>2, <3>1
    <3> QED
      BY <1>3, <3>1, <3>2 DEF OnStack
  <2> QED
    BY <1>5, <2>1, <2>2
<1>7. Seen' = Seen
  BY <1>1, <1>6 DEF Seen
<1>8. \A y : Met(y)' <=> Met(y)
  BY <1>1, <1>7 DEF Met, Dangles
<1> HIDE DEF n
<1>9. NothingForgotten'
  <2>1. \A y \in Range(Roots(graph, func)) : y \in Range(roots) \/ Met(y)'
    BY <1>4, <1>8 DEF NothingForgotten
  <2>2. ASSUME NEW v \in reached', NEW y \in Refers(graph, v) PROVE Met(y)'
    <3>1. CASE v = x
      <4>1. y \in Range(stk[n].next) \/ Met(y)
        BY <1>4, <1>5, <2>2, <3>1 DEF NothingForgotten, n
      <4> QED
        BY <1>5, <1>8, <4>1
    <3>2. CASE v \in reached
      BY <1>4, <1>8, <2>2, <3>2 DEF NothingForgotten
    <3> QED
      BY <1>1, <3>1, <3>2
  <2>3. ASSUME NEW i \in 1 .. n - 1, NEW y \in Refers(graph, stk'[i].v)
        PROVE  y \in Range(stk'[i].next) \/ Met(y)'
    BY <1>3, <1>4, <1>8, <2>3 DEF NothingForgotten, n
  <2> QED
    BY <1>1, <1>3, <1>4, <2>1, <2>2, <2>3 DEF NothingForgotten
<1>10. ReportsAreTrue'
  BY <1>1, <1>4, <1>7 DEF ReportsAreTrue, Dangles
<1>11. ReportsByStage'
  BY <1>1, <1>4 DEF ReportsByStage
<1>12. ASSUME "cycle" \notin errors PROVE LeftInOrder'
  <2>1. LeftInOrder
    BY <1>4, <1>12
  <2>2. ASSUME NEW y \in Refers(graph, x) PROVE y \in reached \/ Dangles(graph, y)
    <3>1. ~Above(n, y)
      BY <1>2 DEF Above, n
    <3> QED
      BY <1>5, <2>1, <2>2, <3>1 DEF LeftInOrder, n
  <2>3. \A v \in reached' : \A y \in Refers(graph, v) : y \in reached' \/ Dangles(graph, y)
    BY <1>1, <2>1, <2>2 DEF LeftInOrder
  <2>4. ASSUME NEW i \in 1 .. n - 1, NEW y \in Refers(graph, stk'[i].v)
        PROVE  \/ y \in reached' \/ y \in Range(stk'[i].next)
               \/ (i < n - 1 /\ stk'[i + 1].v = y) \/ Dangles(graph, y)
    <3>1. stk'[i] = stk[i] /\ i \in 1 .. n /\ y \in Refers(graph, stk[i].v)
      BY <1>3, <2>4
    <3>2. y \in reached \/ y \in Range(stk[i].next) \/ Above(i, y) \/ Dangles(graph, y)
      BY <2>1, <3>1 DEF LeftInOrder, n
    <3>3. CASE Above(i, y) /\ i = n - 1
      BY <1>1, <1>2, <3>3 DEF Above
    <3>4. CASE Above(i, y) /\ i # n - 1
      <4>1. i + 1 \in 1 .. n - 1 /\ i < n - 1
        BY <1>2, <3>4
      <4> QED
        BY <1>3, <3>4, <4>1 DEF Above
    <3> QED
      BY <1>1, <3>1, <3>2, <3>3, <3>4
  <2>5. NoCycle'
    <3>1. \A v \in reached \cup {x} : x \notin Refers(graph, v)
      BY <1>5, <2>1, <2>2 DEF LeftInOrder, Dangles
    <3> HIDE DEF x
    <3> QED
      BY <1>1, <2>1, <3>1, NoCycleGrows DEF LeftInOrder
  <2> QED
    BY <1>1, <1>3, <2>3, <2>4, <2>5 DEF LeftInOrder, Above, Dangles
<1>13. Seen' \subseteq Body(graph', func')
  BY <1>1, <1>7 DEF Told
<1> QED
  BY <1>1, <1>9, <1>10, <1>11, <1>12, <1>13 DEF Told

(* by the checks behind the walk, *)
LEMMA CheckTold == ASSUME IInv, Told, Check PROVE Told'
<1>1. /\ stk = <<>> /\ roots = <<>> /\ ~done /\ done' = TRUE
      /\ errors' = errors \cup CheckErrors
      /\ UNCHANGED <<graph, func, roots, stk, reached>>
  BY DEF Check, CheckErrors
<1>2. /\ NothingForgotten /\ ReportsAreTrue /\ ReportsByStage
      /\ "cycle" \notin errors => LeftInOrder
  BY <1>1 DEF Told
<1>3. "dangling" \notin CheckErrors /\ "cycle" \notin CheckErrors
  BY DEF CheckErrors, RegionErrors, LinearityErrors
<1>4. OnStack' = OnStack /\ Seen' = Seen /\ CheckErrors' = CheckErrors
  BY <1>1 DEF OnStack, Seen, CheckErrors
<1>5. \A s : Met(s)' <=> Met(s)
  BY <1>1, <1>3, <1>4 DEF Met, Dangles
<1> HIDE DEF CheckErrors, Met, Seen, OnStack
<1>6. NothingForgotten'
  BY <1>1, <1>2, <1>5 DEF NothingForgotten
<1>7. ReportsAreTrue'
  BY <1>1, <1>2, <1>3, <1>4 DEF ReportsAreTrue, Dangles
<1>8. ReportsByStage'
  BY <1>1, <1>2, <1>4 DEF ReportsByStage
<1>9. "cycle" \notin errors' => LeftInOrder'
  BY <1>1, <1>2, <1>3 DEF LeftInOrder, NoCycle, Above, Dangles
<1>10. Seen' \subseteq Body(graph', func')
  BY <1>1, <1>4 DEF Told
<1> QED
  BY <1>6, <1>7, <1>8, <1>9, <1>10 DEF Told

(* and where nothing changes. *)
LEMMA StutterTold == ASSUME Told, UNCHANGED vars PROVE Told'
<1>1. UNCHANGED <<graph, func, roots, stk, reached, errors, done>>
  BY DEF vars
<1>2. OnStack' = OnStack /\ Seen' = Seen /\ CheckErrors' = CheckErrors
  BY <1>1 DEF OnStack, Seen, CheckErrors
<1>3. \A s : Met(s)' <=> Met(s)
  BY <1>1, <1>2 DEF Met, Dangles
<1> HIDE DEF CheckErrors, Met, Seen, OnStack
<1>4. NothingForgotten' <=> NothingForgotten
  BY <1>1, <1>3 DEF NothingForgotten
<1>5. ReportsAreTrue' <=> ReportsAreTrue
  BY <1>1, <1>2 DEF ReportsAreTrue, Dangles
<1>6. ReportsByStage' <=> ReportsByStage
  BY <1>1, <1>2 DEF ReportsByStage
<1>7. LeftInOrder' <=> LeftInOrder
  BY <1>1 DEF LeftInOrder, NoCycle, Above, Dangles
<1> QED
  BY <1>1, <1>2, <1>4, <1>5, <1>6, <1>7 DEF Told

(* The empty list has no places and no members. *)
LEMMA NothingInEmpty == 1 .. Len(<<>>) = {} /\ Range(<<>>) = {}
BY DEF Range

(* What the walk knows when it ends is what the graph is like. *)
LEMMA ToldIsExact == ASSUME IInv, Told PROVE ExactVerdict
<1> SUFFICES ASSUME done, errors # {"no result"}
             PROVE  /\ reached = Body(graph, func)
                    /\ "dangling" \in errors
                       <=> ~(Range(Roots(graph, func)) \cup
                             UNION {Refers(graph, v) : v \in Body(graph, func)}
                             \subseteq DOMAIN graph.nodes)
                    /\ "cycle" \in errors <=> Endless(graph, Body(graph, func)) # {}
                    /\ errors = {} <=> Accepts(graph, func)
  BY DEF ExactVerdict
<1> DEFINE body == Body(graph, func)
           referred == Range(Roots(graph, func)) \cup UNION {Refers(graph, v) : v \in body}
<1>1. /\ NothingForgotten /\ ReportsAreTrue /\ ReportsByStage
      /\ "cycle" \notin errors => LeftInOrder
      /\ Seen \subseteq body
  BY DEF Told
<1>2. /\ NumberedWorld(graph) /\ reached \subseteq DOMAIN graph.nodes
      /\ stk = <<>> /\ roots = <<>> /\ Info(graph, func).result # NONE
  BY <1>1 DEF IInv, TypeOK, GraphOK, NumberedWorld, ReportsByStage
<1>3. OnStack = {} /\ Seen = reached /\ Range(roots) = {} /\ 1 .. Len(stk) = {}
  <2>1. 1 .. Len(stk) = {} /\ Range(roots) = {}
    BY <1>2, NothingInEmpty, Zenon
  <2> QED
    BY <2>1 DEF OnStack, Seen
<1>4. reached = body
  <2>1. HoldsBody(graph, func, reached)
    BY <1>1, <1>3 DEF NothingForgotten, Met, HoldsBody, Dangles
  <2>2. body \subseteq reached
    BY <1>2, <2>1, BodyIsLeast
  <2> QED
    BY <1>1, <1>3, <2>2
<1>5. \A s : s \in referred <=> s \in Range(Roots(graph, func))
                               \/ \E v \in body : s \in Refers(graph, v)
  OBVIOUS
<1> HIDE DEF referred
<1>6. "dangling" \in errors <=> ~(referred \subseteq DOMAIN graph.nodes)
  <2>1. ASSUME "dangling" \in errors PROVE ~(referred \subseteq DOMAIN graph.nodes)
    <3>1. PICK s : Dangles(graph, s) /\ (s \in Range(Roots(graph, func))
                                         \/ \E v \in Seen : s \in Refers(graph, v))
      BY <1>1, <2>1 DEF ReportsAreTrue
    <3> QED
      BY <1>3, <1>4, <1>5, <3>1 DEF Dangles
  <2>2. ASSUME ~(referred \subseteq DOMAIN graph.nodes) PROVE "dangling" \in errors
    <3>1. PICK s \in referred : s \notin DOMAIN graph.nodes
      BY <2>2
    <3>2. Met(s)
      BY <1>1, <1>3, <1>4, <1>5, <3>1 DEF NothingForgotten
    <3> QED
      BY <1>2, <1>3, <3>1, <3>2 DEF Met
  <2> QED
    BY <2>1, <2>2
<1>7. "cycle" \in errors <=> Endless(graph, body) # {}
  <2>0. /\ Endless(graph, body) \subseteq body /\ NoWayOut(graph, Endless(graph, body))
        /\ \A some \in SUBSET body : NoWayOut(graph, some) => some \subseteq Endless(graph, body)
    <3>1. body \in SUBSET DOMAIN graph.nodes
      BY <1>2, <1>4
    <3> HIDE DEF body
    <3> QED
      BY <1>2, <3>1, EndlessIsLargest
  <2>1. ASSUME "cycle" \in errors PROVE Endless(graph, body) # {}
    <3>1. PICK some \in SUBSET Seen : some # {} /\ NoWayOut(graph, some)
      BY <1>1, <2>1 DEF ReportsAreTrue
    <3> QED
      BY <1>3, <1>4, <2>0, <3>1
  <2>2. ASSUME "cycle" \notin errors PROVE Endless(graph, body) = {}
    <3>1. NoCycle
      BY <1>1, <2>2 DEF LeftInOrder
    <3> QED
      BY <1>4, <2>0, <3>1 DEF NoCycle, NoWayOut
  <2> QED
    BY <2>1, <2>2
<1>8. /\ errors \subseteq WalkErrors \cup CheckErrors /\ CheckErrors \subseteq errors
  BY <1>1 DEF ReportsByStage
<1>9. CheckErrors = {} <=> (\A v \in body : ~RegionError(graph, v)) /\ ~Forked(graph, func, body)
  <2>1. RegionErrors(graph, body) = {} <=> \A v \in body : ~RegionError(graph, v)
    <3> HIDE DEF body
    <3> QED
      BY DEF RegionErrors
  <2>2. LinearityErrors(graph, func, body) = {} <=> ~Forked(graph, func, body)
    BY DEF LinearityErrors
  <2> QED
    BY <1>4, <2>1, <2>2 DEF CheckErrors
<1>10. errors = {} <=> /\ "dangling" \notin errors /\ "cycle" \notin errors /\ CheckErrors = {}
  BY <1>8 DEF WalkErrors
<1>11. Accepts(graph, func)
       <=> /\ referred \subseteq DOMAIN graph.nodes
           /\ Endless(graph, body) = {}
           /\ CheckErrors = {}
  BY <1>2, <1>9 DEF Accepts, referred
<1> QED
  BY <1>4, <1>6, <1>7, <1>10, <1>11 DEF referred

(* For any graphs: the verifier reaches the body and nothing else, reports  *)
(* an operand that does not exist and a cycle exactly if there is one, and  *)
(* reports nothing exactly of the functions that are well formed.           *)
THEOREM VerdictsAreExact == Spec => []ExactVerdict
<1>1. ASSUME Told, IInv, [Next]_vars, IInv' PROVE Told'
  <2>1. CASE BeginRoot
    BY <2>1, <1>1, BeginRootTold
  <2>2. CASE NextSuccessor
    BY <2>2, <1>1, NextSuccessorTold
  <2>3. CASE LeaveNode
    BY <2>3, <1>1, LeaveNodeTold DEF IInv
  <2>4. CASE Check
    BY <2>4, <1>1, CheckTold
  <2>5. CASE UNCHANGED vars
    BY <2>5, <1>1, StutterTold
  <2> QED
    BY <2>1, <2>2, <2>3, <2>4, <2>5, <1>1 DEF Next
<1> QED
  BY InitTold, <1>1, ToldIsExact, Invariance, PTL DEF Spec
===============================================================================
