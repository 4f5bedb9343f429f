-------------------------------- MODULE Verify --------------------------------
(***************************************************************************)
(* The verifier of verify.cpp: a depth-first walk over everything the body *)
(* of a function refers to, with a stack of its own, that reports operands *)
(* that do not exist and cycles; then a look at the regions and at the     *)
(* uses of memory states among the nodes it reached.  WellFormed says what *)
(* it is to find out.                                                      *)
(*                                                                         *)
(* One step is one turn of the loop of dfs(), or the two checks after it.  *)
(***************************************************************************)
EXTENDS WellFormed

CONSTANT Graphs   \* the functions to verify: [w, func]

(* Nodes are numbered from 1 and refer to lists of numbers. *)
ASSUME GraphsAssumption ==
    \A g \in Graphs :
        /\ Len(g.w.nodes) \in Nat /\ DOMAIN g.w.nodes = 1 .. Len(g.w.nodes)
        /\ Roots(g.w, g.func) \in Seq(Nat)
        /\ \A v \in DOMAIN g.w.nodes : Successors(g.w, v) \in Seq(Nat)

VARIABLES graph,    \* the world
          func,     \* the function
          roots,    \* the calls of dfs() still to come
          stk,      \* the nodes entered, each with the successors still to visit
          reached,  \* the nodes left
          errors,   \* the kinds of error reported so far
          done

vars == <<graph, func, roots, stk, reached, errors, done>>

-----------------------------------------------------------------------------
Init ==
    /\ \E g \in Graphs : graph = g.w /\ func = g.func
    /\ stk = <<>> /\ reached = {}
    /\ IF Info(graph, func).result = NONE
       THEN done = TRUE /\ errors = {"no result"} /\ roots = <<>>
       ELSE done = FALSE /\ errors = {} /\ roots = Roots(graph, func)

OnStack == {stk[i].v : i \in 1 .. Len(stk)}

(* Mutant: a node that is being walked is entered again. *)
EnterAgain(v, below) ==
    /\ stk' = IF v \in reached THEN below
              ELSE Append(below, [v |-> v, next |-> Successors(graph, v)])
    /\ errors' = errors

(* Mutant: a node seen before is taken for a cycle, also where it is shared. *)
EnterShared(v, below) ==
    /\ stk' = IF v \in reached \cup OnStack THEN below
              ELSE Append(below, [v |-> v, next |-> Successors(graph, v)])
    /\ errors' = IF v \in OnStack \cup reached THEN errors \cup {"cycle"} ELSE errors

(* Mutant: a node that is being walked is passed over like one that is done. *)
EnterSilently(v, below) ==
    /\ stk' = IF v \in reached \cup OnStack THEN below
              ELSE Append(below, [v |-> v, next |-> Successors(graph, v)])
    /\ errors' = errors

(* enter(): below is the stack that stays under the node. *)
Enter(v, below) ==
    /\ stk' = IF v \in reached \cup OnStack THEN below
              ELSE Append(below, [v |-> v, next |-> Successors(graph, v)])
    /\ errors' = IF v \in OnStack \ reached THEN errors \cup {"cycle"} ELSE errors

Visit(v, below) ==
    IF Dangles(graph, v) THEN stk' = below /\ errors' = errors \cup {"dangling"}
    ELSE Enter(v, below)

BeginRoot ==
    /\ stk = <<>> /\ roots # <<>>
    /\ roots' = Tail(roots)
    /\ Visit(Head(roots), <<>>)
    /\ UNCHANGED <<graph, func, reached, done>>

(* Mutant: the successor is taken off the list only when it is entered. *)
NextSuccessorWaits ==
    LET top == Last(stk)
        left == [stk EXCEPT ![Len(stk)].next = Tail(@)]
    IN  /\ stk # <<>> /\ top.next # <<>>
        /\ Visit(Head(top.next), IF Head(top.next) \in reached THEN stk ELSE left)
        /\ UNCHANGED <<graph, func, roots, reached, done>>

NextSuccessor ==
    LET top == Last(stk)
    IN  /\ stk # <<>> /\ top.next # <<>>
        /\ Visit(Head(top.next), [stk EXCEPT ![Len(stk)].next = Tail(@)])
        /\ UNCHANGED <<graph, func, roots, reached, done>>

LeaveNode ==
    /\ stk # <<>> /\ Last(stk).next = <<>>
    /\ reached' = reached \cup {Last(stk).v}
    /\ stk' = SubSeq(stk, 1, Len(stk) - 1)
    /\ UNCHANGED <<graph, func, roots, errors, done>>

Check ==
    /\ stk = <<>> /\ roots = <<>> /\ ~done
    /\ done' = TRUE
    /\ errors' = errors \cup RegionErrors(graph, reached) \cup LinearityErrors(graph, func, reached)
    /\ UNCHANGED <<graph, func, roots, stk, reached>>

Next == BeginRoot \/ NextSuccessor \/ LeaveNode \/ Check

Spec == Init /\ [][Next]_vars /\ WF_vars(Next)

-----------------------------------------------------------------------------
(* Each kind of error is reported exactly if there is one, however the walk *)
(* runs into shared nodes, cycles and operands that do not exist.           *)
ExactVerdict ==
    done /\ errors # {"no result"} =>
        LET body == Body(graph, func)
            referred == Range(Roots(graph, func)) \cup UNION {Refers(graph, v) : v \in body}
        IN  /\ reached = body
            /\ "dangling" \in errors <=> ~(referred \subseteq DOMAIN graph.nodes)
            /\ "cycle" \in errors <=> Endless(graph, body) # {}
            /\ errors = {} <=> Accepts(graph, func)

(* What a verifier without complaint establishes: all that is referred to   *)
(* exists, and no set of reached nodes has a way without end in it.         *)
WalkedAll ==
    /\ Range(Roots(graph, func)) \subseteq reached
    /\ \A v \in reached : v \in DOMAIN graph.nodes /\ Refers(graph, v) \subseteq reached

NoCycle ==
    \A nodes \in SUBSET reached :
        nodes # {} => \E v \in nodes : Refers(graph, v) \cap nodes = {}

VerifiedIsSound == done /\ errors = {} => WalkedAll /\ NoCycle

(* The stack is a path of the graph on which no node comes twice, so it     *)
(* never holds more nodes than there are, however often they are shared.    *)
StackIsPath ==
    /\ Len(stk) <= Len(graph.nodes)
    /\ Cardinality(OnStack) = Len(stk)
    /\ OnStack \cap reached = {}
    /\ \A i \in 1 .. Len(stk) - 1 : stk[i + 1].v \in Refers(graph, stk[i].v)

(* The verifier comes to an end on every graph, cyclic ones included. *)
Ends == <>done
===============================================================================
