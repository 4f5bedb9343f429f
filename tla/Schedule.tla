------------------------------- MODULE Schedule -------------------------------
(***************************************************************************)
(* build_schedule() of schedule.cpp: in which region of the structured     *)
(* program each value node is emitted, and on which side of its loop's     *)
(* exit test.                                                              *)
(*                                                                         *)
(* The nodes reachable from the results are collected, then placed one per *)
(* step, users before the nodes they use.  The code takes the users in the *)
(* reverse of its depth-first post-order; any order that has users first   *)
(* is allowed here.  A region is represented by the set of its ancestors,  *)
(* itself included, where the code keeps parent and depth.                 *)
(***************************************************************************)
EXTENDS Integers, FiniteSets

CONSTANT Graphs   \* the functions that may be scheduled

(* A graph is [node, result, state_result]; a node is a record              *)
(*    [op, ins, state_in, yields, brk, vals, next, params]                  *)
(* where yields is a pair, brk a node, and ins, vals (the break values),    *)
(* next (the next values) and params are sets of nodes.                     *)
NONE == 0
Root == 0        \* region 0
Unplaced == -1

Nodes(g) == DOMAIN g.node

Parts == {"arm0", "arm1", "body"}

Operands(g, u) == (g.node[u].ins \cup {g.node[u].state_in}) \ {NONE}

(* What node u evaluates in a region of its own, per region. *)
Behind(g, u, k) ==
    LET n == g.node[u]
    IN  CASE k = "arm0" -> IF n.op = "Cond" THEN {n.yields[1]} \ {NONE} ELSE {}
          [] k = "arm1" -> IF n.op = "Cond" THEN {n.yields[2]} \ {NONE} ELSE {}
          [] k = "body" -> IF n.op = "Loop"
                           THEN ({n.brk} \cup n.vals \cup n.next) \ {NONE}
                           ELSE {}

(* PostOrder::children: all that u structurally depends on. *)
Children(g, u) ==
    Operands(g, u) \cup g.node[u].params \cup UNION {Behind(g, u, k) : k \in Parts}

Roots(g) == {g.result, g.state_result} \ {NONE}

Values(g) == {d \in Nodes(g) : g.node[d].op # "Param"}

ASSUME ScheduleAssumption ==
    \A g \in Graphs :
        /\ IsFiniteSet(Nodes(g))
        /\ Roots(g) \subseteq Nodes(g)
        /\ \A u \in Nodes(g) :
            /\ Children(g, u) \subseteq Nodes(g) \ {u}
            /\ g.node[u].params \cap Values(g) = {}
            /\ u \notin Values(g) => Children(g, u) = {}

VARIABLES
    g,          \* the function being scheduled
    phase,      \* "visit", "place", "cone", then "done"
    reach,      \* PostOrder::done
    frontier,   \* children found and not visited yet
    todo,       \* nodes not placed yet
    nregions,   \* regions are numbered 0 .. nregions - 1
    anc,        \* region -> its ancestors and itself
    region,     \* Schedule::region, or Unplaced
    inner,      \* cond_arm0, cond_arm1 and loop_body of each node
    loops,      \* loops whose pre-test cone is still to be marked
    walk,       \* the loop whose cone is being walked
    seen, stk,  \* nodes of that cone visited, and found but not visited
    is_pre,     \* nodes emitted before the exit test of their loop
    pre, post   \* the buckets

tree == <<nregions, anc, region, inner>>
cone == <<loops, walk, seen, stk, is_pre>>
vars == <<g, phase, reach, frontier, todo, tree, cone, pre, post>>

Regions == 0 .. nregions - 1

(* The deepest region that is an ancestor of all of rs: lca(). *)
Meet(a, rs) ==
    CHOOSE c \in DOMAIN a : a[c] = {x \in DOMAIN a : \A r \in rs : x \in a[r]}

Init ==
    /\ g \in Graphs
    /\ phase = "visit"
    /\ reach = {}
    /\ frontier = Roots(g)
    /\ todo = {}
    /\ nregions = 1
    /\ anc = [r \in {Root} |-> {Root}]
    /\ region = [d \in Nodes(g) |-> IF d \in Roots(g) THEN Root ELSE Unplaced]
    /\ inner = [d \in Nodes(g) |-> [k \in Parts |-> Unplaced]]
    /\ loops = {} /\ walk = NONE /\ seen = {} /\ stk = {} /\ is_pre = {}
    /\ pre = <<>> /\ post = <<>>

-----------------------------------------------------------------------------
(* One layer of the walk from the results. *)
Visit ==
    /\ phase = "visit" /\ frontier # {}
    /\ reach' = reach \cup frontier
    /\ frontier' = (UNION {Children(g, u) : u \in frontier}) \ reach'
    /\ UNCHANGED <<g, phase, todo, tree, cone, pre, post>>

(* Mutant: parameters are placed like any other node. *)
VisitDoneParamsToo ==
    /\ phase = "visit" /\ frontier = {}
    /\ phase' = "place"
    /\ todo' = reach
    /\ UNCHANGED <<g, reach, frontier, tree, cone, pre, post>>

VisitDone ==
    /\ phase = "visit" /\ frontier = {}
    /\ phase' = "place"
    /\ todo' = reach \cap Values(g)
    /\ UNCHANGED <<g, reach, frontier, tree, cone, pre, post>>

(* All the users of u are placed, so its region is final. *)
Ready(u) ==
    /\ phase = "place" /\ u \in todo
    /\ \A w \in todo : u \notin Children(g, w)

Home(u) == IF region[u] = Unplaced THEN Root ELSE region[u]

Demand(ds, r) == {<<d, r>> : d \in ds \cap Values(g)}

(* The regions d is wanted in: where it stood, where u wants it now, and *)
(* for u itself where it is settled.                                      *)
Wanted(u, demands, d) ==
    ({region[d]} \ {Unplaced})
    \cup {p[2] : p \in {q \in demands \cup {<<u, Home(u)>>} : q[1] = d}}

(* Mutant: a node stays where its first user wanted it. *)
SettleFirstDemand(u, demands) ==
    region' = [d \in Nodes(g) |->
                  IF region[d] # Unplaced THEN region[d]
                  ELSE IF Wanted(u, demands, d) = {} THEN Unplaced
                  ELSE Meet(anc', Wanted(u, demands, d))]

(* Mutant: a node with two users goes to the root. *)
SettleAtRoot(u, demands) ==
    region' = [d \in Nodes(g) |->
                  IF Wanted(u, demands, d) = {} THEN Unplaced
                  ELSE IF Cardinality(Wanted(u, demands, d)) > 1 THEN Root
                  ELSE Meet(anc', Wanted(u, demands, d))]

(* u is settled where it stands, and every node it demands moves up to the *)
(* deepest region that also encloses the place of this demand.             *)
Settle(u, demands) ==
    region' = [d \in Nodes(g) |->
                  IF Wanted(u, demands, d) = {} THEN Unplaced
                  ELSE Meet(anc', Wanted(u, demands, d))]

Placed(u) ==
    /\ todo' = todo \ {u}
    /\ UNCHANGED <<g, phase, reach, frontier, cone, pre, post>>

PlaceCond(u) ==
    LET r0 == nregions
        r1 == nregions + 1
    IN  /\ Ready(u) /\ g.node[u].op = "Cond"
        /\ nregions' = nregions + 2
        /\ anc' = [r \in Regions' |->
                      IF r \in Regions THEN anc[r] ELSE anc[Home(u)] \cup {r}]
        /\ inner' = [inner EXCEPT ![u]["arm0"] = r0, ![u]["arm1"] = r1]
        /\ Settle(u, Demand(Operands(g, u), Home(u))
                       \cup Demand(Behind(g, u, "arm0"), r0)
                       \cup Demand(Behind(g, u, "arm1"), r1))
        /\ Placed(u)

(* Mutant: the body of a loop is opened under the function's root. *)
PlaceLoopAtRoot(u) ==
    LET b == nregions
    IN  /\ Ready(u) /\ g.node[u].op = "Loop"
        /\ nregions' = nregions + 1
        /\ anc' = [r \in Regions' |->
                      IF r \in Regions THEN anc[r] ELSE anc[Root] \cup {b}]
        /\ inner' = [inner EXCEPT ![u]["body"] = b]
        /\ Settle(u, Demand(Operands(g, u), Home(u))
                       \cup Demand(Behind(g, u, "body"), b))
        /\ Placed(u)

PlaceLoop(u) ==
    LET b == nregions
    IN  /\ Ready(u) /\ g.node[u].op = "Loop"
        /\ nregions' = nregions + 1
        /\ anc' = [r \in Regions' |->
                      IF r \in Regions THEN anc[r] ELSE anc[Home(u)] \cup {b}]
        /\ inner' = [inner EXCEPT ![u]["body"] = b]
        /\ Settle(u, Demand(Operands(g, u), Home(u))
                       \cup Demand(Behind(g, u, "body"), b))
        /\ Placed(u)

PlaceOther(u) ==
    /\ Ready(u) /\ g.node[u].op \notin {"Cond", "Loop"}
    /\ UNCHANGED <<nregions, anc, inner>>
    /\ Settle(u, Demand(Operands(g, u), Home(u)))
    /\ Placed(u)

PlaceDone ==
    /\ phase = "place" /\ todo = {}
    /\ phase' = "cone"
    /\ loops' = {u \in reach : g.node[u].op = "Loop"}
    /\ UNCHANGED <<g, reach, frontier, todo, tree, walk, seen, stk, is_pre, pre, post>>

-----------------------------------------------------------------------------
TestNeeds(u) == ({g.node[u].brk} \cup g.node[u].vals) \ {NONE}

(* The walk over what one loop's test and break values depend on begins. *)
StartCone(u) ==
    /\ phase = "cone" /\ stk = {} /\ u \in loops
    /\ loops' = loops \ {u}
    /\ stk' = TestNeeds(u)
    /\ walk' = u
    /\ seen' = {}
    /\ UNCHANGED <<g, phase, reach, frontier, todo, tree, is_pre, pre, post>>

(* Mutant: the walk follows operands only, not what arms and bodies use. *)
ConeOfOperands ==
    /\ phase = "cone" /\ stk # {}
    /\ seen' = seen \cup stk
    /\ is_pre' = is_pre \cup {d \in stk : region[d] = inner[walk]["body"]}
    /\ stk' = (UNION {Operands(g, d) : d \in stk}) \ seen'
    /\ UNCHANGED <<g, phase, reach, frontier, todo, tree, loops, walk, pre, post>>

(* One layer of it: of the nodes found, those of the loop's own body region *)
(* are marked, and the walk goes on through every kind of child.            *)
Cone ==
    /\ phase = "cone" /\ stk # {}
    /\ seen' = seen \cup stk
    /\ is_pre' = is_pre \cup {d \in stk : region[d] = inner[walk]["body"]}
    /\ stk' = (UNION {Children(g, d) : d \in stk}) \ seen'
    /\ UNCHANGED <<g, phase, reach, frontier, todo, tree, loops, walk, pre, post>>

(* Every node goes to one bucket of its region. *)
Bucket ==
    LET in(r) == {d \in reach \cap Values(g) : region[d] = r}
    IN  /\ phase = "cone" /\ stk = {} /\ loops = {}
        /\ phase' = "done"
        /\ pre' = [r \in Regions |-> in(r) \cap is_pre]
        /\ post' = [r \in Regions |-> in(r) \ is_pre]
        /\ UNCHANGED <<g, reach, frontier, todo, tree, cone>>

Terminated == phase = "done" /\ UNCHANGED vars

Place(u) == PlaceCond(u) \/ PlaceLoop(u) \/ PlaceOther(u)

Next ==
    \/ Visit \/ VisitDone
    \/ \E u \in Nodes(g) : Place(u)
    \/ PlaceDone
    \/ \E u \in Nodes(g) : StartCone(u)
    \/ Cone \/ Bucket
    \/ Terminated

Spec == Init /\ [][Next]_vars

TypeOK ==
    /\ phase \in {"visit", "place", "cone", "done"}
    /\ reach \subseteq Nodes(g)
    /\ frontier \subseteq Nodes(g)
    /\ todo \subseteq reach \cap Values(g)
    /\ nregions \in Nat \ {0}
    /\ anc \in [Regions -> SUBSET Regions]
    /\ region \in [Nodes(g) -> Regions \cup {Unplaced}]
    /\ inner \in [Nodes(g) -> [Parts -> Regions \cup {Unplaced}]]
    /\ walk \in Nodes(g) \cup {NONE}
    /\ loops \cup seen \cup stk \cup is_pre \subseteq Nodes(g)

-----------------------------------------------------------------------------
(* The nodes placed so far, and the regions in which placed users read d. *)
Settled == IF phase = "visit" THEN {} ELSE (reach \cap Values(g)) \ todo

Sites(d) ==
    {region[u] : u \in {w \in Settled : d \in Operands(g, w)}}
    \cup UNION {{inner[u][k] : u \in {w \in Settled : d \in Behind(g, w, k)}} :
                    k \in Parts}

(* A value is emitted in a region that encloses every place that reads it:  *)
(* no branch computes it for another one to find garbage.                   *)
DefsDominateUses ==
    \A d \in Values(g) : \A r \in Sites(d) : r \in Regions /\ region[d] \in anc[r]

(* It is emitted no further out than its uses make necessary: a region that *)
(* encloses all of them also encloses the value.                            *)
PlacedAsDeepAsUsesAllow ==
    \A d \in Settled \ Roots(g) : \A c \in Regions :
        (\A r \in Sites(d) : c \in anc[r]) => c \in anc[region[d]]

(* What `from` leads to over the edges `e` (a set of pairs) of f. *)
Leads(f, from, e) ==
    LET within[k \in Nat] ==
            IF k = 0 THEN from
            ELSE LET nearer == within[k - 1]
                 IN  nearer \cup {p[2] : p \in {q \in e : q[1] \in nearer}}
    IN  within[Cardinality(Nodes(f))]

(* The edges that remain when the given parts of nodes are not entered. *)
EdgesAround(f, gates) ==
    UNION {{u} \X (Operands(f, u) \cup
                   UNION {Behind(f, u, k) : k \in {j \in Parts : <<u, j>> \notin gates}})
             : u \in Nodes(f)}

(* What is needed only inside one arm or one loop body stays inside it; a   *)
(* value that depends on a carried parameter is never hoisted above its     *)
(* loop, where the parameter is undefined.                                  *)
StaysBehindItsGate ==
    phase \in {"cone", "done"} =>
        \A w \in reach, k \in Parts :
            inner[w][k] # Unplaced =>
                \A d \in (reach \cap Values(g))
                             \ Leads(g, Roots(g), EdgesAround(g, {<<w, k>>})) :
                    inner[w][k] \in anc[region[d]]

(* Nothing emitted before an exit test depends, through operands, arms or   *)
(* inner bodies, on what is emitted after it.                               *)
PreNeverReadsPost ==
    phase = "done" =>
        \A r \in Regions : post[r] \cap Leads(g, pre[r], EdgesAround(g, {})) = {}

-----------------------------------------------------------------------------
(* What the documents promise beyond this, and build_schedule() does not keep. *)

GateOf(c, k) ==
    {<<w, k>> : w \in {x \in Nodes(g) : /\ g.node[x].op = "Cond"
                                        /\ g.node[x].ins = {c}}}

(* helix/README.md: the scheduler "places each store once, in order, never  *)
(* speculated past a guard".  A store needed only where a predicate has one *)
(* value is emitted under an arm taken for that value.                      *)
StoresNeverPassTheirGuard ==
    phase = "done" =>
        \A d \in reach : g.node[d].op = "Store" =>
            \A c \in reach, k \in {"arm0", "arm1"} :
                d \in Leads(g, Roots(g), EdgesAround(g, GateOf(c, k))) \/
                \E gate \in GateOf(c, k) : inner[gate[1]][k] \in anc[region[d]]

(* schedule.hpp: "body memory loads stay in post[] (after the guard), never *)
(* hoisted across the exit test".  Before the test come only the loads that *)
(* the test and the break values read whatever their inner conditions are.  *)
BodyLoadsStayBehindTheTest ==
    phase = "done" =>
        \A u \in reach : g.node[u].op = "Loop" =>
            LET b == inner[u]["body"]
                operandEdges == UNION {{d} \X Operands(g, d) : d \in Nodes(g)}
            IN  \A d \in pre[b] :
                    g.node[d].op = "Load" => d \in Leads(g, TestNeeds(u), operandEdges)
=============================================================================
