------------------------------ MODULE WellFormed ------------------------------
(***************************************************************************)
(* What verify.cpp asks of the graph of a function: that everything it     *)
(* refers to exists, that no way along it has no end, that its regions     *)
(* have the parts they need, and that no state of memory is used twice.    *)
(***************************************************************************)
EXTENDS IR, SequencesExt

(* Everything a node refers to within the body of its function. *)
Successors(u, v) ==
    LET n == u.nodes[v]
        l == LoopInfo(u, v)
        Some(x) == x # NONE
    IN  n.ins \o SelectSeq(<<n.state_in>>, Some)
        \o CASE n.op = "Cond" -> u.conds[n.region]
             [] n.op = "Loop" -> l.params \o <<l.is_break>> \o SelectSeq(<<l.break_val>>, Some)
                                 \o l.break_vals \o l.next_vals
             [] OTHER -> <<>>

Dangles(u, v) == v \notin DOMAIN u.nodes

Refers(u, v) == Range(Successors(u, v))

(* The two checks on the nodes reached. *)
RegionError(u, v) ==
    LET n == u.nodes[v]
        l == LoopInfo(u, v)
    IN  CASE n.op = "Cond" -> u.conds[n.region] = <<>>
          [] n.op = "Loop" -> Len(l.params) # Len(l.next_vals) \/ Len(l.params) # Len(n.ins)
          [] OTHER -> FALSE

StateProducers(u, f, nodes) ==
    ({Info(u, f).state_param} \ {NONE})
    \cup {v \in nodes : u.nodes[v].op \in {"Load", "Store"} /\ u.nodes[v].state_in # NONE}

Uses(u, f, nodes, p) ==
    Cardinality({v \in nodes : u.nodes[v].state_in = p})
    + IF Info(u, f).state_result = p THEN 1 ELSE 0

Forked(u, f, nodes) == \E p \in StateProducers(u, f, nodes) : Uses(u, f, nodes, p) > 1

RegionErrors(u, nodes) == {"region" : v \in {x \in nodes : RegionError(u, x)}}
LinearityErrors(u, f, nodes) == IF Forked(u, f, nodes) THEN {"linearity"} ELSE {}

Roots(u, f) ==
    LET Some(x) == x # NONE
    IN  <<Info(u, f).result>> \o SelectSeq(<<Info(u, f).state_result>>, Some)

-----------------------------------------------------------------------------
(* What the verifier is for, said of a world alone.                         *)

(* The nodes a body consists of. *)
Body(u, f) ==
    LET more(nodes) == (UNION {Refers(u, v) : v \in nodes}) \cap DOMAIN u.nodes
        by[n \in 0 .. Len(u.nodes)] ==
            IF n = 0 THEN Range(Roots(u, f)) \cap DOMAIN u.nodes
            ELSE LET before == by[n - 1] IN before \cup more(before)
    IN  by[Len(u.nodes)]

(* The nodes from which there is a way without end. *)
Endless(u, nodes) ==
    LET left[n \in 0 .. Len(u.nodes)] ==
            IF n = 0 THEN nodes
            ELSE LET before == left[n - 1]
                 IN  {v \in before : Refers(u, v) \cap before # {}}
    IN  left[Len(u.nodes)]

Accepts(u, f) ==
    LET body == Body(u, f)
    IN  /\ Info(u, f).result # NONE
        /\ Range(Roots(u, f)) \cup UNION {Refers(u, v) : v \in body} \subseteq DOMAIN u.nodes
        /\ Endless(u, body) = {}
        /\ \A v \in body : ~RegionError(u, v)
        /\ ~Forked(u, f, body)

VerifyModule(u) == \A i \in DOMAIN u.module_funcs : Accepts(u, u.module_funcs[i])
===============================================================================
