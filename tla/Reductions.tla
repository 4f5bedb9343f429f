------------------------------ MODULE Reductions ------------------------------
(***************************************************************************)
(* Whether what the smart constructors answer has the value of what they   *)
(* were asked for.  The reference is the interpreter of eval.cpp on the    *)
(* value strand, which keeps its own copy of the arithmetic.               *)
(***************************************************************************)
EXTENDS World, Semantics

Computed == BinOps \cup CmpOps \cup {"Neg", "Not", "Select", "Cond"}

(* What the value of a node is computed from. *)
Sources(u, id) ==
    LET n == u.nodes[id]
    IN  IF n.op = "Cond" THEN n.ins \o u.conds[n.region] ELSE n.ins

(* The nodes a value rests on that are no computation: params, loads and    *)
(* the results of calls and loops.  An environment gives their values.      *)
Given(u, ids) ==
    LET given[id \in DOMAIN u.nodes] ==
            IF u.nodes[id].op \in Computed
            THEN UNION {given[Sources(u, id)[k]] : k \in DOMAIN Sources(u, id)}
            ELSE {id} \ {c \in {id} : IsConst(u, c)}
    IN  UNION {given[id] : id \in ids}

Environments(u, ids) ==
    LET given == Given(u, ids)
    IN  {env \in [given -> Int64] :
            \A id \in given : env[id] \in ValuesOf(Type(u, id))}

Value(u, env, id) ==
    LET val[i \in DOMAIN u.nodes] ==
            IF IsConst(u, i) THEN Imm(u, i)
            ELSE IF u.nodes[i].op \in Computed
            THEN Apply(Op(u, i), Type(u, i),
                       [k \in DOMAIN Sources(u, i) |-> val[Sources(u, i)[k]]])
            ELSE env[i]
    IN  val[id]

(* Every count a multiplication may be turned into a shift by is a value of *)
(* the narrower type too, as it is of i8, i16 and i32 if words have 64 bits. *)
CountsFit == Word - 2 <= 2 ^ (Narrow - 1) - 1

(* The answer to a request has, for all values of what it rests on, the     *)
(* value the interpreter computes from the operands as they were given:     *)
(* folding, identities, strength reduction and reordering change nothing.   *)
ReductionSound ==
    asked.op \in Computed =>
        \A env \in Environments(w, Range(asked.ins) \cup {ret}) :
            Value(w, env, ret) =
                Apply(asked.op, asked.type,
                      [k \in DOMAIN asked.ins |-> Value(w, env, asked.ins[k])])

(* The weaker promise an optimizer needs: asking again for a node there is  *)
(* may answer with another, but of the same value.                          *)
RebuildKeepsValue ==
    \A id \in Ids :
        LET r == Rebuilt(id)
        IN  Op(w, id) \in Computed /\ r # Hit(w, id) =>
                \A env \in Environments(r.w, {id, r.id}) :
                    Value(r.w, env, r.id) = Value(w, env, id)
=============================================================================
