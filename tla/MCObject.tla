------------------------------- MODULE MCObject -------------------------------
(* Modules of up to three functions, with short and long names, that call   *)
(* each other, themselves, and a function the module does not have.         *)
EXTENDS Object

MCNameLen == [name \in {"f", "compress", "decompress", "unknown"} |->
                 CASE name = "f" -> 1 [] name = "compress" -> 8 [] OTHER -> 10]

Calls == {<<>>} \cup {<<[at |-> 2, target |-> n]>> : n \in {1, 3, 9}}
TwoCalls == {<<[at |-> 2, target |-> n], [at |-> 14, target |-> k]>> : n \in {2}, k \in {1, 3}}

F(node, name, sizes, calls) ==
    {[node |-> node, name |-> name, size |-> n, relocs |-> c] : n \in sizes, c \in calls}

One == F(1, "decompress", {23, 32}, Calls \cup TwoCalls)
Two == F(2, "f", {16}, Calls)
Three == F(3, "compress", {24, 33}, Calls)

MCModules == {<<a>> : a \in One} \cup {<<a, b>> : a \in One, b \in Two}
             \cup {<<a, b, c>> : a \in One, b \in Two, c \in Three}
===============================================================================
