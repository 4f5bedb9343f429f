----------------------------- MODULE ObjectProofs -----------------------------
(***************************************************************************)
(* Theorems about the object file of a module with any number of functions *)
(* of any length, with any calls between them, and about the stack frames  *)
(* of its functions.                                                       *)
(***************************************************************************)
EXTENDS Object, Recursion

(* Rounding up to 16 gives a multiple of 16 that is no less. *)
LEMMA AlignProperties ==
    ASSUME NEW n \in Nat
    PROVE  Align16(n) \in Nat /\ Align16(n) >= n /\ Align16(n) % 16 = 0
BY DEF Align16

(* What Offsets computes: the first function begins at 0, each further one  *)
(* at the first multiple of 16 behind its predecessor.                      *)
LEMMA OffsetsUnfold ==
    ASSUME NEW fs \in Modules
    PROVE  /\ Offsets(fs) \in [DOMAIN fs -> Nat]
           /\ Offsets(fs)[1] = 0
           /\ \A i \in 2 .. Len(fs) :
                 Offsets(fs)[i] = Align16(Offsets(fs)[i - 1] + fs[i - 1].size)
<1> DEFINE step == [s \in Nat \X Nat |-> IF s[1] + 1 \in DOMAIN fs
                                         THEN Align16(s[2] + fs[s[1] + 1].size) ELSE 0]
<1>1. /\ Len(fs) \in Nat \ {0} /\ DOMAIN fs = 1 .. Len(fs)
      /\ \A i \in DOMAIN fs : fs[i].size \in Nat
  BY ObjectAssumption
<1>2. step \in [Nat \X Nat -> Nat]
  <2> SUFFICES ASSUME NEW s \in Nat \X Nat, s[1] + 1 \in DOMAIN fs
               PROVE  Align16(s[2] + fs[s[1] + 1].size) \in Nat
    OBVIOUS
  <2>1. s[2] + fs[s[1] + 1].size \in Nat
    BY <1>1
  <2> QED
    BY <2>1, AlignProperties
<1>3. PICK g \in [Nat -> Nat] : g[0] = 0 /\ \A n \in Nat : g[n + 1] = step[<<n, g[n]>>]
  <2> DEFINE S == Nat
             base == 0
  <2>1. base \in S /\ step \in [Nat \X S -> S]
    BY <1>2
  <2> HIDE DEF step, S, base
  <2>2. \E g : Recurses(g, S, base, step)
    BY <2>1, RecursionExists
  <2> QED
    BY <2>2 DEF Recurses, S, base
<1> DEFINE h == [i \in DOMAIN fs |-> g[i - 1]]
<1>4. ASSUME NEW i \in 2 .. Len(fs)
      PROVE  h[i] = Align16(h[i - 1] + fs[i - 1].size)
  <2>1. i - 2 \in Nat /\ (i - 2) + 1 = i - 1 /\ i - 1 \in 1 .. Len(fs) /\ i \in 1 .. Len(fs)
    BY <1>1
  <2>2. g[i - 1] = step[<<i - 2, g[i - 2]>>]
    BY <1>3, <2>1
  <2>3. <<i - 2, g[i - 2]>> \in Nat \X Nat
    BY <2>1
  <2>4. step[<<i - 2, g[i - 2]>>] = Align16(g[i - 2] + fs[i - 1].size)
    BY <1>1, <2>1, <2>3
  <2>5. h[i - 1] = g[(i - 1) - 1] /\ (i - 1) - 1 = i - 2 /\ h[i] = g[i - 1]
    BY <1>1, <2>1
  <2> QED
    BY <2>2, <2>4, <2>5
<1>5. h \in [DOMAIN fs -> Nat] /\ h[1] = 0 /\ 1 \in DOMAIN fs
  BY <1>1, <1>3
<1> DEFINE Recurs(f) ==
        f = [i \in DOMAIN fs |-> IF i = 1 THEN 0 ELSE Align16(f[i - 1] + fs[i - 1].size)]
<1>6. Recurs(h)
  <2> SUFFICES ASSUME NEW i \in DOMAIN fs, i # 1
               PROVE  h[i] = Align16(h[i - 1] + fs[i - 1].size)
    BY <1>5
  <2>1. i \in 2 .. Len(fs)
    BY <1>1
  <2> QED
    BY <2>1, <1>4
<1>7. Recurs(Offsets(fs))
  <2>1. \E f : Recurs(f)
    BY <1>6
  <2>2. Offsets(fs) = CHOOSE f : Recurs(f)
    BY DEF Offsets
  <2> HIDE DEF Recurs
  <2> QED
    BY <2>1, <2>2
<1>8. \A i \in 1 .. Len(fs) : Offsets(fs)[i] = h[i]
  <2>1. Offsets(fs)[1] = h[1]
    BY <1>5, <1>7
  <2>2. ASSUME NEW i \in 1 + 1 .. Len(fs), Offsets(fs)[i - 1] = h[i - 1]
        PROVE  Offsets(fs)[i] = h[i]
    <3>1. i \in DOMAIN fs /\ i # 1 /\ i \in 2 .. Len(fs)
      <4>1. Len(fs) \in Nat /\ i \in 1 + 1 .. Len(fs)
        BY <1>1
      <4>2. i \in 1 .. Len(fs) /\ i # 1 /\ i \in 2 .. Len(fs)
        BY <4>1
      <4> QED
        BY <4>2, <1>1
    <3>2. Offsets(fs)[i] = Align16(Offsets(fs)[i - 1] + fs[i - 1].size)
      BY <3>1, <1>7
    <3>3. h[i] = Align16(h[i - 1] + fs[i - 1].size)
      BY <3>1, <1>4
    <3> QED
      BY <3>2, <3>3, <2>2
  <2> DEFINE o == Offsets(fs)
             one == 1
  <2>3. one \in Nat /\ Len(fs) \in Nat /\ o[one] = h[one]
    BY <2>1, <1>1
  <2>4. \A i \in one + 1 .. Len(fs) : o[i - 1] = h[i - 1] => o[i] = h[i]
    BY <2>2
  <2> HIDE DEF h, o, one
  <2>5. AgreeUpTo(o, h, one, Len(fs))
    BY <2>3, <2>4, Agreement
  <2> QED
    BY <2>5 DEF AgreeUpTo, o, one
<1>9. Offsets(fs) = h
  BY <1>1, <1>7, <1>8
<1> QED
  <2> HIDE DEF h
  <2> QED
    BY <1>4, <1>5, <1>9

(* Each function begins where the one before it has ended, or later. *)
LEMMA OffsetsApart ==
    ASSUME NEW fs \in Modules
    PROVE  \A i, j \in DOMAIN fs : i < j => Offsets(fs)[i] + fs[i].size <= Offsets(fs)[j]
<1> DEFINE off == Offsets(fs)
           n == Len(fs)
           T == {d \in Nat : \A i \in 1 .. n :
                    i + 1 + d <= n => off[i] + fs[i].size <= off[i + 1 + d]}
<1>1. /\ n \in Nat \ {0} /\ DOMAIN fs = 1 .. n
      /\ \A i \in 1 .. n : fs[i].size \in Nat
  BY ObjectAssumption
<1>2. /\ \A i \in 1 .. n : off[i] \in Nat
      /\ \A i \in 2 .. n : off[i] = Align16(off[i - 1] + fs[i - 1].size)
  BY <1>1, OffsetsUnfold
<1> HIDE DEF off, n
<1>3. ASSUME NEW i \in 2 .. n PROVE off[i] >= off[i - 1] + fs[i - 1].size
  <2>1. i - 1 \in 1 .. n
    BY <1>1
  <2>2. off[i - 1] + fs[i - 1].size \in Nat
    BY <1>1, <1>2, <2>1
  <2> QED
    BY <1>2, <2>2, AlignProperties
<1>4. 0 \in T
  <2> SUFFICES ASSUME NEW i \in 1 .. n, i + 1 + 0 <= n
               PROVE  off[i] + fs[i].size <= off[i + 1 + 0]
    OBVIOUS
  <2>1. i + 1 + 0 = i + 1 /\ i + 1 \in 2 .. n /\ (i + 1) - 1 = i /\ i + 1 \in 1 .. n
    BY <1>1
  <2>2. off[i + 1] >= off[i] + fs[i].size
    BY <1>3, <2>1
  <2>3. off[i + 1] \in Nat /\ off[i] \in Nat /\ fs[i].size \in Nat
    BY <1>1, <1>2, <2>1
  <2> QED
    BY <2>1, <2>2, <2>3
<1>5. ASSUME NEW d \in Nat, d \in T PROVE d + 1 \in T
  <2> SUFFICES ASSUME NEW i \in 1 .. n, i + 1 + (d + 1) <= n
               PROVE  off[i] + fs[i].size <= off[i + 1 + (d + 1)]
    OBVIOUS
  <2> DEFINE j == i + 1 + (d + 1)
  <2>1. j \in 2 .. n /\ j \in 1 .. n /\ j - 1 = i + 1 + d /\ j - 1 \in 1 .. n /\ i + 1 + d <= n
    BY <1>1
  <2>2. off[i] + fs[i].size <= off[i + 1 + d]
    BY <1>5, <2>1
  <2> HIDE DEF j
  <2>3. off[j] >= off[j - 1] + fs[j - 1].size
    BY <1>3, <2>1
  <2>4. /\ off[j] \in Nat /\ off[j - 1] \in Nat /\ fs[j - 1].size \in Nat
        /\ off[i] \in Nat /\ fs[i].size \in Nat
    BY <1>1, <1>2, <2>1
  <2>5. off[i] + fs[i].size <= off[j]
    BY <2>1, <2>2, <2>3, <2>4
  <2> QED
    BY <2>5 DEF j
<1>6. Nat \subseteq T
  <2> HIDE DEF T
  <2> QED
    BY <1>4, <1>5, SetInduction
<1>7. ASSUME NEW i \in 1 .. n, NEW j \in 1 .. n, i < j
      PROVE  off[i] + fs[i].size <= off[j]
  <2>1. j - i - 1 \in Nat /\ i + 1 + (j - i - 1) = j
    BY <1>1, <1>7
  <2>2. j - i - 1 \in T
    BY <2>1, <1>6
  <2> QED
    BY <2>1, <2>2
<1> QED
  BY <1>1, <1>7 DEF off

(* The module is among those considered, and its parts are put together     *)
(* once and for all.                                                        *)
Assembled ==
    /\ outs \in Modules
    /\ stage # "compiled" => obj = ObjModule(outs)

(* compile_module_obj() compiles one of the modules considered, and hands the
   writer its parts put together in order; no later step changes either. *)
THEOREM AssembledOnce == Spec => []Assembled
<1>1. Init => Assembled
  BY DEF Init, Assembled
<1>2. Assembled /\ [Next]_vars => Assembled'
  BY DEF Assembled, vars, Next, Assemble, PutHeaders, PutReloc, EndRelocs, PutSymbol, PutStrings
<1> QED
  BY <1>1, <1>2, PTL DEF Spec

(* No two functions of the text share a byte: compile_module_obj() copies   *)
(* each behind the last, however long they are.                             *)
THEOREM FunctionsDoNotOverlap == Spec => []FunctionsApart
<1>1. Assembled => FunctionsApart
  <2> SUFFICES ASSUME Assembled, stage # "compiled"
               PROVE  /\ \A i, j \in DOMAIN outs : i < j =>
                            obj.symbols[i].offset + outs[i].size <= obj.symbols[j].offset
                      /\ \A i \in DOMAIN outs : obj.symbols[i].offset + outs[i].size <= obj.text
    BY DEF FunctionsApart
  <2> DEFINE off == Offsets(outs)
             n == Len(outs)
  <2>1. outs \in Modules /\ n \in Nat \ {0} /\ DOMAIN outs = 1 .. n
    BY ObjectAssumption DEF Assembled
  <2>2. \A i \in DOMAIN outs : obj.symbols[i].offset = off[i]
    BY DEF Assembled, ObjModule
  <2>3. obj.text = off[n] + outs[n].size
    BY DEF Assembled, ObjModule
  <2>4. \A i, j \in DOMAIN outs : i < j => off[i] + outs[i].size <= off[j]
    BY <2>1, OffsetsApart
  <2>5. \A i \in DOMAIN outs : off[i] \in Nat /\ outs[i].size \in Nat
    BY <2>1, OffsetsUnfold, ObjectAssumption
  <2> HIDE DEF off, n
  <2>6. ASSUME NEW i \in DOMAIN outs PROVE off[i] + outs[i].size <= off[n] + outs[n].size
    <3>1. i \in 1 .. n /\ n \in DOMAIN outs
      BY <2>1
    <3>2. /\ off[i] \in Nat /\ outs[i].size \in Nat
          /\ off[n] \in Nat /\ outs[n].size \in Nat
      BY <2>5, <3>1
    <3>3. CASE i = n
      BY <3>2, <3>3
    <3>4. CASE i < n
      <4>1. off[i] + outs[i].size <= off[n]
        BY <2>4, <3>1, <3>4
      <4> QED
        BY <3>2, <4>1
    <3> QED
      BY <2>1, <3>1, <3>3, <3>4
  <2> QED
    BY <2>2, <2>3, <2>4, <2>6
<1> QED
  BY <1>1, AssembledOnce, PTL

-----------------------------------------------------------------------------
(* The sequences joined into one: its members are theirs, and all of them. *)
JoinsAll(S, n, ss, joined) ==
    /\ joined \in Seq(S)
    /\ \A i \in 1 .. n : \A r \in DOMAIN ss[i] : \E k \in DOMAIN joined : joined[k] = ss[i][r]

(* The joined list has the members of every list joined, at the places
   JoinsAll says. *)
LEMMA FlattenHasAll ==
    ASSUME NEW S, NEW n \in Nat \ {0}, NEW ss \in [1 .. n -> Seq(S)]
    PROVE  JoinsAll(S, n, ss, FlattenSeq(ss))
<1> DEFINE Q == Seq(S)
           base == ss[1]
           step == [s \in Nat \X Q |-> IF s[1] + 2 \in 1 .. n THEN s[2] \o ss[s[1] + 2] ELSE s[2]]
<1>1. n \in Nat /\ 1 \in 1 .. n /\ Len(ss) = n /\ Len(ss) # 0
  OBVIOUS
<1>2. base \in Q /\ step \in [Nat \X Q -> Q]
  <2>1. base \in Q
    BY <1>1
  <2>2. ASSUME NEW s \in Nat \X Q, s[1] + 2 \in 1 .. n PROVE s[2] \o ss[s[1] + 2] \in Q
    BY <2>2
  <2> QED
    BY <2>1, <2>2
<1>3. PICK g : Recurses(g, Q, base, step)
  <2> HIDE DEF base, step, Q
  <2> QED
    BY <1>2, RecursionExists
<1> DEFINE h == [i \in 1 .. n |-> g[i - 1]]
<1>4. h \in [1 .. n -> Q] /\ h[1] = ss[1]
  <2> HIDE DEF Q
  <2> QED
    BY <1>1, <1>3 DEF Recurses
<1>5. ASSUME NEW i \in 2 .. n PROVE h[i] = h[i - 1] \o ss[i]
  <2>1. /\ i - 2 \in Nat /\ (i - 2) + 1 = i - 1 /\ (i - 2) + 2 = i /\ (i - 1) - 1 = i - 2
        /\ i \in 1 .. n /\ i - 1 \in 1 .. n
    BY <1>1
  <2>2. g[i - 1] = step[<<i - 2, g[i - 2]>>] /\ g[i - 2] \in Q
    <3> HIDE DEF Q, step
    <3> QED
      BY <1>3, <2>1 DEF Recurses
  <2>3. step[<<i - 2, g[i - 2]>>] = g[i - 2] \o ss[i]
    <3> HIDE DEF Q
    <3>1. <<i - 2, g[i - 2]>> \in Nat \X Q
      BY <2>1, <2>2
    <3> QED
      BY <2>1, <3>1
  <2> QED
    BY <2>1, <2>2, <2>3
<1> DEFINE Joins(f) == f = [i \in 1 .. Len(ss) |-> IF i = 1 THEN ss[i] ELSE f[i - 1] \o ss[i]]
           fl == CHOOSE f : Joins(f)
<1>6. Joins(fl)
  <2>1. Joins(h)
    <3> SUFFICES ASSUME NEW i \in 1 .. n, i # 1 PROVE h[i] = h[i - 1] \o ss[i]
      BY <1>1, <1>4
    <3>1. i \in 2 .. n
      BY <1>1
    <3> QED
      BY <3>1, <1>5
  <2> HIDE DEF Joins
  <2> QED
    BY <2>1
<1>7. FlattenSeq(ss) = fl[n]
  BY <1>1 DEF FlattenSeq
<1> HIDE DEF fl
<1>8. fl[1] = ss[1] /\ \A i \in 2 .. n : fl[i] = fl[i - 1] \o ss[i]
  <2>1. \A i \in 2 .. n : i \in 1 .. n /\ i # 1
    BY <1>1
  <2> QED
    BY <1>1, <1>6, <2>1
(* By induction: what is joined so far is a sequence of members of S, and   *)
(* has all of them.                                                         *)
<1> DEFINE T == {d \in Nat : d + 1 <= n =>
                    /\ fl[d + 1] \in Seq(S)
                    /\ \A i \in 1 .. d + 1 : \A r \in DOMAIN ss[i] :
                          \E k \in DOMAIN fl[d + 1] : fl[d + 1][k] = ss[i][r]}
<1>9. 0 \in T
  BY <1>1, <1>8
<1>10. ASSUME NEW d \in Nat, d \in T PROVE d + 1 \in T
  <2> SUFFICES ASSUME (d + 1) + 1 <= n
               PROVE  /\ fl[(d + 1) + 1] \in Seq(S)
                      /\ \A i \in 1 .. (d + 1) + 1 : \A r \in DOMAIN ss[i] :
                            \E k \in DOMAIN fl[(d + 1) + 1] : fl[(d + 1) + 1][k] = ss[i][r]
    OBVIOUS
  <2> DEFINE e == d + 2
  <2>1. (d + 1) + 1 = e /\ e \in 2 .. n /\ e \in 1 .. n /\ e - 1 = d + 1 /\ d + 1 <= n
    BY <1>1
  <2>2. /\ fl[e - 1] \in Seq(S)
        /\ \A i \in 1 .. e - 1 : \A r \in DOMAIN ss[i] :
              \E k \in DOMAIN fl[e - 1] : fl[e - 1][k] = ss[i][r]
    BY <1>10, <2>1
  <2> HIDE DEF e
  <2>3. fl[e] = fl[e - 1] \o ss[e] /\ ss[e] \in Seq(S)
    BY <1>8, <2>1
  <2> DEFINE a == fl[e - 1]
             b == ss[e]
  <2>4. a \in Seq(S) /\ b \in Seq(S) /\ fl[e] = a \o b
    BY <2>2, <2>3
  <2>5. /\ a \o b \in Seq(S)
        /\ \A k \in DOMAIN a : k \in DOMAIN (a \o b) /\ (a \o b)[k] = a[k]
        /\ \A k \in DOMAIN b : Len(a) + k \in DOMAIN (a \o b) /\ (a \o b)[Len(a) + k] = b[k]
    <3> HIDE DEF a, b
    <3> QED
      BY <2>4
  <2>6. ASSUME NEW i \in 1 .. e, NEW r \in DOMAIN ss[i]
        PROVE  \E k \in DOMAIN fl[e] : fl[e][k] = ss[i][r]
    <3>1. CASE i = e
      BY <3>1, <2>4, <2>5, <2>6
    <3>2. CASE i \in 1 .. e - 1
      <4>1. PICK k \in DOMAIN a : a[k] = ss[i][r]
        BY <2>2, <2>6, <3>2
      <4> HIDE DEF a, b
      <4> QED
        BY <4>1, <2>4, <2>5
    <3>3. i = e \/ i \in 1 .. e - 1
      BY <2>1
    <3> QED
      BY <3>1, <3>2, <3>3
  <2>7. fl[e] \in Seq(S)
    BY <2>4, <2>5
  <2> QED
    BY <2>1, <2>6, <2>7
<1>11. n - 1 \in T
  <2> HIDE DEF T
  <2>1. n - 1 \in Nat
    BY <1>1
  <2> QED
    BY <1>9, <1>10, <2>1, SetInduction
<1>12. (n - 1) + 1 = n
  BY <1>1
<1> QED
  BY <1>7, <1>11, <1>12 DEF JoinsAll

-----------------------------------------------------------------------------
(* The parts of an ObjModule: one symbol per function, and exactly the       *)
(* relocations of all functions.                                            *)
ObjOf(fs, o) ==
    /\ o.text \in Nat
    /\ Len(o.symbols) = Len(fs)
    /\ \A i \in 1 .. Len(fs) : o.symbols[i] = [name |-> fs[i].name, offset |-> Offsets(fs)[i],
                                              defined |-> TRUE]
    /\ Len(o.relocs) \in Nat
    /\ \A k \in 1 .. Len(o.relocs) : \E i \in DOMAIN fs : \E r \in DOMAIN fs[i].relocs :
          o.relocs[k] = RelocAt(fs, i, r)
    /\ \A i \in DOMAIN fs : \A r \in DOMAIN fs[i].relocs : \E k \in 1 .. Len(o.relocs) :
          o.relocs[k] = RelocAt(fs, i, r)

(* What compile_module_obj() hands to the writer, for every module. *)
LEMMA ObjModuleFacts ==
    ASSUME NEW fs \in Modules
    PROVE  ObjOf(fs, ObjModule(fs))
<1> DEFINE n == Len(fs)
           S == UNION {{RelocAt(fs, i, r) : r \in DOMAIN fs[i].relocs} : i \in 1 .. n}
           ss == [i \in DOMAIN fs |-> [r \in DOMAIN fs[i].relocs |-> RelocAt(fs, i, r)]]
           o == ObjModule(fs)
<1>1. /\ n \in Nat \ {0} /\ DOMAIN fs = 1 .. n
      /\ \A i \in 1 .. n : /\ fs[i].size \in Nat /\ Len(fs[i].relocs) \in Nat
                            /\ DOMAIN fs[i].relocs = 1 .. Len(fs[i].relocs)
  BY ObjectAssumption
<1>2. o.text \in Nat
  <2>1. o.text = Offsets(fs)[n] + fs[n].size
    BY DEF ObjModule
  <2>2. n \in DOMAIN fs
    BY <1>1
  <2> QED
    BY <1>1, <2>1, <2>2, OffsetsUnfold
<1>3. /\ o.symbols = [i \in 1 .. n |-> [name |-> fs[i].name, offset |-> Offsets(fs)[i],
                                        defined |-> TRUE]]
      /\ o.relocs = FlattenSeq(ss)
  BY <1>1 DEF ObjModule
<1>4. Len(o.symbols) = n
  BY <1>1, <1>3
<1>5. ss \in [1 .. n -> Seq(S)]
  <2> SUFFICES ASSUME NEW i \in 1 .. n
               PROVE  [r \in DOMAIN fs[i].relocs |-> RelocAt(fs, i, r)] \in Seq(S)
    BY <1>1
  <2> DEFINE m == Len(fs[i].relocs)
             t == [r \in 1 .. m |-> RelocAt(fs, i, r)]
  <2>1. m \in Nat /\ DOMAIN fs[i].relocs = 1 .. m
    BY <1>1
  <2>2. ASSUME NEW r \in 1 .. m PROVE RelocAt(fs, i, r) \in S
    BY <2>1
  <2>3. t \in [1 .. m -> S]
    <3> HIDE DEF S, m
    <3> QED
      BY <2>2
  <2>4. t \in Seq(S)
    <3> HIDE DEF S, m, t
    <3> QED
      BY <2>1, <2>3
  <2> QED
    BY <2>1, <2>4
<1>6. /\ o.relocs \in Seq(S)
      /\ \A i \in 1 .. n : \A r \in DOMAIN ss[i] :
            \E k \in DOMAIN o.relocs : o.relocs[k] = ss[i][r]
  <2>1. n \in Nat \ {0}
    BY <1>1
  <2> HIDE DEF S, ss, n, o
  <2>2. JoinsAll(S, n, ss, FlattenSeq(ss))
    BY <1>5, <2>1, FlattenHasAll
  <2> QED
    BY <1>3, <2>2 DEF JoinsAll
<1>7. /\ Len(o.relocs) \in Nat /\ DOMAIN o.relocs = 1 .. Len(o.relocs)
      /\ \A k \in 1 .. Len(o.relocs) : o.relocs[k] \in S
  <2> HIDE DEF S, o
  <2> QED
    BY <1>6
<1>8. ASSUME NEW k \in 1 .. Len(o.relocs)
      PROVE  \E i \in DOMAIN fs : \E r \in DOMAIN fs[i].relocs : o.relocs[k] = RelocAt(fs, i, r)
  <2>1. o.relocs[k] \in S
    BY <1>7
  <2> HIDE DEF o
  <2> QED
    BY <1>1, <2>1
<1>9. ASSUME NEW i \in DOMAIN fs, NEW r \in DOMAIN fs[i].relocs
      PROVE  \E k \in 1 .. Len(o.relocs) : o.relocs[k] = RelocAt(fs, i, r)
  <2>1. ss[i][r] = RelocAt(fs, i, r) /\ r \in DOMAIN ss[i] /\ i \in 1 .. n
    BY <1>1
  <2> HIDE DEF o, ss
  <2> QED
    BY <1>6, <1>7, <2>1
<1> QED
  <2> HIDE DEF o
  <2> QED
    BY <1>2, <1>3, <1>4, <1>7, <1>8, <1>9 DEF ObjOf, o

(* Where the k-th relocation and the k-th symbol stand, counted from 0, and *)
(* what stands there once they are written.                                 *)
RelocPlace(k) == RelocOffset + kRelocSize * k
SymbolPlace(k) == SymtabOffset + kSymbolSize * k

RelocStands(k) ==
    /\ RelocPlace(k) \in DOMAIN file
    /\ file[RelocPlace(k)] = [kind |-> "reloc", at |-> obj.relocs[k + 1].at,
                              index |-> SymIndex(obj.relocs[k + 1].symbol),
                              type |-> obj.relocs[k + 1].type]

SymbolStands(k) ==
    /\ SymbolPlace(k) \in DOMAIN file
    /\ LET s == file[SymbolPlace(k)]
       IN  /\ s.kind = "symbol" /\ s.section = 1
           /\ s.value = obj.symbols[k + 1].offset
           /\ s.str_off = 0 \/ s.str_off \in DOMAIN strtab.names
           /\ NameRead(s) = obj.symbols[k + 1].name

HeadersStand ==
    /\ 0 \in DOMAIN file /\ file[0] = FileHeader
    /\ kFileHeaderSize \in DOMAIN file /\ file[kFileHeaderSize] = SectionHeader

(* The file holds the first n relocations and the first m symbols, and      *)
(* behind the headers nothing else.                                         *)
Holds(n, m) ==
    /\ HeadersStand
    /\ \A k \in 0 .. n - 1 : RelocStands(k)
    /\ \A k \in 0 .. m - 1 : SymbolStands(k)

HoldsOnly(n, m) ==
    \A p \in DOMAIN file :
        \/ p \in Nat /\ p < Text
        \/ \E k \in 0 .. n - 1 : p = RelocPlace(k)
        \/ \E k \in 0 .. m - 1 : p = SymbolPlace(k)

(* Offsets into the string table are neither 0 nor given out twice. *)
StringsInv ==
    /\ strtab.size \in Nat /\ strtab.size >= 4
    /\ \A at \in DOMAIN strtab.names : at \in Nat /\ 0 < at /\ at < strtab.size

WritingRelocs(n) ==
    stage = "relocs" /\ Holds(n, 0) /\ HoldsOnly(n, 0) /\ pos = RelocPlace(n)

WritingSymbols(m) ==
    /\ stage = "symbols" /\ Holds(Len(obj.relocs), m)
    /\ HoldsOnly(Len(obj.relocs), m) /\ pos = SymbolPlace(m)

FileInv ==
    \/ stage \in {"compiled", "assembled"}
    \/ \E n \in 0 .. Len(obj.relocs) : WritingRelocs(n)
    \/ \E m \in 0 .. Len(obj.symbols) : WritingSymbols(m)
    \/ stage = "done" /\ Holds(Len(obj.relocs), Len(obj.symbols))

IInv == Assembled /\ StringsInv /\ FileInv

-----------------------------------------------------------------------------
(* Records of one table are as many as there are places for them. *)
LEMMA Spaced ==
    ASSUME NEW n \in Nat, NEW a \in Int, NEW b \in {kRelocSize, kSymbolSize}
    PROVE  Cardinality({a + b * k : k \in 0 .. n - 1}) = n
<1> DEFINE S == {a + b * k : k \in 0 .. n - 1}
           f == [k \in 1 .. n |-> a + b * (k - 1)]
<1>1. b = 10 \/ b = 18
  BY DEF kRelocSize, kSymbolSize
<1>2. ASSUME NEW k \in 1 .. n PROVE a + b * (k - 1) \in S
  <2>1. k - 1 \in 0 .. n - 1
    OBVIOUS
  <2> QED
    BY <2>1
<1>3. f \in [1 .. n -> S]
  <2> HIDE DEF S
  <2> QED
    BY <1>2
<1>4. ASSUME NEW i \in 1 .. n, NEW j \in 1 .. n, f[i] = f[j] PROVE i = j
  <2>1. a + b * (i - 1) = a + b * (j - 1)
    BY <1>4
  <2> QED
    BY <2>1, <1>1
<1>5. ASSUME NEW p \in S PROVE \E k \in 1 .. n : f[k] = p
  <2>1. PICK k \in 0 .. n - 1 : p = a + b * k
    OBVIOUS
  <2>2. k + 1 \in 1 .. n /\ (k + 1) - 1 = k
    OBVIOUS
  <2>3. f[k + 1] = p
    BY <2>1, <2>2
  <2> QED
    BY <2>2, <2>3
<1>6. f \in Bijection(1 .. n, S)
  <2> HIDE DEF f, S
  <2> QED
    BY <1>3, <1>4, <1>5 DEF Bijection, Injection, Surjection, IsInjective
<1>7. ExistsBijection(1 .. n, S)
  <2> HIDE DEF f, S
  <2> QED
    BY <1>6 DEF ExistsBijection
<1> QED
  BY <1>7, FS_CountingElements

(* The tables are behind the headers and the code, one after the other. *)
LEMMA Places ==
    ASSUME Assembled, stage # "compiled"
    PROVE  /\ ObjOf(outs, obj)
           /\ Text = 60
           /\ RelocOffset \in Nat /\ Text <= RelocOffset
           /\ Len(obj.relocs) \in Nat /\ Len(obj.symbols) \in Nat
           /\ SymtabOffset = RelocOffset + 10 * Len(obj.relocs)
           /\ \A k : RelocPlace(k) = RelocOffset + 10 * k
           /\ \A k : SymbolPlace(k) = SymtabOffset + 18 * k
<1>1. ObjOf(outs, obj)
  BY ObjModuleFacts DEF Assembled
<1>2. Text = 60
  BY DEF Text, kFileHeaderSize, kSectionHeaderSize
<1>3. Len(obj.symbols) \in Nat
  BY <1>1, ObjectAssumption DEF ObjOf, Assembled
<1>4. obj.text \in Nat /\ Len(obj.relocs) \in Nat
  BY <1>1 DEF ObjOf
<1>5. RelocOffset \in Nat /\ Text <= RelocOffset
  BY <1>2, <1>4 DEF RelocOffset
<1>6. SymtabOffset = RelocOffset + 10 * Len(obj.relocs)
  BY <1>4, <1>5 DEF SymtabOffset, kRelocSize
<1> QED
  BY <1>1, <1>2, <1>3, <1>4, <1>5, <1>6 DEF RelocPlace, SymbolPlace, kRelocSize, kSymbolSize

(* Counting the records of a kind tells how far the writer is. *)
LEMMA WrittenCounts ==
    ASSUME Assembled, stage # "compiled",
           NEW n \in 0 .. Len(obj.relocs), NEW m \in 0 .. Len(obj.symbols),
           Holds(n, m), HoldsOnly(n, m)
    PROVE  Written("reloc") = n /\ Written("symbol") = m
<1>1. /\ Text = 60 /\ RelocOffset \in Nat /\ Text <= RelocOffset
      /\ Len(obj.relocs) \in Nat /\ Len(obj.symbols) \in Nat
      /\ SymtabOffset = RelocOffset + 10 * Len(obj.relocs)
      /\ \A k : RelocPlace(k) = RelocOffset + 10 * k
      /\ \A k : SymbolPlace(k) = SymtabOffset + 18 * k
  BY Places
<1>2. n \in Nat /\ m \in Nat /\ SymtabOffset \in Nat /\ Text <= SymtabOffset
  BY <1>1
<1> DEFINE R == {p \in DOMAIN file : p >= Text /\ file[p].kind = "reloc"}
           S == {p \in DOMAIN file : p >= Text /\ file[p].kind = "symbol"}
<1>3. ASSUME NEW k \in 0 .. n - 1 PROVE RelocPlace(k) \in R /\ RelocPlace(k) \notin S
  <2>1. RelocPlace(k) >= Text
    BY <1>1, <1>2
  <2>2. RelocPlace(k) \in DOMAIN file /\ file[RelocPlace(k)].kind = "reloc"
    <3>1. RelocStands(k)
      BY DEF Holds
    <3> QED
      BY <3>1 DEF RelocStands
  <2> QED
    BY <2>1, <2>2
<1>4. ASSUME NEW k \in 0 .. m - 1 PROVE SymbolPlace(k) \in S /\ SymbolPlace(k) \notin R
  <2>1. SymbolPlace(k) >= Text
    BY <1>1, <1>2
  <2>2. SymbolPlace(k) \in DOMAIN file /\ file[SymbolPlace(k)].kind = "symbol"
    BY DEF Holds, SymbolStands
  <2> QED
    BY <2>1, <2>2
<1>5. ASSUME NEW p \in DOMAIN file, p >= Text
      PROVE  \/ \E k \in 0 .. n - 1 : p = RelocPlace(k)
             \/ \E k \in 0 .. m - 1 : p = SymbolPlace(k)
  BY <1>1, <1>5 DEF HoldsOnly
<1>6. R = {RelocOffset + kRelocSize * k : k \in 0 .. n - 1}
  <2>1. R = {RelocPlace(k) : k \in 0 .. n - 1}
    BY <1>3, <1>4, <1>5
  <2> QED
    BY <2>1 DEF RelocPlace
<1>7. S = {SymtabOffset + kSymbolSize * k : k \in 0 .. m - 1}
  <2>1. S = {SymbolPlace(k) : k \in 0 .. m - 1}
    BY <1>3, <1>4, <1>5
  <2> QED
    BY <2>1 DEF SymbolPlace
<1>8. Cardinality(R) = n
  <2>1. RelocOffset \in Int
    BY <1>1
  <2> HIDE DEF R
  <2> QED
    BY <1>2, <1>6, <2>1, Spaced
<1>9. Cardinality(S) = m
  <2>1. SymtabOffset \in Int
    BY <1>2
  <2> HIDE DEF S
  <2> QED
    BY <1>2, <1>7, <2>1, Spaced
<1> QED
  BY <1>8, <1>9 DEF Written

(* The next place of a table is one nothing stands at. *)
LEMMA NextPlaceIsFree ==
    ASSUME Assembled, stage # "compiled", NEW n \in Nat, NEW m \in Nat, HoldsOnly(n, m)
    PROVE  /\ m = 0 => RelocPlace(n) \notin DOMAIN file
           /\ n <= Len(obj.relocs) => SymbolPlace(m) \notin DOMAIN file
<1>1. /\ Text = 60 /\ RelocOffset \in Nat /\ Text <= RelocOffset
      /\ Len(obj.relocs) \in Nat
      /\ SymtabOffset = RelocOffset + 10 * Len(obj.relocs)
      /\ \A k : RelocPlace(k) = RelocOffset + 10 * k
      /\ \A k : SymbolPlace(k) = SymtabOffset + 18 * k
  BY Places
<1>2. ASSUME m = 0, RelocPlace(n) \in DOMAIN file PROVE FALSE
  <2>1. RelocPlace(n) = RelocOffset + 10 * n /\ ~ (RelocPlace(n) < Text)
    BY <1>1
  <2>2. PICK k \in 0 .. n - 1 : RelocPlace(n) = RelocPlace(k)
    <3>1. 0 .. m - 1 = {}
      BY <1>2
    <3> QED
      BY <1>2, <2>1, <3>1 DEF HoldsOnly
  <2>3. RelocPlace(k) = RelocOffset + 10 * k
    BY <1>1
  <2> QED
    BY <1>1, <2>1, <2>2, <2>3
<1>3. ASSUME n <= Len(obj.relocs), SymbolPlace(m) \in DOMAIN file PROVE FALSE
  <2> DEFINE len == Len(obj.relocs)
  <2>1. SymbolPlace(m) = RelocOffset + 10 * len + 18 * m /\ ~ (SymbolPlace(m) < Text)
    <3>1. SymbolPlace(m) = SymtabOffset + 18 * m
      BY <1>1
    <3>2. SymtabOffset = RelocOffset + 10 * len /\ len \in Nat
      BY <1>1
    <3>3. RelocOffset \in Nat /\ Text = 60 /\ Text <= RelocOffset
      BY <1>1
    <3> HIDE DEF len
    <3> QED
      BY <3>1, <3>2, <3>3
  <2>2. \/ \E k \in 0 .. n - 1 : SymbolPlace(m) = RelocPlace(k)
        \/ \E k \in 0 .. m - 1 : SymbolPlace(m) = SymbolPlace(k)
    BY <1>3, <2>1 DEF HoldsOnly
  <2>3. CASE \E k \in 0 .. n - 1 : SymbolPlace(m) = RelocPlace(k)
    <3>1. PICK k \in 0 .. n - 1 : SymbolPlace(m) = RelocPlace(k)
      BY <2>3
    <3>2. SymbolPlace(m) = RelocOffset + 10 * k
      BY <1>1, <3>1
    <3>3. k \in Nat /\ k < len /\ len \in Nat
      BY <1>1, <1>3
    <3> HIDE DEF len
    <3> QED
      BY <1>1, <2>1, <3>2, <3>3
  <2>4. CASE \E k \in 0 .. m - 1 : SymbolPlace(m) = SymbolPlace(k)
    <3>1. PICK k \in 0 .. m - 1 : SymbolPlace(m) = SymbolPlace(k)
      BY <2>4
    <3>2. SymbolPlace(m) = SymtabOffset + 18 * k /\ SymbolPlace(m) = SymtabOffset + 18 * m
      BY <1>1, <3>1
    <3>3. SymtabOffset \in Int
      BY <1>1
    <3> QED
      BY <3>2, <3>3
  <2> QED
    BY <2>2, <2>3, <2>4
<1> QED
  BY <1>2, <1>3

(* As long as the ObjModule stays, so do the places of the tables. *)
LEMMA PlacesStay ==
    ASSUME obj' = obj
    PROVE  /\ \A k : RelocPlace(k)' = RelocPlace(k)
           /\ \A k : SymbolPlace(k)' = SymbolPlace(k)
           /\ FileHeader' = FileHeader /\ SectionHeader' = SectionHeader
           /\ \A name : SymIndex(name)' = SymIndex(name)
<1>1. RelocOffset' = RelocOffset
  BY DEF RelocOffset
<1>2. SymtabOffset' = SymtabOffset
  BY <1>1 DEF SymtabOffset
<1> QED
  BY <1>1, <1>2 DEF RelocPlace, SymbolPlace, FileHeader, SectionHeader, SymIndex

(* What stands in the file stays there when more is added to it. *)
LEMMA RecordsStay ==
    ASSUME NEW n, NEW m, Holds(n, m), obj' = obj,
           DOMAIN file \subseteq DOMAIN file', \A p \in DOMAIN file : file'[p] = file[p],
           DOMAIN strtab.names \subseteq DOMAIN strtab'.names,
           \A at \in DOMAIN strtab.names : strtab'.names[at] = strtab.names[at]
    PROVE  Holds(n, m)'
<1>1. /\ \A k : RelocPlace(k)' = RelocPlace(k)
      /\ \A k : SymbolPlace(k)' = SymbolPlace(k)
      /\ FileHeader' = FileHeader /\ SectionHeader' = SectionHeader
      /\ \A name : SymIndex(name)' = SymIndex(name)
  BY PlacesStay
<1>2. HeadersStand'
  BY <1>1 DEF Holds, HeadersStand, kFileHeaderSize
<1>3. ASSUME NEW k \in 0 .. n - 1 PROVE RelocStands(k)'
  <2>1. RelocStands(k)
    BY DEF Holds
  <2>2. /\ RelocPlace(k) \in DOMAIN file'
        /\ file'[RelocPlace(k)] = file[RelocPlace(k)]
    BY <2>1 DEF RelocStands
  <2> QED
    BY <1>1, <2>1, <2>2 DEF RelocStands
<1>4. ASSUME NEW k \in 0 .. m - 1 PROVE SymbolStands(k)'
  <2>1. SymbolStands(k)
    BY DEF Holds
  <2>2. /\ SymbolPlace(k) \in DOMAIN file'
        /\ file'[SymbolPlace(k)] = file[SymbolPlace(k)]
    BY <2>1 DEF SymbolStands
  <2> DEFINE s == file[SymbolPlace(k)]
  <2>3. s.str_off = 0 \/ s.str_off \in DOMAIN strtab.names
    BY <2>1 DEF SymbolStands
  <2>4. NameRead(s)' = NameRead(s)
    BY <1>1, <2>2, <2>3 DEF NameRead
  <2> QED
    BY <1>1, <2>1, <2>2, <2>3, <2>4 DEF SymbolStands
<1> QED
  BY <1>2, <1>3, <1>4 DEF Holds

(* Before anything is written, nothing stands. *)
LEMMA HeadersStep ==
    ASSUME IInv, PutHeaders PROVE IInv'
<1>1. /\ stage = "assembled" /\ stage' = "relocs" /\ outs' = outs /\ obj' = obj
      /\ strtab' = strtab /\ pos' = Text + obj.text
      /\ file' = [p \in {0, kFileHeaderSize} |-> IF p = 0 THEN FileHeader ELSE SectionHeader]
  BY DEF PutHeaders
<1>2. Assembled' /\ StringsInv'
  BY <1>1 DEF IInv, Assembled, StringsInv
<1>3. /\ Text = 60 /\ RelocOffset \in Nat /\ Len(obj.relocs) \in Nat
      /\ \A k : RelocPlace(k) = RelocOffset + 10 * k
  BY <1>1, Places DEF IInv
<1>4. /\ \A k : RelocPlace(k)' = RelocPlace(k)
      /\ FileHeader' = FileHeader /\ SectionHeader' = SectionHeader
  BY <1>1, PlacesStay
<1>5. HeadersStand'
  BY <1>1, <1>4 DEF HeadersStand, kFileHeaderSize
<1>6. Holds(0, 0)'
  BY <1>5 DEF Holds
<1>7. HoldsOnly(0, 0)'
  BY <1>1, <1>3 DEF HoldsOnly, Text, kFileHeaderSize, kSectionHeaderSize
<1>8. pos' = RelocPlace(0)'
  <2>1. RelocPlace(0) = RelocOffset
    BY <1>3
  <2> QED
    BY <1>1, <1>4, <2>1 DEF RelocOffset
<1>9. WritingRelocs(0)'
  BY <1>1, <1>6, <1>7, <1>8 DEF WritingRelocs
<1>10. 0 \in 0 .. Len(obj'.relocs)
  BY <1>1, <1>3
<1> QED
  BY <1>2, <1>9, <1>10 DEF IInv, FileInv

(* A relocation goes where the header says the next one is. *)
LEMMA RelocStep ==
    ASSUME IInv, PutReloc PROVE IInv'
<1> DEFINE len == Len(obj.relocs)
<1>1. stage = "relocs" /\ UNCHANGED <<outs, obj, strtab, stage>> /\ pos' = pos + kRelocSize
  BY DEF PutReloc
<1>2. PICK n \in 0 .. len : WritingRelocs(n)
  BY <1>1 DEF IInv, FileInv, WritingSymbols
<1>3. Assembled /\ len \in Nat /\ Len(obj.symbols) \in Nat
  BY <1>1, Places DEF IInv
<1>4. Written("reloc") = n
  <2>1. 0 \in 0 .. Len(obj.symbols)
    BY <1>3
  <2> QED
    BY <1>1, <1>2, <1>3, <2>1, WrittenCounts DEF WritingRelocs
<1> DEFINE r == obj.relocs[n + 1]
           rec == [kind |-> "reloc", at |-> r.at, index |-> SymIndex(r.symbol), type |-> r.type]
<1>5. n < len /\ file' = Put(file, RelocPlace(n), rec)
  BY <1>2, <1>4 DEF PutReloc, WritingRelocs
<1>6. RelocPlace(n) \notin DOMAIN file
  BY <1>1, <1>2, <1>3, NextPlaceIsFree, 0 \in Nat DEF WritingRelocs
<1>7. /\ DOMAIN file' = DOMAIN file \cup {RelocPlace(n)}
      /\ file'[RelocPlace(n)] = rec
      /\ \A p \in DOMAIN file : file'[p] = file[p]
  <2> DEFINE at == RelocPlace(n)
  <2>1. file' = Put(file, at, rec) /\ at \notin DOMAIN file
    BY <1>5, <1>6
  <2> HIDE DEF rec, at
  <2>2. /\ DOMAIN file' = DOMAIN file \cup {at}
        /\ file'[at] = rec
        /\ \A p \in DOMAIN file : file'[p] = file[p]
    BY <2>1 DEF Put
  <2> QED
    BY <2>2 DEF at
<1>8. /\ \A k : RelocPlace(k)' = RelocPlace(k)
      /\ \A name : SymIndex(name)' = SymIndex(name)
  BY <1>1, PlacesStay
<1>9. Holds(n + 1, 0)'
  <2>1. Holds(n, 0)'
    <3>1. Holds(n, 0) /\ DOMAIN file \subseteq DOMAIN file'
      BY <1>2, <1>7 DEF WritingRelocs
    <3> QED
      BY <1>1, <1>7, <3>1, RecordsStay
  <2>2. RelocStands(n)'
    BY <1>1, <1>7, <1>8 DEF RelocStands
  <2>3. \A k \in 0 .. (n + 1) - 1 : k = n \/ k \in 0 .. n - 1
    BY <1>3
  <2> QED
    BY <2>1, <2>2, <2>3 DEF Holds
<1>10. HoldsOnly(n + 1, 0)'
  <2> SUFFICES ASSUME NEW p \in DOMAIN file', ~ (p \in Nat /\ p < Text)
               PROVE  \E k \in 0 .. (n + 1) - 1 : p = RelocPlace(k)
    BY <1>8 DEF HoldsOnly, Text
  <2>1. n \in 0 .. (n + 1) - 1 /\ \A k \in 0 .. n - 1 : k \in 0 .. (n + 1) - 1
    BY <1>3
  <2>2. CASE p = RelocPlace(n)
    BY <2>1, <2>2
  <2>3. CASE p \in DOMAIN file
    <3>1. \/ \E k \in 0 .. n - 1 : p = RelocPlace(k)
          \/ \E k \in 0 .. 0 - 1 : p = SymbolPlace(k)
      BY <1>2, <2>3 DEF WritingRelocs, HoldsOnly
    <3> QED
      BY <2>1, <3>1
  <2> QED
    BY <1>7, <2>2, <2>3
<1>11. pos' = RelocPlace(n + 1)'
  <2>1. pos = RelocOffset + 10 * n /\ RelocPlace(n + 1) = RelocOffset + 10 * (n + 1)
    BY <1>1, <1>2, <1>3, Places DEF WritingRelocs
  <2>2. RelocOffset \in Nat /\ kRelocSize = 10
    BY <1>1, <1>3, Places DEF kRelocSize
  <2> QED
    BY <1>1, <1>3, <1>8, <2>1, <2>2
<1>12. n + 1 \in 0 .. len
  BY <1>3, <1>5
<1>13. WritingRelocs(n + 1)'
  BY <1>1, <1>9, <1>10, <1>11 DEF WritingRelocs
<1>14. Assembled' /\ StringsInv'
  BY <1>1 DEF IInv, Assembled, StringsInv
<1> QED
  BY <1>1, <1>12, <1>13, <1>14 DEF IInv, FileInv

(* The relocations end where the symbols begin. *)
LEMMA EndRelocsStep ==
    ASSUME IInv, EndRelocs PROVE IInv'
<1> DEFINE len == Len(obj.relocs)
<1>1. stage = "relocs" /\ stage' = "symbols" /\ UNCHANGED <<outs, obj, file, pos, strtab>>
  BY DEF EndRelocs
<1>2. PICK n \in 0 .. len : WritingRelocs(n)
  BY <1>1 DEF IInv, FileInv, WritingSymbols
<1>3. Assembled /\ len \in Nat /\ Len(obj.symbols) \in Nat
  BY <1>1, Places DEF IInv
<1>4. 0 \in 0 .. Len(obj.symbols)
  BY <1>3
<1>5. n = len
  <2>1. Written("reloc") = n
    BY <1>1, <1>2, <1>3, <1>4, WrittenCounts DEF WritingRelocs
  <2> QED
    BY <2>1 DEF EndRelocs
<1>6. pos = SymbolPlace(0)
  <2>1. /\ RelocPlace(n) = RelocOffset + 10 * n /\ SymbolPlace(0) = SymtabOffset + 18 * 0
        /\ SymtabOffset = RelocOffset + 10 * len /\ RelocOffset \in Nat
    BY <1>1, <1>3, Places
  <2>2. pos = RelocPlace(n)
    BY <1>2 DEF WritingRelocs
  <2> HIDE DEF len
  <2> QED
    BY <1>3, <1>5, <2>1, <2>2
<1>7. /\ \A k : RelocPlace(k)' = RelocPlace(k)
      /\ \A k : SymbolPlace(k)' = SymbolPlace(k)
  BY <1>1, PlacesStay
<1>8. Holds(len, 0)'
  <2>1. Holds(len, 0)
    BY <1>2, <1>5 DEF WritingRelocs
  <2> QED
    BY <1>1, <2>1, RecordsStay
<1>9. HoldsOnly(len, 0)'
  <2>1. HoldsOnly(len, 0)
    BY <1>2, <1>5 DEF WritingRelocs
  <2> QED
    BY <1>1, <1>7, <2>1 DEF HoldsOnly, Text
<1>10. WritingSymbols(0)'
  BY <1>1, <1>6, <1>7, <1>8, <1>9 DEF WritingSymbols
<1>11. Assembled' /\ StringsInv'
  BY <1>1 DEF IInv, Assembled, StringsInv
<1> QED
  BY <1>1, <1>4, <1>10, <1>11 DEF IInv, FileInv

(* A symbol goes where the header says the next one is, and a linker reads  *)
(* its name there, from the record or from the string table.                *)
LEMMA SymbolStep ==
    ASSUME IInv, PutSymbol PROVE IInv'
<1> DEFINE len == Len(obj.relocs)
<1>1. stage = "symbols" /\ UNCHANGED <<outs, obj, stage>> /\ pos' = pos + kSymbolSize
  BY DEF PutSymbol
<1>2. PICK m \in 0 .. Len(obj.symbols) : WritingSymbols(m)
  BY <1>1 DEF IInv, FileInv, WritingRelocs
<1>3. /\ Assembled /\ len \in Nat /\ Len(obj.symbols) \in Nat /\ ObjOf(outs, obj)
      /\ len \in 0 .. len
  BY <1>1, Places DEF IInv
<1>4. Written("symbol") = m
  BY <1>1, <1>2, <1>3, WrittenCounts DEF WritingSymbols
<1> DEFINE s == obj.symbols[m + 1]
           long == NameLen[s.name] > 8
           rec == [kind |-> "symbol", name |-> IF long THEN "" ELSE s.name,
                   str_off |-> IF long THEN strtab.size ELSE 0,
                   value |-> s.offset, section |-> IF s.defined THEN 1 ELSE 0]
<1>5. /\ m < Len(obj.symbols) /\ file' = Put(file, SymbolPlace(m), rec)
      /\ strtab' = IF long THEN InternName(s.name) ELSE strtab
  BY <1>2, <1>4 DEF PutSymbol, WritingSymbols
<1>6. SymbolPlace(m) \notin DOMAIN file
  BY <1>1, <1>2, <1>3, NextPlaceIsFree DEF WritingSymbols
<1>7. /\ DOMAIN file' = DOMAIN file \cup {SymbolPlace(m)}
      /\ file'[SymbolPlace(m)] = rec
      /\ \A p \in DOMAIN file : file'[p] = file[p]
  <2> DEFINE at == SymbolPlace(m)
  <2>1. file' = Put(file, at, rec) /\ at \notin DOMAIN file
    BY <1>5, <1>6
  <2> HIDE DEF rec, at
  <2>2. /\ DOMAIN file' = DOMAIN file \cup {at}
        /\ file'[at] = rec
        /\ \A p \in DOMAIN file : file'[p] = file[p]
    BY <2>1 DEF Put
  <2> QED
    BY <2>2 DEF at
<1>8. \A k : SymbolPlace(k)' = SymbolPlace(k)
  BY <1>1, PlacesStay
<1>9. /\ m + 1 \in 0 .. Len(obj.symbols) /\ m + 1 \in 1 .. Len(outs)
      /\ s = [name |-> outs[m + 1].name, offset |-> Offsets(outs)[m + 1], defined |-> TRUE]
  <2> DEFINE count == Len(obj.symbols)
  <2>1. m \in 0 .. count /\ count \in Nat /\ m < count
    BY <1>3, <1>5
  <2>2. m + 1 \in 0 .. count /\ m + 1 \in 1 .. count
    <3> HIDE DEF count
    <3> QED
      BY <2>1
  <2>3. count = Len(outs)
    BY <1>3 DEF ObjOf
  <2>4. s = [name |-> outs[m + 1].name, offset |-> Offsets(outs)[m + 1], defined |-> TRUE]
    BY <1>3, <2>2, <2>3 DEF ObjOf
  <2> QED
    BY <2>2, <2>3, <2>4
<1>10. /\ strtab.size \in Nat /\ strtab.size >= 4 /\ strtab.size \notin DOMAIN strtab.names
       /\ \A at \in DOMAIN strtab.names : at \in Nat /\ 0 < at /\ at < strtab.size
  BY DEF IInv, StringsInv
<1>11. /\ DOMAIN strtab.names \subseteq DOMAIN strtab'.names
       /\ \A at \in DOMAIN strtab.names : strtab'.names[at] = strtab.names[at]
       /\ long => /\ strtab.size \in DOMAIN strtab'.names
                  /\ strtab'.names[strtab.size] = s.name
  BY <1>5, <1>10 DEF InternName, Put
<1>12. StringsInv'
  <2>1. NameLen[s.name] \in Nat
    <3>1. s.name = outs[m + 1].name
      BY <1>9
    <3>2. outs \in Modules /\ DOMAIN outs = 1 .. Len(outs)
      BY <1>3, ObjectAssumption DEF Assembled
    <3>3. m + 1 \in DOMAIN outs
      BY <1>9, <3>2
    <3> HIDE DEF s
    <3> QED
      BY <3>1, <3>2, <3>3, ObjectAssumption
  <2>2. CASE ~ long
    BY <1>5, <1>10, <2>2 DEF StringsInv
  <2>3. CASE long
    <3>1. strtab' = InternName(s.name)
      BY <1>5, <2>3
    <3>2. /\ strtab'.size = strtab.size + NameLen[s.name] + 1
          /\ DOMAIN strtab'.names = DOMAIN strtab.names \cup {strtab.size}
      BY <3>1 DEF InternName, Put
    <3> QED
      BY <1>10, <2>1, <3>2 DEF StringsInv
  <2> QED
    BY <2>2, <2>3
<1>13. Holds(len, m + 1)'
  <2>1. Holds(len, m)'
    <3>1. Holds(len, m) /\ DOMAIN file \subseteq DOMAIN file'
      BY <1>2, <1>7 DEF WritingSymbols
    <3> QED
      BY <1>1, <1>7, <1>11, <3>1, RecordsStay
  <2>2. SymbolStands(m)'
    <3>1. rec.kind = "symbol" /\ rec.section = 1 /\ rec.value = s.offset
      BY <1>9
    <3>2. CASE long
      <4>1. /\ rec.str_off = strtab.size /\ rec.str_off # 0
            /\ rec.str_off \in DOMAIN strtab'.names /\ strtab'.names[rec.str_off] = s.name
        BY <1>10, <1>11, <3>2
      <4> HIDE DEF rec
      <4> QED
        BY <1>1, <1>7, <1>8, <3>1, <4>1 DEF SymbolStands, NameRead
    <3>3. CASE ~ long
      <4>1. rec.str_off = 0 /\ rec.name = s.name
        BY <3>3
      <4> HIDE DEF rec
      <4> QED
        BY <1>1, <1>7, <1>8, <3>1, <4>1 DEF SymbolStands, NameRead
    <3> QED
      BY <3>2, <3>3
  <2>3. \A k \in 0 .. (m + 1) - 1 : k = m \/ k \in 0 .. m - 1
    BY <1>3
  <2> QED
    BY <2>1, <2>2, <2>3 DEF Holds
<1>14. HoldsOnly(len, m + 1)'
  <2>1. m \in 0 .. (m + 1) - 1 /\ \A k \in 0 .. m - 1 : k \in 0 .. (m + 1) - 1
    BY <1>3
  <2>2. \A k : RelocPlace(k)' = RelocPlace(k)
    BY <1>1, PlacesStay
  <2>3. ASSUME NEW p \in DOMAIN file'
        PROVE  \/ p \in Nat /\ p < Text
               \/ \E k \in 0 .. len - 1 : p = RelocPlace(k)
               \/ \E k \in 0 .. (m + 1) - 1 : p = SymbolPlace(k)
    <3>1. CASE p = SymbolPlace(m)
      BY <2>1, <3>1
    <3>2. CASE p \in DOMAIN file
      <4>1. HoldsOnly(len, m)
        BY <1>2 DEF WritingSymbols
      <4> QED
        BY <2>1, <3>2, <4>1 DEF HoldsOnly
    <3> QED
      BY <1>7, <3>1, <3>2
  <2> QED
    BY <1>1, <1>8, <2>2, <2>3 DEF HoldsOnly, Text
<1>15. pos' = SymbolPlace(m + 1)'
  <2>1. /\ pos = SymbolPlace(m) /\ SymbolPlace(m) = SymtabOffset + 18 * m
        /\ SymbolPlace(m + 1) = SymtabOffset + 18 * (m + 1)
    BY <1>1, <1>2, <1>3, Places DEF WritingSymbols
  <2>2. SymtabOffset \in Nat /\ kSymbolSize = 18
    <3>1. SymtabOffset = RelocOffset + 10 * len /\ RelocOffset \in Nat
      BY <1>1, <1>3, Places
    <3> HIDE DEF len
    <3> QED
      BY <1>3, <3>1 DEF kSymbolSize
  <2> QED
    BY <1>1, <1>8, <2>1, <2>2
<1>16. m + 1 \in 0 .. Len(obj.symbols)
  BY <1>9
<1>17. WritingSymbols(m + 1)'
  BY <1>1, <1>13, <1>14, <1>15 DEF WritingSymbols
<1>18. Assembled'
  BY <1>1 DEF IInv, Assembled
<1> QED
  BY <1>1, <1>12, <1>16, <1>17, <1>18 DEF IInv, FileInv

(* The string table behind the symbols disturbs neither. *)
LEMMA StringsStep ==
    ASSUME IInv, PutStrings PROVE IInv'
<1>1. /\ stage = "symbols" /\ stage' = "done" /\ UNCHANGED <<outs, obj, strtab>>
      /\ Written("symbol") = Len(obj.symbols)
      /\ file' = Put(file, pos, [kind |-> "strings", size |-> strtab.size])
  BY DEF PutStrings
<1>2. PICK m \in 0 .. Len(obj.symbols) : WritingSymbols(m)
  BY <1>1 DEF IInv, FileInv, WritingRelocs
<1>3. Assembled /\ Len(obj.relocs) \in Nat /\ Len(obj.symbols) \in Nat
  BY <1>1, Places DEF IInv
<1>4. Len(obj.relocs) \in 0 .. Len(obj.relocs)
  BY <1>3
<1>5. m = Len(obj.symbols)
  BY <1>1, <1>2, <1>3, <1>4, WrittenCounts DEF WritingSymbols
<1>6. pos \notin DOMAIN file
  BY <1>1, <1>2, <1>3, NextPlaceIsFree DEF WritingSymbols
<1>7. DOMAIN file \subseteq DOMAIN file' /\ \A p \in DOMAIN file : file'[p] = file[p]
  BY <1>1, <1>6 DEF Put
<1>8. Holds(Len(obj.relocs), m)
  BY <1>2 DEF WritingSymbols
<1>9. Holds(Len(obj.relocs), m)'
  BY <1>1, <1>7, <1>8, RecordsStay
<1> QED
  BY <1>1, <1>5, <1>9 DEF IInv, FileInv, Assembled, StringsInv

(* The writer keeps the invariant: what has been written stands at its place,
   and the file holds nothing else. *)
THEOREM Invariance == Spec => []IInv
<1>1. Init => IInv
  BY DEF Init, IInv, Assembled, StringsInv, FileInv
<1>2. IInv /\ [Next]_vars => IInv'
  <2> SUFFICES ASSUME IInv, [Next]_vars PROVE IInv'
    OBVIOUS
  <2>1. CASE Assemble
    BY <2>1 DEF Assemble, IInv, Assembled, StringsInv, FileInv
  <2>2. CASE UNCHANGED vars
    <3>1. UNCHANGED <<outs, obj, file, pos, strtab, stage>>
      BY <2>2 DEF vars
    <3>2. /\ \A k : RelocPlace(k)' = RelocPlace(k)
          /\ \A k : SymbolPlace(k)' = SymbolPlace(k)
      BY <3>1, PlacesStay
    <3>3. ASSUME NEW n, NEW m, Holds(n, m) PROVE Holds(n, m)'
      BY <3>1, <3>3, RecordsStay
    <3>4. ASSUME NEW n, NEW m, HoldsOnly(n, m) PROVE HoldsOnly(n, m)'
      BY <3>1, <3>2, <3>4 DEF HoldsOnly, Text
    <3>5. ASSUME NEW n, WritingRelocs(n) PROVE WritingRelocs(n)'
      BY <3>1, <3>2, <3>3, <3>4, <3>5 DEF WritingRelocs
    <3>6. ASSUME NEW m, WritingSymbols(m) PROVE WritingSymbols(m)'
      BY <3>1, <3>2, <3>3, <3>4, <3>6 DEF WritingSymbols
    <3>7. FileInv'
      BY <3>1, <3>3, <3>5, <3>6 DEF IInv, FileInv
    <3> QED
      BY <3>1, <3>7 DEF IInv, Assembled, StringsInv
  <2> QED
    BY <2>1, <2>2, HeadersStep, RelocStep, EndRelocsStep, SymbolStep, StringsStep DEF Next
<1> QED
  BY <1>1, <1>2, PTL DEF Spec

-----------------------------------------------------------------------------
(* What a linker reads of a finished file. *)
LEMMA LinkerReads ==
    ASSUME IInv, stage = "done"
    PROVE  /\ file[0].num_symbols = Len(obj.symbols)
           /\ file[kFileHeaderSize] = SectionHeader
           /\ \A k \in 0 .. Len(obj.symbols) - 1 :
                 /\ SymbolRecord(k).kind = "symbol" /\ SymbolRecord(k).section = 1
                 /\ SymbolRecord(k).value = obj.symbols[k + 1].offset
                 /\ NameRead(SymbolRecord(k)) = obj.symbols[k + 1].name
           /\ \A k \in 0 .. Len(obj.relocs) - 1 :
                 Record(RelocPlace(k), "reloc") =
                    [kind |-> "reloc", at |-> obj.relocs[k + 1].at,
                     index |-> SymIndex(obj.relocs[k + 1].symbol),
                     type |-> obj.relocs[k + 1].type]
<1>1. Holds(Len(obj.relocs), Len(obj.symbols))
  BY DEF IInv, FileInv, WritingRelocs, WritingSymbols
<1>2. /\ ObjOf(outs, obj) /\ Text = 60 /\ RelocOffset \in Nat /\ Text <= RelocOffset
      /\ Len(obj.relocs) \in Nat /\ Len(obj.symbols) \in Nat
      /\ SymtabOffset = RelocOffset + 10 * Len(obj.relocs)
      /\ \A k : RelocPlace(k) = RelocOffset + 10 * k
      /\ \A k : SymbolPlace(k) = SymtabOffset + 18 * k
  BY Places DEF IInv
<1>3. file[0] = FileHeader /\ file[kFileHeaderSize] = SectionHeader
  BY <1>1 DEF Holds, HeadersStand
<1>4. SymtabOffset \in Nat /\ Text <= SymtabOffset
  <2> DEFINE len == Len(obj.relocs)
  <2>1. len \in Nat /\ SymtabOffset = RelocOffset + 10 * len
    BY <1>2
  <2>2. RelocOffset \in Nat /\ Text = 60 /\ Text <= RelocOffset
    BY <1>2
  <2> HIDE DEF len
  <2> QED
    BY <2>1, <2>2
<1>5. ASSUME NEW k \in 0 .. Len(obj.symbols) - 1
      PROVE  SymbolRecord(k) = file[SymbolPlace(k)] /\ SymbolStands(k)
  <2>1. SymbolStands(k)
    BY <1>1 DEF Holds
  <2>2. file[0].symtab = SymtabOffset
    <3>1. Len(obj.symbols) # 0
      BY <1>2
    <3> QED
      BY <1>3, <3>1 DEF FileHeader, Unless0
  <2>3. SymbolPlace(k) >= Text
    <3>1. SymbolPlace(k) = SymtabOffset + 18 * k /\ k \in Nat
      <4> DEFINE count == Len(obj.symbols)
      <4>1. count \in Nat /\ k \in 0 .. count - 1
        BY <1>2
      <4> HIDE DEF count
      <4>2. k \in Nat
        BY <4>1
      <4> QED
        BY <1>2, <4>2
    <3>2. Text = 60
      BY <1>2
    <3> QED
      BY <1>4, <3>1, <3>2
  <2> QED
    BY <2>1, <2>2, <2>3 DEF SymbolStands, SymbolRecord, Record, SymbolPlace
<1>6. ASSUME NEW k \in 0 .. Len(obj.relocs) - 1
      PROVE  Record(RelocPlace(k), "reloc") = file[RelocPlace(k)] /\ RelocStands(k)
  <2>1. RelocStands(k)
    BY <1>1 DEF Holds
  <2>2. RelocPlace(k) >= Text
    <3>1. RelocPlace(k) = RelocOffset + 10 * k /\ k \in Nat
      BY <1>2
    <3> QED
      BY <1>2, <3>1
  <2> QED
    BY <2>1, <2>2 DEF RelocStands, Record
<1>7. file[0].num_symbols = Len(obj.symbols)
  BY <1>3 DEF FileHeader
<1>8. ASSUME NEW k \in 0 .. Len(obj.symbols) - 1
      PROVE  /\ SymbolRecord(k).kind = "symbol" /\ SymbolRecord(k).section = 1
             /\ SymbolRecord(k).value = obj.symbols[k + 1].offset
             /\ NameRead(SymbolRecord(k)) = obj.symbols[k + 1].name
  BY <1>5 DEF SymbolStands
<1>9. ASSUME NEW k \in 0 .. Len(obj.relocs) - 1
      PROVE  Record(RelocPlace(k), "reloc") =
                [kind |-> "reloc", at |-> obj.relocs[k + 1].at,
                 index |-> SymIndex(obj.relocs[k + 1].symbol), type |-> obj.relocs[k + 1].type]
  BY <1>6 DEF RelocStands
<1> QED
  BY <1>3, <1>7, <1>8, <1>9

(* Every function of every module is found under its name: the symbols are  *)
(* where the file header says, and the names of more than eight bytes where *)
(* the symbols say, although write_coff_x64() works out both beforehand.    *)
THEOREM NamesAreFound == Spec => []FunctionsAreNamed
<1>1. IInv => FunctionsAreNamed
  <2> SUFFICES ASSUME IInv, stage = "done", NEW i \in DOMAIN outs
               PROVE  \E n \in 0 .. file[0].num_symbols - 1 :
                          /\ SymbolRecord(n).kind = "symbol" /\ SymbolRecord(n).section = 1
                          /\ NameRead(SymbolRecord(n)) = outs[i].name
                          /\ SymbolRecord(n).value = Offsets(outs)[i]
    BY DEF FunctionsAreNamed
  <2>1. ObjOf(outs, obj) /\ DOMAIN outs = 1 .. Len(outs) /\ Len(outs) \in Nat
    BY Places, ObjectAssumption DEF IInv, Assembled
  <2>2. /\ i \in 1 .. Len(outs) /\ Len(obj.symbols) = Len(outs)
        /\ obj.symbols[i].name = outs[i].name /\ obj.symbols[i].offset = Offsets(outs)[i]
    <3>1. i \in 1 .. Len(outs)
      BY <2>1
    <3>2. Len(obj.symbols) = Len(outs)
      BY <2>1 DEF ObjOf
    <3>3. obj.symbols[i] = [name |-> outs[i].name, offset |-> Offsets(outs)[i], defined |-> TRUE]
      BY <2>1, <3>1 DEF ObjOf
    <3> QED
      BY <3>1, <3>2, <3>3
  <2> DEFINE n == i - 1
  <2>3. n \in 0 .. Len(obj.symbols) - 1 /\ n + 1 = i
    BY <2>1, <2>2
  <2> HIDE DEF n
  <2>4. /\ file[0].num_symbols = Len(obj.symbols)
        /\ SymbolRecord(n).kind = "symbol" /\ SymbolRecord(n).section = 1
        /\ SymbolRecord(n).value = obj.symbols[n + 1].offset
        /\ NameRead(SymbolRecord(n)) = obj.symbols[n + 1].name
    BY <2>3, LinkerReads
  <2> QED
    BY <2>2, <2>3, <2>4
<1> QED
  BY <1>1, Invariance, PTL

-----------------------------------------------------------------------------
(* No two functions bear one name, and the section header holds the number  *)
(* of relocations, as it does while that number has no more bits than it.   *)
NamesDistinct == \A i, j \in DOMAIN outs : outs[i].name = outs[j].name => i = j
CallsCounted == SectionHeader.num_relocs = Len(obj.relocs)

(* The function a call means, whether the module has it or not. *)
LEMMA IndexOfRange ==
    ASSUME NEW fs \in Modules, NEW node
    PROVE  /\ IndexOf(fs, node) \in 1 .. Len(fs)
           /\ (\E i \in DOMAIN fs : fs[i].node = node) => fs[IndexOf(fs, node)].node = node
           /\ ~ (\E i \in DOMAIN fs : fs[i].node = node) => IndexOf(fs, node) = 1
<1> DEFINE at == {i \in DOMAIN fs : fs[i].node = node}
<1>1. Len(fs) \in Nat \ {0} /\ DOMAIN fs = 1 .. Len(fs)
  BY ObjectAssumption
<1>2. CASE at = {}
  BY <1>1, <1>2 DEF IndexOf
<1>3. CASE at # {}
  <2>1. IndexOf(fs, node) = Max(at)
    BY <1>3 DEF IndexOf
  <2>2. at \in SUBSET (0 .. Len(fs))
    BY <1>1
  <2>3. \E m \in at : \A x \in at : x <= m
    <3> HIDE DEF at
    <3> QED
      BY <1>1, <1>3, <2>2, GreatestElement
  <2>4. \E m \in at : \A x \in at : m >= x
    BY <2>2, <2>3
  <2>5. Max(at) \in at
    <3> HIDE DEF at
    <3> QED
      BY <2>4 DEF Max
  <2> QED
    BY <1>1, <2>1, <2>5
<1> QED
  BY <1>2, <1>3

(* The symbol a relocation names is that of the function the call means. *)
LEMMA SymbolsLead ==
    ASSUME IInv, stage = "done", NamesDistinct, NEW node
    PROVE  SymIndex(NameOf(outs, node)) = IndexOf(outs, node) - 1
<1>1. /\ outs \in Modules /\ ObjOf(outs, obj) /\ DOMAIN obj.symbols = 1 .. Len(obj.symbols)
      /\ Len(outs) \in Nat \ {0} /\ DOMAIN outs = 1 .. Len(outs)
  BY Places, ObjectAssumption DEF IInv, Assembled
<1>2. ASSUME NEW i \in 1 .. Len(outs) PROVE obj.symbols[i].name = outs[i].name
  <2>1. obj.symbols[i] = [name |-> outs[i].name, offset |-> Offsets(outs)[i], defined |-> TRUE]
    BY <1>1 DEF ObjOf
  <2> QED
    BY <2>1
<1>3. DOMAIN obj.symbols = 1 .. Len(outs)
  BY <1>1 DEF ObjOf
<1>4. CASE \E i \in DOMAIN outs : outs[i].node = node
  <2> DEFINE k == IndexOf(outs, node)
  <2>1. k \in 1 .. Len(outs)
    BY <1>1, IndexOfRange
  <2>2. NameOf(outs, node) = outs[k].name
    BY <1>4 DEF NameOf
  <2> HIDE DEF k
  <2>3. {i \in DOMAIN obj.symbols : obj.symbols[i].name = outs[k].name} = {k}
    BY <1>1, <1>2, <1>3, <2>1 DEF NamesDistinct
  <2>4. Min({k}) = k
    BY <2>1 DEF Min
  <2>5. SymIndex(outs[k].name) = k - 1
    BY <2>3, <2>4 DEF SymIndex
  <2> QED
    BY <2>2, <2>5 DEF k
<1>5. CASE ~ (\E i \in DOMAIN outs : outs[i].node = node)
  <2>1. NameOf(outs, node) = "unknown" /\ IndexOf(outs, node) = 1
    BY <1>1, <1>5, IndexOfRange DEF NameOf
  <2>2. \A i \in DOMAIN outs : outs[i].name # "unknown"
    BY <1>1, ObjectAssumption
  <2>3. {i \in DOMAIN obj.symbols : obj.symbols[i].name = "unknown"} = {}
    BY <1>1, <1>2, <1>3, <2>2
  <2> QED
    BY <2>1, <2>3 DEF SymIndex
<1> QED
  BY <1>4, <1>5

(* What the linker makes of a relocation is what jit_compile_ra() patches. *)
PatchOf(i, r) ==
    <<Offsets(outs)[i] + outs[i].relocs[r].at,
      Offsets(outs)[IndexOf(outs, outs[i].relocs[r].target)]>>

(* Read through the headers of the finished file, a relocation leads to the
   place the JIT patches and to the symbol of the function it calls. *)
LEMMA RelocLeads ==
    ASSUME IInv, stage = "done", NamesDistinct,
           NEW k \in 0 .. Len(obj.relocs) - 1, NEW i \in DOMAIN outs,
           NEW r \in DOMAIN outs[i].relocs, obj.relocs[k + 1] = RelocAt(outs, i, r)
    PROVE  LET d == Record(RelocPlace(k), "reloc")
           IN  /\ d.kind = "reloc" /\ SymbolRecord(d.index).kind = "symbol"
               /\ <<d.at, SymbolRecord(d.index).value>> = PatchOf(i, r)
<1> DEFINE d == Record(RelocPlace(k), "reloc")
           target == IndexOf(outs, outs[i].relocs[r].target)
<1>1. /\ outs \in Modules /\ ObjOf(outs, obj) /\ Len(outs) \in Nat
  BY Places, ObjectAssumption DEF IInv, Assembled
<1>2. d = [kind |-> "reloc", at |-> Offsets(outs)[i] + outs[i].relocs[r].at,
           index |-> target - 1, type |-> ADDR64]
  <2>1. d = [kind |-> "reloc", at |-> obj.relocs[k + 1].at,
             index |-> SymIndex(obj.relocs[k + 1].symbol), type |-> obj.relocs[k + 1].type]
    BY LinkerReads
  <2>2. SymIndex(NameOf(outs, outs[i].relocs[r].target)) = target - 1
    BY SymbolsLead
  <2> HIDE DEF d, target
  <2> QED
    BY <2>1, <2>2 DEF RelocAt
<1>3. target \in 1 .. Len(outs)
  BY <1>1, IndexOfRange
<1> HIDE DEF d, target
<1>4. Len(obj.symbols) = Len(outs) /\ obj.symbols[target].offset = Offsets(outs)[target]
  <2>1. obj.symbols[target] =
            [name |-> outs[target].name, offset |-> Offsets(outs)[target], defined |-> TRUE]
    BY <1>1, <1>3 DEF ObjOf
  <2>2. Len(obj.symbols) = Len(outs)
    BY <1>1 DEF ObjOf
  <2> QED
    BY <2>1, <2>2
<1>5. target - 1 \in 0 .. Len(obj.symbols) - 1 /\ (target - 1) + 1 = target
  BY <1>1, <1>3, <1>4
<1>6. /\ SymbolRecord(target - 1).kind = "symbol"
      /\ SymbolRecord(target - 1).value = obj.symbols[(target - 1) + 1].offset
  BY <1>5, LinkerReads
<1>7. SymbolRecord(target - 1).value = Offsets(outs)[target]
  BY <1>4, <1>5, <1>6
<1>8. d.kind = "reloc" /\ d.index = target - 1
      /\ d.at = Offsets(outs)[i] + outs[i].relocs[r].at
  BY <1>2
<1> QED
  BY <1>6, <1>7, <1>8 DEF PatchOf, d, target

(* The linked object calls what the code in memory calls: of functions with *)
(* distinct names, and of no more calls than the section header can count.  *)
THEOREM LinkedAsCompiled == Spec => [](NamesDistinct /\ CallsCounted => LinksLikeJit)
<1>1. IInv => (NamesDistinct /\ CallsCounted => LinksLikeJit)
  <2> SUFFICES ASSUME IInv, NamesDistinct, CallsCounted, stage = "done"
               PROVE  LinkerPatches = JitPatches(outs)
    BY DEF LinksLikeJit
  <2> DEFINE len == Len(obj.relocs)
             Made(rec) == IF rec.kind = "reloc" /\ SymbolRecord(rec.index).kind = "symbol"
                          THEN <<rec.at, SymbolRecord(rec.index).value>> ELSE <<"broken">>
  <2>1. /\ ObjOf(outs, obj) /\ len \in Nat
        /\ \A k : RelocPlace(k) = RelocOffset + 10 * k
    BY Places DEF IInv
  <2>2. RelocRecords = {Record(RelocPlace(k), "reloc") : k \in 0 .. len - 1}
    <3>1. /\ file[kFileHeaderSize] = SectionHeader
          /\ SectionHeader.relocs = Unless0(len, RelocOffset) /\ SectionHeader.num_relocs = len
      BY LinkerReads DEF SectionHeader, CallsCounted
    <3> DEFINE h == file[kFileHeaderSize]
    <3>2. h.num_relocs = len /\ (len # 0 => h.relocs = RelocOffset)
      BY <3>1 DEF Unless0
    <3>3. RelocRecords = {Record(h.relocs + kRelocSize * k, "reloc") : k \in 0 .. len - 1}
      BY <3>2 DEF RelocRecords
    <3> HIDE DEF h, len
    <3>4. ASSUME NEW k \in 0 .. len - 1 PROVE h.relocs + kRelocSize * k = RelocPlace(k)
      <4>1. len # 0
        BY <2>1, <3>4
      <4> QED
        BY <2>1, <3>2, <4>1 DEF kRelocSize
    <3> QED
      BY <3>3, <3>4
  <2>3. LinkerPatches = {Made(rec) : rec \in RelocRecords}
    BY DEF LinkerPatches
  <2>4. LinkerPatches = {Made(Record(RelocPlace(k), "reloc")) : k \in 0 .. len - 1}
    <3> HIDE DEF Made, len
    <3> QED
      BY <2>2, <2>3
  <2>5. JitPatches(outs) = UNION {{PatchOf(i, r) : r \in DOMAIN outs[i].relocs} : i \in DOMAIN outs}
    BY DEF JitPatches, PatchOf
  <2>6. ASSUME NEW k \in 0 .. len - 1, NEW i \in DOMAIN outs,
               NEW r \in DOMAIN outs[i].relocs, obj.relocs[k + 1] = RelocAt(outs, i, r)
        PROVE  Made(Record(RelocPlace(k), "reloc")) = PatchOf(i, r)
    BY <2>6, RelocLeads
  <2> HIDE DEF Made
  <2>7. ASSUME NEW k \in 0 .. len - 1
        PROVE  Made(Record(RelocPlace(k), "reloc")) \in JitPatches(outs)
    <3>1. k + 1 \in 1 .. Len(obj.relocs)
      BY <2>1, <2>7
    <3>2. PICK i \in DOMAIN outs : \E r \in DOMAIN outs[i].relocs :
                obj.relocs[k + 1] = RelocAt(outs, i, r)
      BY <2>1, <3>1 DEF ObjOf
    <3>3. PICK r \in DOMAIN outs[i].relocs : obj.relocs[k + 1] = RelocAt(outs, i, r)
      BY <3>2
    <3> QED
      BY <2>5, <2>6, <3>3
  <2>8. ASSUME NEW i \in DOMAIN outs, NEW r \in DOMAIN outs[i].relocs
        PROVE  \E k \in 0 .. len - 1 : Made(Record(RelocPlace(k), "reloc")) = PatchOf(i, r)
    <3>1. PICK n \in 1 .. len : obj.relocs[n] = RelocAt(outs, i, r)
      BY <2>1 DEF ObjOf
    <3> DEFINE k == n - 1
    <3> HIDE DEF len
    <3>2. k \in 0 .. len - 1 /\ k + 1 = n
      BY <2>1
    <3> HIDE DEF k
    <3> QED
      BY <2>6, <3>1, <3>2
  <2> HIDE DEF len
  <2>9. \A p \in LinkerPatches : p \in JitPatches(outs)
    BY <2>4, <2>7
  <2>10. \A p \in JitPatches(outs) : p \in LinkerPatches
    BY <2>4, <2>5, <2>8
  <2> QED
    BY <2>9, <2>10
<1> QED
  BY <1>1, Invariance, PTL

-----------------------------------------------------------------------------
(***************************************************************************)
(* Stack frames with any number of saved registers, spill slots and stack  *)
(* arguments, which the layout of an object's functions relies on.         *)
(***************************************************************************)

(* The parts a prologue makes room for, and where rbp stands. *)
Frames == [saved : Nat, spills : Nat, args : Nat, rbp : Int]

(* The frame holds all its parts one above the other: 32 bytes for the      *)
(* callee, the stack arguments, the spill slots, the saved registers.       *)
LEMMA PartsInOrder ==
    ASSUME NEW f \in Frames
    PROVE  /\ Rsp(f) \in Int
           /\ \A c \in OutCells(f) :
                 c \in Int /\ Rsp(f) + 32 <= c /\ c + 8 <= f.rbp - 8 * (f.saved + f.spills)
           /\ \A c \in SpillCells(f) :
                 c \in Int /\ f.rbp - 8 * (f.saved + f.spills) <= c /\ c + 8 <= f.rbp - 8 * f.saved
           /\ \A c \in SavedCells(f) :
                 c \in Int /\ f.rbp - 8 * f.saved <= c /\ c + 8 <= f.rbp
           /\ Rsp(f) + 32 <= f.rbp - 8 * (f.saved + f.spills)
<1> DEFINE need == (f.saved + f.spills) * 8 + 32 + f.args * 8
<1>1. f.saved \in Nat /\ f.spills \in Nat /\ f.args \in Nat /\ f.rbp \in Int
  BY DEF Frames
<1>2. need \in Nat /\ Rsp(f) = f.rbp - Align16(need)
  BY <1>1 DEF Rsp, FrameSize
<1> HIDE DEF need
<1>3. Rsp(f) \in Int /\ Rsp(f) + need <= f.rbp
  BY <1>1, <1>2, AlignProperties
<1>4. need = (f.saved + f.spills) * 8 + 32 + f.args * 8
  BY DEF need
<1>5. ASSUME NEW c \in OutCells(f)
      PROVE  c \in Int /\ Rsp(f) + 32 <= c /\ c + 8 <= f.rbp - 8 * (f.saved + f.spills)
  <2>1. PICK i \in 4 .. f.args + 3 : c = Rsp(f) + 32 + 8 * (i - 4)
    BY <1>1, <1>3 DEF OutCells, OutDisp
  <2> QED
    BY <2>1, <1>1, <1>3, <1>4
<1>6. ASSUME NEW c \in SpillCells(f)
      PROVE  c \in Int /\ f.rbp - 8 * (f.saved + f.spills) <= c /\ c + 8 <= f.rbp - 8 * f.saved
  <2>1. PICK j \in 0 .. f.spills - 1 : c = f.rbp - 8 * (f.saved + j + 1)
    BY <1>1 DEF SpillCells, SpillDisp
  <2> QED
    BY <2>1, <1>1
<1>7. ASSUME NEW c \in SavedCells(f)
      PROVE  c \in Int /\ f.rbp - 8 * f.saved <= c /\ c + 8 <= f.rbp
  <2>1. PICK i \in 0 .. f.saved - 1 : c = f.rbp - 8 * (i + 1)
    BY <1>1 DEF SavedCells, SaveDisp
  <2> QED
    BY <2>1, <1>1
<1> QED
  BY <1>1, <1>3, <1>4, <1>5, <1>6, <1>7

(* No two parts of a frame share a byte, and none leaves the frame: what    *)
(* the encoder stores in one (a spill, a saved register, an outgoing        *)
(* argument) is never overwritten through another or by the callee.         *)
THEOREM FramePartsAreDisjoint ==
    ASSUME NEW f \in Frames,
           NEW out \in OutCells(f), NEW spill \in SpillCells(f), NEW saved \in SavedCells(f)
    PROVE  /\ CellAt(out) \cap CellAt(spill) = {} /\ CellAt(out) \cap CellAt(saved) = {}
           /\ CellAt(spill) \cap CellAt(saved) = {}
           /\ Shadow(Rsp(f)) \cap (CellAt(out) \cup CellAt(spill) \cup CellAt(saved)) = {}
           /\ CellAt(out) \cup CellAt(spill) \cup CellAt(saved) \subseteq Rsp(f) .. f.rbp - 1
<1>1. f.saved \in Nat /\ f.spills \in Nat /\ f.rbp \in Int /\ Rsp(f) \in Int
  BY PartsInOrder DEF Frames
<1>2. /\ out \in Int /\ Rsp(f) + 32 <= out /\ out + 8 <= f.rbp - 8 * (f.saved + f.spills)
      /\ spill \in Int /\ f.rbp - 8 * (f.saved + f.spills) <= spill
      /\ spill + 8 <= f.rbp - 8 * f.saved
      /\ saved \in Int /\ f.rbp - 8 * f.saved <= saved /\ saved + 8 <= f.rbp
  BY PartsInOrder
<1> QED
  BY <1>1, <1>2 DEF CellAt, Shadow

(* Distinct slots of one part are distinct cells, too. *)
THEOREM SlotsAreDistinct ==
    ASSUME NEW f \in Frames, NEW i \in Nat, NEW j \in Nat, i # j
    PROVE  /\ CellAt(f.rbp + SaveDisp(i)) \cap CellAt(f.rbp + SaveDisp(j)) = {}
           /\ CellAt(f.rbp + SpillDisp(f.saved, i)) \cap CellAt(f.rbp + SpillDisp(f.saved, j)) = {}
           /\ CellAt(Rsp(f) + OutDisp(i)) \cap CellAt(Rsp(f) + OutDisp(j)) = {}
<1>1. f.saved \in Nat /\ f.rbp \in Int /\ Rsp(f) \in Int
  BY PartsInOrder DEF Frames
<1> QED
  BY <1>1 DEF CellAt, SaveDisp, SpillDisp, OutDisp

(* A frame that begins aligned ends aligned, so every function finds the    *)
(* stack aligned when it calls another.                                     *)
THEOREM FramesKeepAlignment ==
    ASSUME NEW f \in Frames, f.rbp % 16 = 0 PROVE Rsp(f) % 16 = 0
<1> DEFINE need == (f.saved + f.spills) * 8 + 32 + f.args * 8
<1>1. f.rbp \in Int /\ need \in Nat /\ Rsp(f) = f.rbp - Align16(need)
  BY DEF Frames, Rsp, FrameSize
<1> HIDE DEF need
<1> QED
  BY <1>1, AlignProperties

(* Where the caller puts a stack argument is where the callee looks for it: *)
(* the call and the callee's prologue push the return address and rbp, so   *)
(* that the callee's rbp is 16 below the caller's rsp.                      *)
THEOREM ArgumentsMeet ==
    ASSUME NEW f \in Frames, NEW i \in Nat
    PROVE  Rsp(f) + OutDisp(i) = (Rsp(f) - 16) + InDisp(i)
BY PartsInOrder DEF OutDisp, InDisp
===============================================================================
