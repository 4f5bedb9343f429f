----------------------------- MODULE BackendProofs -----------------------------
(***************************************************************************)
(* What FnEncoder writes for a function is code of the shape a run asks    *)
(* for, and so is what the linker makes of such functions: for programs of *)
(* any number of functions of any length, allocated to any registers.      *)
(*                                                                         *)
(* The encoder keeps what it has written Sound: the prologue stands, every *)
(* instruction of the body Fits, and every label that is bound is at a     *)
(* place that may be jumped to.  When it has met every block no label is   *)
(* open, and what Finalize makes of the code is a function by itself; the  *)
(* linker moves it, and leads its calls to functions.                      *)
(***************************************************************************)
EXTENDS Backend, RunProofs, Recursion

(* What is known of any sequence, whatever its members. *)
IsSeq(s) == Len(s) \in Nat /\ s = [i \in 1 .. Len(s) |-> s[i]]

(* A sequence is one over its own members. *)
LEMMA SeqOfMembers ==
    ASSUME NEW s, IsSeq(s)
    PROVE  s \in Seq({s[i] : i \in 1 .. Len(s)})
  <1> DEFINE S == {s[i] : i \in 1 .. Len(s)}
  <1>1. s \in [1 .. Len(s) -> S]
    BY DEF IsSeq
  <1> HIDE DEF S
  <1> QED
    BY <1>1 DEF IsSeq

(* A sequence over a set is one. *)
LEMMA SeqIsSeq ==
    ASSUME NEW S, NEW s \in Seq(S)
    PROVE  IsSeq(s) /\ DOMAIN s = 1 .. Len(s) /\ \A i \in 1 .. Len(s) : s[i] \in S
  BY DEF IsSeq

(* So is a function on an initial segment of the naturals. *)
LEMMA ListIsSeq ==
    ASSUME NEW n \in Nat, NEW s, s = [i \in 1 .. n |-> s[i]]
    PROVE  IsSeq(s) /\ Len(s) = n
  <1> DEFINE S == {s[i] : i \in 1 .. n}
  <1>1. s \in [1 .. n -> S]
    OBVIOUS
  <1> HIDE DEF S
  <1>2. s \in Seq(S) /\ Len(s) = n
    BY <1>1
  <1> QED
    BY <1>2 DEF IsSeq

(* Two sequences joined. *)
LEMMA JoinFacts ==
    ASSUME NEW s, IsSeq(s), NEW t, IsSeq(t)
    PROVE  /\ IsSeq(s \o t) /\ Len(s \o t) = Len(s) + Len(t)
           /\ \A i \in 1 .. Len(s) : (s \o t)[i] = s[i]
           /\ \A i \in 1 .. Len(t) : (s \o t)[Len(s) + i] = t[i]
  <1> DEFINE S == {s[i] : i \in 1 .. Len(s)} \cup {t[i] : i \in 1 .. Len(t)}
  <1>1. s \in Seq(S) /\ t \in Seq(S)
    <2>1. s \in [1 .. Len(s) -> S] /\ t \in [1 .. Len(t) -> S]
      BY DEF IsSeq
    <2> HIDE DEF S
    <2> QED
      BY <2>1 DEF IsSeq
  <1> HIDE DEF S
  <1>2. s \o t \in Seq(S)
    BY <1>1
  <1>3. /\ Len(s \o t) = Len(s) + Len(t)
        /\ \A i \in 1 .. Len(s) : (s \o t)[i] = s[i]
        /\ \A i \in 1 .. Len(t) : (s \o t)[Len(s) + i] = t[i]
    BY <1>1
  <1> QED
    BY <1>2, <1>3, SeqIsSeq

(* A sequence with one more member. *)
LEMMA AppendFacts ==
    ASSUME NEW s, IsSeq(s), NEW e
    PROVE  /\ Append(s, e) = s \o <<e>> /\ IsSeq(<<e>>) /\ Len(<<e>>) = 1
           /\ IsSeq(Append(s, e)) /\ Len(Append(s, e)) = Len(s) + 1
           /\ \A i \in 1 .. Len(s) : Append(s, e)[i] = s[i]
           /\ Append(s, e)[Len(s) + 1] = e
  <1> DEFINE S == {s[i] : i \in 1 .. Len(s)} \cup {e}
  <1>1. s \in Seq(S) /\ e \in S
    <2>1. s \in [1 .. Len(s) -> S]
      BY DEF IsSeq
    <2> HIDE DEF S
    <2>2. s \in Seq(S)
      BY <2>1 DEF IsSeq
    <2> QED
      BY <2>2 DEF S
  <1> HIDE DEF S
  <1>2. Append(s, e) \in Seq(S) /\ <<e>> \in Seq(S)
    BY <1>1
  <1>3. /\ Append(s, e) = s \o <<e>> /\ Len(<<e>>) = 1
        /\ Len(Append(s, e)) = Len(s) + 1
        /\ \A i \in 1 .. Len(s) : Append(s, e)[i] = s[i]
        /\ Append(s, e)[Len(s) + 1] = e
    BY <1>1
  <1> QED
    BY <1>2, <1>3, SeqIsSeq

-----------------------------------------------------------------------------
(* The encoder at work. *)

(* The function the code so far belongs to: its prologue is known from the  *)
(* start, where it ends is left open.                                       *)
IsShell(f) ==
    /\ f.entry = 1 /\ NumSaves(f) \in Nat /\ f.body = NumSaves(f) + 4
    /\ f.frame \in Nat /\ f.frame % 16 = 0 /\ 8 * NumSaves(f) <= f.frame
    /\ f.saves = [i \in 1 .. NumSaves(f) |-> f.saves[i]]
    /\ \A i \in 1 .. NumSaves(f) : f.saves[i] \in CalleeSaved

(* An instruction that a body may have anywhere.                            *)
Straightforward(f, in) ==
    /\ WritesRegisters(f, in) \/ WritesFrame(f, in)
    /\ ~SavesRegister(in)

IsAsm(a) ==
    /\ a = [code |-> a.code, labels |-> a.labels, relocs |-> a.relocs]
    /\ IsSeq(a.code) /\ IsSeq(a.labels) /\ IsSeq(a.relocs)

SitesOf(a) == {a.relocs[i].at : i \in 1 .. Len(a.relocs)}

(* Place p is one of the last three of an epilogue.                         *)
InEpilogue(a, f, p) ==
    \E q \in p .. p + 2 :
        q <= Len(a.code) /\ a.code[q].i = "ret" /\ HasEpilogue(a.code, f, q)

(* What may stand at a place of the body.                                   *)
Fits(a, f, p) ==
    \/ Straightforward(f, a.code[p])
    \/ /\ a.code[p].i \in {"jmp", "jcc"} /\ a.code[p].n \in 1 .. Len(a.labels)
       /\ IsInstruction(a.code[p])
    \/ a.code[p].i = "call" /\ p - 1 \in SitesOf(a)
    \/ InEpilogue(a, f, p)

(* A place that a label may be bound to: the next one, or one that is       *)
(* neither a call nor in the middle of an epilogue.                         *)
Reachable(a, f, x) ==
    /\ x \in f.body .. Len(a.code) + 1
    /\ x <= Len(a.code) => a.code[x].i # "call"
    /\ \A q \in f.body .. Len(a.code) :
          a.code[q].i = "ret" => x \notin q - 1 - NumSaves(f) .. q

(* The instruction that the linker completes: the address of a callee. *)
OpensCall(in) == in.i = "mov_ri" /\ in.d = "RAX" /\ IsInstruction(in)

(* A fresh instruction is one, *)
LEMMA InsIsInstruction == \A x : IsInstruction(Ins(x))
  BY DEF IsInstruction, Ins

(* and remains one when a field is written. *)
LEMMA FieldWritten ==
    ASSUME NEW in, IsInstruction(in), NEW x
    PROVE  /\ IsInstruction([in EXCEPT !.d = x]) /\ IsInstruction([in EXCEPT !.k = x])
           /\ IsInstruction([in EXCEPT !.n = x]) /\ [in EXCEPT !.n = x].n = x
           /\ [in EXCEPT !.n = x].i = in.i /\ [in EXCEPT !.n = x].d = in.d
           /\ [in EXCEPT !.n = x].s = in.s /\ [in EXCEPT !.n = x].k = in.k
  <1>1. [in EXCEPT !.n = x] = [i |-> in.i, d |-> in.d, s |-> in.s, k |-> in.k, n |-> x]
    BY DEF IsInstruction
  <1>2. [in EXCEPT !.d = x] = [i |-> in.i, d |-> x, s |-> in.s, k |-> in.k, n |-> in.n]
    BY DEF IsInstruction
  <1>3. [in EXCEPT !.k = x] = [i |-> in.i, d |-> in.d, s |-> in.s, k |-> x, n |-> in.n]
    BY DEF IsInstruction
  <1> QED
    BY <1>1, <1>2, <1>3 DEF IsInstruction

(* The code so far is that of f. *)
Sound(a, f) ==
    /\ IsAsm(a)
    /\ f.body - 1 <= Len(a.code)
    /\ HasPrologue(a.code, f)
    /\ \A p \in f.body .. Len(a.code) : Fits(a, f, p)
    /\ \A l \in 1 .. Len(a.labels) : a.labels[l] = 0 \/ Reachable(a, f, a.labels[l])
    /\ \A p \in SitesOf(a) :
          p \in f.body .. Len(a.code) /\ OpensCall(a.code[p])

(* The labels not bound yet. *)
Unbound(a) == {l \in 1 .. Len(a.labels) : a.labels[l] = 0}

(* The code so far is that of f, with m labels of which those in U are open. *)
Good(a, f, m, U) == Sound(a, f) /\ Len(a.labels) = m /\ Unbound(a) = U

(* Nothing falls out of the code so far, and no label waits for more.       *)
Closed(a) ==
    /\ Len(a.code) > 0 /\ a.code[Len(a.code)].i \in {"jmp", "ret"}
    /\ \A l \in 1 .. Len(a.labels) : a.labels[l] <= Len(a.code)

(* What joining instructions to the code does to the assembler.             *)
LEMMA JoinAsm ==
    ASSUME NEW a, IsAsm(a), NEW s, IsSeq(s)
    PROVE  LET b == AsmAll(a, s)
           IN  /\ IsAsm(b) /\ b.labels = a.labels /\ b.relocs = a.relocs
               /\ b.code = a.code \o s
               /\ Len(b.code) = Len(a.code) + Len(s)
               /\ \A i \in 1 .. Len(a.code) : b.code[i] = a.code[i]
               /\ \A i \in 1 .. Len(s) : b.code[Len(a.code) + i] = s[i]
  <1> DEFINE c == a.code \o s
  <1>1. /\ IsSeq(c) /\ Len(c) = Len(a.code) + Len(s)
        /\ \A i \in 1 .. Len(a.code) : c[i] = a.code[i]
        /\ \A i \in 1 .. Len(s) : c[Len(a.code) + i] = s[i]
    BY JoinFacts DEF IsAsm
  <1>2. AsmAll(a, s) = [a EXCEPT !.code = c]
    BY DEF AsmAll
  <1> HIDE DEF c
  <1>3. [a EXCEPT !.code = c] = [code |-> c, labels |-> a.labels, relocs |-> a.relocs]
    BY DEF IsAsm
  <1>4. IsAsm([code |-> c, labels |-> a.labels, relocs |-> a.relocs])
    BY <1>1 DEF IsAsm
  <1> QED
    BY <1>1, <1>2, <1>3, <1>4 DEF c

(* One instruction is a list of one. *)
LEMMA AsmIsAsmAll ==
    ASSUME NEW a, IsAsm(a), NEW in
    PROVE  Asm(a, in) = AsmAll(a, <<in>>) /\ IsSeq(<<in>>) /\ Len(<<in>>) = 1
  BY AppendFacts DEF Asm, AsmAll, IsAsm

(* And what one more does. *)
LEMMA AsmFacts ==
    ASSUME NEW a, IsAsm(a), NEW in
    PROVE  LET b == Asm(a, in)
           IN  /\ IsAsm(b) /\ b.labels = a.labels /\ b.relocs = a.relocs
               /\ Len(b.code) = Len(a.code) + 1
               /\ \A i \in 1 .. Len(a.code) : b.code[i] = a.code[i]
               /\ b.code[Len(a.code) + 1] = in
  <1> DEFINE t == <<in>>
  <1>1. Asm(a, in) = AsmAll(a, t) /\ IsSeq(t) /\ Len(t) = 1
    BY AsmIsAsmAll
  <1>2. t[1] = in
    OBVIOUS
  <1> HIDE DEF t
  <1>3. LET b == AsmAll(a, t)
        IN  /\ IsAsm(b) /\ b.labels = a.labels /\ b.relocs = a.relocs
            /\ Len(b.code) = Len(a.code) + Len(t)
            /\ \A i \in 1 .. Len(a.code) : b.code[i] = a.code[i]
            /\ \A i \in 1 .. Len(t) : b.code[Len(a.code) + i] = t[i]
    <2>1. IsSeq(t)
      BY <1>1
    <2> QED
      BY <2>1, JoinAsm
  <1> QED
    BY <1>1, <1>2, <1>3

(* The prologue stays as instructions follow. *)
LEMMA PrologueStays ==
    ASSUME NEW f, IsShell(f), NEW c, NEW d, NEW n \in Nat, f.body - 1 <= n,
           HasPrologue(c, f), \A i \in 1 .. n : d[i] = c[i]
    PROVE  HasPrologue(d, f)
  <1>1. f.entry = 1 /\ NumSaves(f) \in Nat /\ f.body = NumSaves(f) + 4
    BY DEF IsShell
  <1>2. d[1] = c[1] /\ d[2] = c[2] /\ d[3] = c[3]
    BY <1>1
  <1>3. \A i \in 1 .. NumSaves(f) : d[3 + i] = c[3 + i]
    BY <1>1
  <1> HIDE DEF NumSaves
  <1> QED
    BY <1>1, <1>2, <1>3 DEF HasPrologue

(* An epilogue reads nothing behind its return. *)
LEMMA EpilogueStays ==
    ASSUME NEW f, IsShell(f), NEW c, NEW d, NEW n \in Nat,
           \A i \in 1 .. n : d[i] = c[i], NEW q \in 1 .. n, HasEpilogue(c, f, q)
    PROVE  HasEpilogue(d, f, q)
  <1>1. NumSaves(f) \in Nat /\ f.body = NumSaves(f) + 4
    BY DEF IsShell
  <1> HIDE DEF NumSaves
  <1>2. f.body <= q - 2 - NumSaves(f)
    BY DEF HasEpilogue
  <1>3. d[q - 2] = c[q - 2] /\ d[q - 1] = c[q - 1]
    BY <1>1, <1>2
  <1>4. \A i \in 1 .. NumSaves(f) : d[q - 3 - NumSaves(f) + i] = c[q - 3 - NumSaves(f) + i]
    BY <1>1, <1>2
  <1> QED
    BY <1>2, <1>3, <1>4 DEF HasEpilogue

(* From a to b instructions are added that fit, that do not begin with a    *)
(* call or within an epilogue, and that are relocated where b says.         *)
Grows(a, b, f) ==
    /\ IsAsm(b) /\ b.labels = a.labels
    /\ Len(a.code) <= Len(b.code)
    /\ \A i \in 1 .. Len(a.code) : b.code[i] = a.code[i]
    /\ SitesOf(a) \subseteq SitesOf(b)
    /\ \A p \in SitesOf(b) \ SitesOf(a) :
          /\ p \in Len(a.code) + 1 .. Len(b.code)
          /\ OpensCall(b.code[p])
    /\ \A p \in Len(a.code) + 1 .. Len(b.code) : Fits(b, f, p)
    /\ Len(a.code) < Len(b.code) => b.code[Len(a.code) + 1].i # "call"
    /\ \A q \in Len(a.code) + 1 .. Len(b.code) :
          b.code[q].i = "ret" => q - 1 - NumSaves(f) > Len(a.code) + 1

(* The numbers of a sound assembler. *)
LEMMA SoundNumbers ==
    ASSUME NEW f, IsShell(f), NEW a, Sound(a, f)
    PROVE  /\ Len(a.code) \in Nat /\ Len(a.labels) \in Nat /\ Len(a.relocs) \in Nat
           /\ NumSaves(f) \in Nat /\ f.body = NumSaves(f) + 4 /\ f.body - 1 <= Len(a.code)
           /\ IsAsm(a)
  BY DEF Sound, IsAsm, IsSeq, IsShell

(* Where labels may be bound they may as more follows. *)
LEMMA ReachableStays ==
    ASSUME NEW f, IsShell(f), NEW a, Sound(a, f), NEW b, Grows(a, b, f),
           NEW x, Reachable(a, f, x)
    PROVE  Reachable(b, f, x)
  <1> DEFINE n == Len(a.code)
             m == Len(b.code)
             s == NumSaves(f)
  <1>0. n \in Nat /\ m \in Nat /\ s \in Nat /\ f.body = s + 4 /\ n <= m
    BY SoundNumbers DEF Grows, IsAsm, IsSeq
  <1>1. x \in f.body .. n + 1
    BY DEF Reachable
  <1>2. x <= n => b.code[x].i # "call"
    <2>1. x <= n => x \in 1 .. n
      BY <1>0, <1>1
    <2> QED
      BY <2>1 DEF Reachable, Grows
  <1>3. n < m => b.code[n + 1].i # "call"
    BY DEF Grows
  <1>4. ASSUME NEW q \in f.body .. m, b.code[q].i = "ret" PROVE x \notin q - 1 - s .. q
    <2>1. CASE q <= n
      <3>1. q \in f.body .. n /\ q \in 1 .. n
        BY <1>0, <2>1
      <3>2. a.code[q].i = "ret"
        BY <1>4, <3>1 DEF Grows
      <3> QED
        BY <3>1, <3>2 DEF Reachable
    <2>2. CASE q > n
      <3>1. q \in n + 1 .. m
        BY <1>0, <2>2
      <3>2. q - 1 - s > n + 1
        BY <1>4, <3>1 DEF Grows
      <3> HIDE DEF n, m, s
      <3> QED
        BY <1>0, <1>1, <3>2
    <2> QED
      BY <1>0, <2>1, <2>2
  <1>5. x <= m => b.code[x].i # "call"
    <2> HIDE DEF n, m
    <2> QED
      BY <1>0, <1>1, <1>2, <1>3
  <1>6. x \in f.body .. m + 1
    <2> HIDE DEF n, m, s
    <2> QED
      BY <1>0, <1>1
  <1> QED
    BY <1>4, <1>5, <1>6 DEF Reachable

(* What fits where it stands still fits as more follows. *)
LEMMA FitsStays ==
    ASSUME NEW f, IsShell(f), NEW a, Sound(a, f), NEW b, Grows(a, b, f),
           NEW p \in f.body .. Len(a.code)
    PROVE  Fits(b, f, p)
  <1> DEFINE n == Len(a.code)
             m == Len(b.code)
  <1>0. /\ n \in Nat /\ m \in Nat /\ NumSaves(f) \in Nat /\ f.body = NumSaves(f) + 4 /\ n <= m
        /\ b.labels = a.labels /\ SitesOf(a) \subseteq SitesOf(b)
    BY SoundNumbers DEF Grows, IsAsm, IsSeq
  <1>1. Fits(a, f, p)
    BY DEF Sound
  <1>2. b.code[p] = a.code[p]
    <2>1. p \in 1 .. n
      BY <1>0
    <2> QED
      BY <2>1 DEF Grows
  <1>3. CASE InEpilogue(a, f, p)
    <2>1. PICK q \in p .. p + 2 : q <= n /\ a.code[q].i = "ret" /\ HasEpilogue(a.code, f, q)
      BY <1>3 DEF InEpilogue
    <2>2. q \in 1 .. n /\ q <= m
      BY <1>0, <2>1
    <2>3. (\A i \in 1 .. n : b.code[i] = a.code[i]) /\ b.code[q] = a.code[q]
      BY <2>2 DEF Grows
    <2>4. HasEpilogue(b.code, f, q)
      BY <1>0, <2>1, <2>2, <2>3, EpilogueStays
    <2> QED
      BY <2>1, <2>2, <2>3, <2>4 DEF InEpilogue, Fits
  <1>4. CASE ~InEpilogue(a, f, p)
    BY <1>0, <1>1, <1>2, <1>4 DEF Fits
  <1> QED
    BY <1>3, <1>4

(* The code stays sound. *)
LEMMA GrowthKeeps ==
    ASSUME NEW f, IsShell(f), NEW a, Sound(a, f), NEW b, Grows(a, b, f)
    PROVE  Sound(b, f) /\ Unbound(b) = Unbound(a) /\ Len(b.labels) = Len(a.labels)
  <1> DEFINE n == Len(a.code)
             m == Len(b.code)
  <1>0. /\ n \in Nat /\ m \in Nat /\ f.body \in Nat /\ f.body - 1 <= n /\ n <= m
        /\ b.labels = a.labels /\ IsAsm(b)
        /\ \A i \in 1 .. n : b.code[i] = a.code[i]
    <2>1. n \in Nat /\ f.body \in Nat /\ f.body - 1 <= n
      BY SoundNumbers
    <2>2. m \in Nat
      BY DEF Grows, IsAsm, IsSeq
    <2> QED
      BY <2>1, <2>2 DEF Grows
  <1>1. HasPrologue(b.code, f)
    BY <1>0, PrologueStays DEF Sound
  <1>2. ASSUME NEW p \in f.body .. m PROVE Fits(b, f, p)
    <2>1. CASE p <= n
      <3>1. p \in f.body .. n
        BY <1>0, <2>1
      <3> QED
        BY <3>1, FitsStays
    <2>2. CASE p > n
      <3>1. p \in n + 1 .. m
        BY <1>0, <2>2
      <3> QED
        BY <3>1 DEF Grows
    <2> QED
      BY <1>0, <2>1, <2>2
  <1>3. \A l \in 1 .. Len(b.labels) : b.labels[l] = 0 \/ Reachable(b, f, b.labels[l])
    BY <1>0, ReachableStays DEF Sound
  <1>4. ASSUME NEW p \in SitesOf(b)
        PROVE  p \in f.body .. m /\ OpensCall(b.code[p])
    <2>1. CASE p \in SitesOf(a)
      <3>1. p \in f.body .. n /\ OpensCall(a.code[p])
        BY <2>1 DEF Sound
      <3>2. p \in f.body .. m /\ b.code[p] = a.code[p]
        <4>1. f.body >= 1
          BY DEF IsShell
        <4>2. p \in 1 .. n /\ p \in f.body .. m
          BY <1>0, <3>1, <4>1
        <4> QED
          BY <1>0, <4>2
      <3> QED
        BY <3>1, <3>2
    <2>2. CASE p \notin SitesOf(a)
      <3>1. p \in n + 1 .. m /\ OpensCall(b.code[p])
        BY <2>2 DEF Grows
      <3>2. p \in f.body .. m
        BY <1>0, <3>1
      <3> QED
        BY <3>1, <3>2
    <2> QED
      BY <2>1, <2>2
  <1>5. f.body - 1 <= m
    BY <1>0
  <1> QED
    BY <1>0, <1>1, <1>2, <1>3, <1>4, <1>5 DEF Sound, Unbound

-----------------------------------------------------------------------------
(* The steps of the assembler. *)

(* What a straightforward instruction is not. *)
LEMMA StraightforwardIs ==
    ASSUME NEW f, NEW in, Straightforward(f, in)
    PROVE  in.i \notin {"jmp", "jcc", "call", "ret", "push_rbp"}
  BY DEF Straightforward, WritesRegisters, WritesFrame, RegisterOps

(* Any number of straightforward instructions, *)
LEMMA StraightKeeps ==
    ASSUME NEW f, IsShell(f), NEW m, NEW U, NEW a, Good(a, f, m, U),
           NEW s, IsSeq(s), \A i \in 1 .. Len(s) : Straightforward(f, s[i])
    PROVE  Good(AsmAll(a, s), f, m, U)
  <1> DEFINE b == AsmAll(a, s)
             n == Len(a.code)
             k == Len(s)
  <1>0. Sound(a, f) /\ IsAsm(a) /\ n \in Nat /\ k \in Nat
    BY SoundNumbers DEF Good, IsSeq
  <1>1. /\ IsAsm(b) /\ b.labels = a.labels /\ b.relocs = a.relocs /\ Len(b.code) = n + k
        /\ \A i \in 1 .. n : b.code[i] = a.code[i]
        /\ \A i \in 1 .. k : b.code[n + i] = s[i]
    BY <1>0, JoinAsm
  <1> HIDE DEF b
  <1>2. ASSUME NEW p \in n + 1 .. Len(b.code) PROVE Straightforward(f, b.code[p])
    <2>1. p - n \in 1 .. k /\ n + (p - n) = p
      BY <1>0, <1>1
    <2>2. b.code[n + (p - n)] = s[p - n]
      BY <1>1, <2>1
    <2> QED
      BY <2>1, <2>2
  <1>3. \A p \in n + 1 .. Len(b.code) : Fits(b, f, p) /\ b.code[p].i \notin {"call", "ret"}
    BY <1>2, StraightforwardIs DEF Fits
  <1>4. n < Len(b.code) => n + 1 \in n + 1 .. Len(b.code)
    BY <1>0, <1>1
  <1>5. n <= Len(b.code)
    BY <1>0, <1>1
  <1>6. SitesOf(b) = SitesOf(a)
    BY <1>1 DEF SitesOf
  <1>7. Grows(a, b, f)
    BY <1>1, <1>3, <1>4, <1>5, <1>6 DEF Grows
  <1>8. Sound(b, f) /\ Unbound(b) = Unbound(a) /\ Len(b.labels) = Len(a.labels)
    BY <1>0, <1>7, GrowthKeeps
  <1> QED
    BY <1>8 DEF Good, b

(* one, *)
LEMMA OneKeeps ==
    ASSUME NEW f, IsShell(f), NEW m, NEW U, NEW a, Good(a, f, m, U),
           NEW in, Straightforward(f, in)
    PROVE  Good(Asm(a, in), f, m, U)
  <1>1. IsAsm(a)
    BY SoundNumbers DEF Good
  <1>2. Asm(a, in) = AsmAll(a, <<in>>) /\ IsSeq(<<in>>) /\ Len(<<in>>) = 1
    BY <1>1, AsmIsAsmAll
  <1>3. \A i \in 1 .. Len(<<in>>) : Straightforward(f, <<in>>[i])
    BY <1>2
  <1> QED
    BY <1>2, <1>3, StraightKeeps

(* a jump to a label there is, *)
LEMMA BranchKeeps ==
    ASSUME NEW f, IsShell(f), NEW m, NEW U, NEW a, Good(a, f, m, U),
           NEW in, in.i \in {"jmp", "jcc"}, in.n \in 1 .. m, IsInstruction(in)
    PROVE  /\ Good(Asm(a, in), f, m, U)
           /\ in.i = "jmp" => Closed(Asm(a, in))
  <1> DEFINE b == Asm(a, in)
             n == Len(a.code)
  <1>0. Sound(a, f) /\ IsAsm(a) /\ n \in Nat /\ Len(a.labels) = m
    BY SoundNumbers DEF Good
  <1>2. /\ IsAsm(b) /\ b.labels = a.labels /\ b.relocs = a.relocs /\ Len(b.code) = n + 1
        /\ \A i \in 1 .. n : b.code[i] = a.code[i]
        /\ b.code[n + 1] = in
    BY <1>0, AsmFacts
  <1> HIDE DEF b
  <1>3. b.code[n + 1] = in
    BY <1>2
  <1>4. \A p \in n + 1 .. Len(b.code) : Fits(b, f, p) /\ b.code[p].i \notin {"call", "ret"}
    <2>1. n + 1 .. Len(b.code) = {n + 1}
      BY <1>0, <1>2
    <2> QED
      BY <1>0, <1>2, <1>3, <2>1 DEF Fits
  <1>5. n <= Len(b.code) /\ b.code[n + 1].i # "call"
    BY <1>0, <1>2, <1>3
  <1>6. SitesOf(b) = SitesOf(a)
    BY <1>2 DEF SitesOf
  <1>7. Grows(a, b, f)
    BY <1>2, <1>4, <1>5, <1>6 DEF Grows
  <1>8. Sound(b, f) /\ Unbound(b) = Unbound(a) /\ Len(b.labels) = Len(a.labels)
    BY <1>0, <1>7, GrowthKeeps
  <1>9. ASSUME NEW l \in 1 .. Len(b.labels) PROVE b.labels[l] <= Len(b.code)
    <2>1. a.labels[l] = 0 \/ a.labels[l] \in f.body .. n + 1
      BY <1>0, <1>2 DEF Sound, Reachable
    <2> QED
      BY <1>0, <1>2, <2>1 DEF IsShell
  <1>10. in.i = "jmp" => Closed(b)
    BY <1>0, <1>2, <1>3, <1>9 DEF Closed
  <1> QED
    BY <1>8, <1>10 DEF Good, b

(* new labels, *)
LEMMA NewKeeps ==
    ASSUME NEW f, IsShell(f), NEW m, NEW U, NEW a, Good(a, f, m, U), NEW k \in Nat
    PROVE  /\ m \in Nat /\ Len(a.labels) = m
           /\ Good(NewLabels(a, k), f, m + k, U \cup (m + 1 .. m + k))
  <1> DEFINE z == [i \in 1 .. k |-> 0]
             ls == a.labels \o z
             b == NewLabels(a, k)
  <1>0. Sound(a, f) /\ IsAsm(a) /\ m \in Nat /\ Len(a.labels) = m /\ U = Unbound(a)
    BY SoundNumbers DEF Good
  <1>1. IsSeq(z) /\ Len(z) = k /\ \A i \in 1 .. k : z[i] = 0
    BY ListIsSeq
  <1>2. /\ IsSeq(ls) /\ Len(ls) = m + k /\ \A i \in 1 .. m : ls[i] = a.labels[i]
        /\ \A i \in 1 .. k : ls[m + i] = z[i]
    <2> DEFINE old == a.labels
    <2>1. IsSeq(old) /\ Len(old) = m
      BY <1>0 DEF IsAsm
    <2> HIDE DEF z, old
    <2>2. /\ IsSeq(old \o z) /\ Len(old \o z) = Len(old) + Len(z)
          /\ \A i \in 1 .. Len(old) : (old \o z)[i] = old[i]
          /\ \A i \in 1 .. Len(z) : (old \o z)[Len(old) + i] = z[i]
      <3>1. IsSeq(z) /\ IsSeq(old)
        BY <1>1, <2>1
      <3> QED
        BY <3>1, JoinFacts
    <2> QED
      BY <1>1, <2>1, <2>2 DEF old
  <1>3. b = [a EXCEPT !.labels = ls]
    BY DEF NewLabels
  <1> HIDE DEF b, z, ls
  <1>4. b = [code |-> a.code, labels |-> ls, relocs |-> a.relocs]
    BY <1>0, <1>3 DEF IsAsm
  <1>5. b.code = a.code /\ b.labels = ls /\ b.relocs = a.relocs /\ IsAsm(b)
    BY <1>0, <1>2, <1>4 DEF IsAsm
  <1>6. ASSUME NEW i \in 1 .. m + k
        PROVE  ls[i] = IF i <= m THEN a.labels[i] ELSE 0
    <2>1. CASE i <= m
      BY <1>0, <1>2, <2>1
    <2>2. CASE i > m
      <3>1. i - m \in 1 .. k /\ m + (i - m) = i
        BY <1>0, <2>2
      <3>2. ls[m + (i - m)] = z[i - m]
        BY <1>2, <3>1
      <3> QED
        BY <1>0, <1>1, <2>2, <3>1, <3>2
    <2> QED
      BY <1>0, <2>1, <2>2
  <1>7. ASSUME NEW p \in f.body .. Len(b.code) PROVE Fits(b, f, p)
    <2>1. Fits(a, f, p)
      BY <1>0, <1>5 DEF Sound
    <2>2. InEpilogue(b, f, p) = InEpilogue(a, f, p)
      BY <1>5 DEF InEpilogue
    <2>3. SitesOf(b) = SitesOf(a)
      BY <1>5 DEF SitesOf
    <2>4. 1 .. Len(a.labels) \subseteq 1 .. Len(b.labels)
      BY <1>0, <1>2, <1>5
    <2> QED
      BY <1>5, <2>1, <2>2, <2>3, <2>4 DEF Fits
  <1>8. \A x : Reachable(a, f, x) => Reachable(b, f, x)
    BY <1>5 DEF Reachable
  <1>9. Sound(b, f)
    <2>1. \A l \in 1 .. Len(b.labels) : b.labels[l] = 0 \/ Reachable(b, f, b.labels[l])
      <3> SUFFICES ASSUME NEW l \in 1 .. m + k PROVE ls[l] = 0 \/ Reachable(b, f, ls[l])
        BY <1>2, <1>5
      <3>1. l <= m => l \in 1 .. m
        BY <1>0
      <3> QED
        BY <1>0, <1>6, <1>8, <3>1 DEF Sound
    <2> QED
      BY <1>0, <1>5, <1>7, <2>1 DEF Sound, SitesOf
  <1>10. Unbound(b) = U \cup (m + 1 .. m + k)
    <2>1. \A l \in 1 .. m + k : ls[l] = 0 <=> l \in U \/ l \in m + 1 .. m + k
      <3> TAKE l \in 1 .. m + k
      <3>1. CASE l <= m
        <4>1. l \in 1 .. m /\ l \notin m + 1 .. m + k
          BY <1>0, <3>1
        <4> QED
          BY <1>0, <1>6, <3>1, <4>1 DEF Unbound
      <3>2. CASE l > m
        <4>1. l \in m + 1 .. m + k
          BY <1>0, <3>2
        <4> QED
          BY <1>0, <1>6, <3>2, <4>1
      <3> QED
        BY <1>0, <3>1, <3>2
    <2>2. U \subseteq 1 .. m + k /\ m + 1 .. m + k \subseteq 1 .. m + k
      BY <1>0 DEF Unbound
    <2> QED
      BY <1>2, <1>5, <2>1, <2>2 DEF Unbound
  <1> QED
    BY <1>0, <1>2, <1>5, <1>9, <1>10 DEF Good, b

(* a label bound to the next place, *)
LEMMA BindKeeps ==
    ASSUME NEW f, IsShell(f), NEW m, NEW U, NEW a, Good(a, f, m, U), NEW l \in 1 .. m
    PROVE  Good(BindLabel(a, l), f, m, U \ {l})
  <1> DEFINE n == Len(a.code)
             b == BindLabel(a, l)
             ls == [a.labels EXCEPT ![l] = n + 1]
  <1>0. /\ Sound(a, f) /\ IsAsm(a) /\ m \in Nat /\ Len(a.labels) = m /\ U = Unbound(a)
        /\ n \in Nat /\ f.body \in Nat /\ f.body - 1 <= n /\ NumSaves(f) \in Nat
    BY SoundNumbers DEF Good
  <1>1. /\ IsSeq(ls) /\ Len(ls) = m
        /\ \A i \in 1 .. m : ls[i] = IF i = l THEN n + 1 ELSE a.labels[i]
    <2>1. a.labels = [i \in 1 .. m |-> a.labels[i]]
      BY <1>0 DEF IsAsm, IsSeq
    <2>2. ls = [i \in 1 .. m |-> IF i = l THEN n + 1 ELSE a.labels[i]]
      BY <2>1
    <2> HIDE DEF ls
    <2>3. ls = [i \in 1 .. m |-> ls[i]]
      BY <2>2
    <2>4. IsSeq(ls) /\ Len(ls) = m
      BY <1>0, <2>3, ListIsSeq
    <2> QED
      BY <2>2, <2>4
  <1>2. b = [a EXCEPT !.labels = ls]
    BY DEF BindLabel
  <1> HIDE DEF b, ls
  <1>3. b = [code |-> a.code, labels |-> ls, relocs |-> a.relocs]
    BY <1>0, <1>2 DEF IsAsm
  <1>4. b.code = a.code /\ b.labels = ls /\ b.relocs = a.relocs /\ IsAsm(b)
    BY <1>0, <1>1, <1>3 DEF IsAsm
  <1>5. ASSUME NEW p \in f.body .. Len(b.code) PROVE Fits(b, f, p)
    <2>1. Fits(a, f, p)
      BY <1>0, <1>4 DEF Sound
    <2>2. InEpilogue(b, f, p) = InEpilogue(a, f, p)
      BY <1>4 DEF InEpilogue
    <2>3. SitesOf(b) = SitesOf(a)
      BY <1>4 DEF SitesOf
    <2> QED
      BY <1>0, <1>1, <1>4, <2>1, <2>2, <2>3 DEF Fits
  <1>6. Reachable(b, f, n + 1)
    <2>1. n + 1 \in f.body .. n + 1 /\ ~ (n + 1 <= n)
      BY <1>0
    <2>2. ASSUME NEW q \in f.body .. n PROVE n + 1 \notin q - 1 - NumSaves(f) .. q
      BY <1>0
    <2> QED
      BY <1>4, <2>1, <2>2 DEF Reachable
  <1>7. \A x : Reachable(a, f, x) => Reachable(b, f, x)
    BY <1>4 DEF Reachable
  <1>8. \A i \in 1 .. m : b.labels[i] = 0 \/ Reachable(b, f, b.labels[i])
    BY <1>0, <1>1, <1>4, <1>6, <1>7 DEF Sound
  <1>9. Sound(b, f)
    BY <1>0, <1>1, <1>4, <1>5, <1>8 DEF Sound, SitesOf
  <1>10. Unbound(b) = U \ {l}
    BY <1>0, <1>1, <1>4 DEF Unbound
  <1> QED
    BY <1>1, <1>4, <1>9, <1>10 DEF Good, b

(* a call, whose target is relocated, *)
LEMMA RelocatedCallKeeps ==
    ASSUME NEW f, IsShell(f), NEW m, NEW U, NEW a, Good(a, f, m, U), NEW target
    PROVE  LET open == [MovRI(a, "RAX", 0) EXCEPT
                           !.relocs = Append(@, [at |-> Len(a.code) + 1, target |-> target])]
           IN  Good(Asm(open, Ins("call")), f, m, U)
  <1> DEFINE n == Len(a.code)
             r == [at |-> n + 1, target |-> target]
             c == MovRI(a, "RAX", 0)
             open == [c EXCEPT !.relocs = Append(@, r)]
             b == Asm(open, Ins("call"))
             mov == [Ins("mov_ri") EXCEPT !.d = "RAX", !.n = 0]
  <1>0. Sound(a, f) /\ IsAsm(a) /\ n \in Nat
    BY SoundNumbers DEF Good
  <1>1. c = Asm(a, mov)
    BY DEF MovRI
  <1>2. OpensCall(mov) /\ mov.i = "mov_ri" /\ mov.d = "RAX" /\ Ins("call").i = "call"
    <2>1. mov.i = "mov_ri" /\ mov.d = "RAX" /\ Ins("call").i = "call"
      BY DEF Ins
    <2>2. IsInstruction(Ins("mov_ri"))
      BY InsIsInstruction
    <2>3. IsInstruction([Ins("mov_ri") EXCEPT !.d = "RAX"])
      BY <2>2, FieldWritten
    <2>4. IsInstruction([[Ins("mov_ri") EXCEPT !.d = "RAX"] EXCEPT !.n = 0])
      BY <2>3, FieldWritten
    <2>5. IsInstruction(mov)
      BY <2>4
    <2> HIDE DEF mov
    <2> QED
      BY <2>1, <2>5 DEF OpensCall
  <1> HIDE DEF mov, c, r
  <1>3. /\ IsAsm(c) /\ c.labels = a.labels /\ c.relocs = a.relocs /\ Len(c.code) = n + 1
        /\ \A i \in 1 .. n : c.code[i] = a.code[i]
        /\ c.code[n + 1] = mov
    BY <1>0, <1>1, AsmFacts
  <1>4. open = [code |-> c.code, labels |-> c.labels, relocs |-> Append(c.relocs, r)]
    <2> DEFINE rs == Append(c.relocs, r)
    <2>1. open = [c EXCEPT !.relocs = rs]
      OBVIOUS
    <2>2. c = [code |-> c.code, labels |-> c.labels, relocs |-> c.relocs]
      BY <1>3 DEF IsAsm
    <2> HIDE DEF open, rs
    <2> QED
      BY <2>1, <2>2 DEF rs
  <1> HIDE DEF open
  <1>5. /\ IsSeq(Append(c.relocs, r)) /\ Len(Append(c.relocs, r)) = Len(c.relocs) + 1
        /\ \A i \in 1 .. Len(c.relocs) : Append(c.relocs, r)[i] = c.relocs[i]
        /\ Append(c.relocs, r)[Len(c.relocs) + 1] = r
    <2> DEFINE s == c.relocs
    <2>1. IsSeq(s)
      BY <1>3 DEF IsAsm
    <2> HIDE DEF s
    <2>2. /\ IsSeq(Append(s, r)) /\ Len(Append(s, r)) = Len(s) + 1
          /\ \A i \in 1 .. Len(s) : Append(s, r)[i] = s[i]
          /\ Append(s, r)[Len(s) + 1] = r
      BY <2>1, AppendFacts
    <2> QED
      BY <2>2 DEF s
  <1>6. IsAsm(open)
    BY <1>3, <1>4, <1>5 DEF IsAsm
  <1>7. /\ IsAsm(b) /\ b.labels = open.labels /\ b.relocs = open.relocs
        /\ Len(b.code) = Len(open.code) + 1
        /\ \A i \in 1 .. Len(open.code) : b.code[i] = open.code[i]
        /\ b.code[Len(open.code) + 1] = Ins("call")
    BY <1>6, AsmFacts
  <1> HIDE DEF b
  <1>8. /\ b.labels = a.labels /\ Len(b.code) = n + 2
        /\ b.code[n + 1] = mov /\ b.code[n + 2] = Ins("call")
    BY <1>0, <1>3, <1>4, <1>7
  <1>9. ASSUME NEW i \in 1 .. n PROVE b.code[i] = a.code[i]
    <2>1. i \in 1 .. n + 1
      BY <1>0
    <2> QED
      BY <1>3, <1>4, <1>7, <2>1
  <1>10. SitesOf(b) = SitesOf(a) \cup {n + 1}
    <2> DEFINE k == Len(a.relocs)
               rs == b.relocs
    <2>1. k \in Nat
      BY <1>0 DEF IsAsm, IsSeq
    <2>2. Len(rs) = k + 1 /\ rs[k + 1] = r /\ \A i \in 1 .. k : rs[i] = a.relocs[i]
      BY <1>3, <1>4, <1>5, <1>7
    <2>3. r.at = n + 1
      BY DEF r
    <2> HIDE DEF rs, k
    <2>4. 1 .. k + 1 = 1 .. k \cup {k + 1}
      BY <2>1
    <2>5. {rs[i].at : i \in 1 .. k + 1} = {a.relocs[i].at : i \in 1 .. k} \cup {n + 1}
      BY <2>2, <2>3, <2>4
    <2> QED
      BY <2>2, <2>5 DEF SitesOf, rs, k
  <1>11. Straightforward(f, mov)
    BY <1>2, ScratchIsNotSaved DEF Straightforward, WritesRegisters, RegisterOps, SavesRegister, Free
  <1>12. ASSUME NEW p \in n + 1 .. Len(b.code)
         PROVE  Fits(b, f, p) /\ b.code[p].i # "ret"
    <2>1. p = n + 1 \/ p = n + 2
      BY <1>0, <1>8
    <2>2. CASE p = n + 1
      BY <1>2, <1>8, <1>11, <2>2 DEF Fits
    <2>3. CASE p = n + 2
      <3>1. p - 1 \in SitesOf(b)
        BY <1>0, <1>10, <2>3
      <3> QED
        BY <1>2, <1>8, <2>3, <3>1 DEF Fits
    <2> QED
      BY <2>1, <2>2, <2>3
  <1>13. /\ n <= Len(b.code) /\ b.code[n + 1].i # "call"
         /\ n + 1 \in n + 1 .. Len(b.code) /\ OpensCall(b.code[n + 1])
    BY <1>0, <1>2, <1>8
  <1>14. Grows(a, b, f)
    BY <1>7, <1>8, <1>9, <1>10, <1>12, <1>13 DEF Grows
  <1>15. Sound(b, f) /\ Unbound(b) = Unbound(a) /\ Len(b.labels) = Len(a.labels)
    BY <1>0, <1>14, GrowthKeeps
  <1> QED
    BY <1>15 DEF Good, b, open, c, r

(* The loads of an epilogue. *)
Restores(f, rs) ==
    /\ IsSeq(rs) /\ Len(rs) = NumSaves(f)
    /\ \A i \in 1 .. NumSaves(f) :
          rs[i].i = "load" /\ rs[i].d = f.saves[i] /\ rs[i].n = SaveDisp(i - 1)

(* and an epilogue, which closes the code. *)
LEMMA EpilogueKeepsGood ==
    ASSUME NEW f, IsShell(f), NEW m, NEW U, NEW a, Good(a, f, m, U),
           NEW rs, Restores(f, rs)
    PROVE  Good(LeaveFrame(AsmAll(a, rs)), f, m, U) /\ Closed(LeaveFrame(AsmAll(a, rs)))
  <1> DEFINE n == Len(a.code)
             k == NumSaves(f)
             c == AsmAll(a, rs)
             d == Asm(c, Ins("mov_rsp_rbp"))
             e == Asm(d, Ins("pop_rbp"))
             b == Asm(e, Ins("ret"))
  <1>0. Sound(a, f) /\ IsAsm(a) /\ n \in Nat /\ k \in Nat /\ f.body = k + 4 /\ f.body - 1 <= n
    BY SoundNumbers DEF Good
  <1>1. /\ IsAsm(c) /\ c.labels = a.labels /\ c.relocs = a.relocs /\ Len(c.code) = n + k
        /\ \A i \in 1 .. n : c.code[i] = a.code[i]
        /\ \A i \in 1 .. k : c.code[n + i] = rs[i]
    <2>1. LET y == AsmAll(a, rs)
          IN  /\ IsAsm(y) /\ y.labels = a.labels /\ y.relocs = a.relocs
              /\ Len(y.code) = Len(a.code) + Len(rs)
              /\ \A i \in 1 .. Len(a.code) : y.code[i] = a.code[i]
              /\ \A i \in 1 .. Len(rs) : y.code[Len(a.code) + i] = rs[i]
      <3>1. IsAsm(a) /\ IsSeq(rs)
        BY <1>0 DEF Restores
      <3> QED
        BY <3>1, JoinAsm
    <2>2. Len(rs) = k
      BY DEF Restores
    <2> QED
      BY <2>1, <2>2
  <1> HIDE DEF c
  <1>2. /\ IsAsm(d) /\ d.labels = c.labels /\ d.relocs = c.relocs
        /\ Len(d.code) = Len(c.code) + 1
        /\ \A i \in 1 .. Len(c.code) : d.code[i] = c.code[i]
        /\ d.code[Len(c.code) + 1] = Ins("mov_rsp_rbp")
    BY <1>1, AsmFacts
  <1> HIDE DEF d
  <1>3. /\ IsAsm(e) /\ e.labels = d.labels /\ e.relocs = d.relocs
        /\ Len(e.code) = Len(d.code) + 1
        /\ \A i \in 1 .. Len(d.code) : e.code[i] = d.code[i]
        /\ e.code[Len(d.code) + 1] = Ins("pop_rbp")
    BY <1>2, AsmFacts
  <1> HIDE DEF e
  <1>4. /\ IsAsm(b) /\ b.labels = e.labels /\ b.relocs = e.relocs
        /\ Len(b.code) = Len(e.code) + 1
        /\ \A i \in 1 .. Len(e.code) : b.code[i] = e.code[i]
        /\ b.code[Len(e.code) + 1] = Ins("ret")
    BY <1>3, AsmFacts
  <1> HIDE DEF b, n, k
  <1>5. Len(c.code) = n + k /\ Len(d.code) = n + k + 1 /\ Len(e.code) = n + k + 2 /\ Len(b.code) = n + k + 3
    BY <1>0, <1>1, <1>2, <1>3, <1>4
  <1>6. /\ b.code[n + k + 3] = Ins("ret")
        /\ b.code[n + k + 2] = Ins("pop_rbp")
        /\ b.code[n + k + 1] = Ins("mov_rsp_rbp")
    <2>1. /\ n + k + 2 \in 1 .. Len(e.code) /\ n + k + 1 \in 1 .. Len(e.code)
          /\ n + k + 1 \in 1 .. Len(d.code)
      BY <1>0, <1>5
    <2>2. b.code[n + k + 3] = Ins("ret")
      BY <1>0, <1>4, <1>5
    <2>3. b.code[n + k + 2] = Ins("pop_rbp")
      BY <1>0, <1>3, <1>4, <1>5, <2>1
    <2>4. b.code[n + k + 1] = Ins("mov_rsp_rbp")
      BY <1>0, <1>2, <1>3, <1>4, <1>5, <2>1
    <2> QED
      BY <2>2, <2>3, <2>4
  <1>7. ASSUME NEW i \in 1 .. n + k PROVE b.code[i] = c.code[i]
    <2>1. i \in 1 .. Len(c.code) /\ i \in 1 .. Len(d.code) /\ i \in 1 .. Len(e.code)
      BY <1>0, <1>5
    <2> QED
      BY <1>2, <1>3, <1>4, <2>1
  <1>8. ASSUME NEW i \in 1 .. n PROVE b.code[i] = a.code[i]
    <2>1. i \in 1 .. n + k
      BY <1>0
    <2> QED
      BY <1>1, <1>7, <2>1 DEF n
  <1>9. ASSUME NEW i \in 1 .. k
        PROVE  /\ b.code[n + i].i = "load" /\ b.code[n + i].d = f.saves[i]
               /\ b.code[n + i].n = SaveDisp(i - 1)
    <2>1. n + i \in 1 .. n + k
      BY <1>0
    <2>2. b.code[n + i] = c.code[n + i] /\ c.code[n + i] = rs[i]
      BY <1>1, <1>7, <2>1 DEF n, k
    <2> QED
      BY <2>2 DEF k, Restores
  <1>10. HasEpilogue(b.code, f, n + k + 3)
    <2> DEFINE q == n + k + 3
    <2>1. f.body <= q - 2 - k /\ q - 2 = n + k + 1 /\ q - 1 = n + k + 2
      BY <1>0
    <2>2. ASSUME NEW i \in 1 .. k
          PROVE  /\ b.code[q - 3 - k + i].i = "load" /\ b.code[q - 3 - k + i].d = f.saves[i]
                 /\ b.code[q - 3 - k + i].n = SaveDisp(i - 1)
      <3>1. q - 3 - k + i = n + i
        BY <1>0
      <3> QED
        BY <1>9, <3>1
    <2>3. Ins("mov_rsp_rbp").i = "mov_rsp_rbp" /\ Ins("pop_rbp").i = "pop_rbp"
      BY DEF Ins
    <2>4. b.code[q - 2].i = "mov_rsp_rbp" /\ b.code[q - 1].i = "pop_rbp"
      BY <1>6, <2>1, <2>3
    <2> HIDE DEF q
    <2>5. HasEpilogue(b.code, f, q)
      BY <2>1, <2>2, <2>4 DEF HasEpilogue, k
    <2> QED
      BY <2>5 DEF q
  <1>11. ASSUME NEW p \in n + 1 .. Len(b.code)
         PROVE  Fits(b, f, p) /\ (b.code[p].i = "ret" => p = n + k + 3) /\ b.code[p].i # "call"
    <2>1. CASE p <= n + k
      <3>1. p - n \in 1 .. k /\ n + (p - n) = p
        BY <1>0, <2>1
      <3>2. b.code[p].i = "load" /\ b.code[p].d = f.saves[p - n]
        BY <1>9, <3>1
      <3>3. f.saves[p - n] \in Free(f)
        BY <3>1 DEF Free, k
      <3>4. Straightforward(f, b.code[p])
        BY <3>2, <3>3 DEF Straightforward, WritesRegisters, RegisterOps, SavesRegister
      <3> QED
        BY <3>2, <3>4 DEF Fits
    <2>2. CASE p > n + k
      <3>1. p \in {n + k + 1, n + k + 2, n + k + 3} /\ n + k + 3 \in p .. p + 2
        <4>1. p \in Int /\ n + k < p /\ p <= n + k + 3
          BY <1>0, <1>5, <2>2
        <4>2. p = n + k + 1 \/ p = n + k + 2 \/ p = n + k + 3
          BY <1>0, <4>1
        <4> QED
          BY <1>0, <4>2
      <3>2. Ins("ret").i = "ret" /\ Ins("mov_rsp_rbp").i = "mov_rsp_rbp" /\ Ins("pop_rbp").i = "pop_rbp"
        BY DEF Ins
      <3>3. InEpilogue(b, f, p)
        BY <1>5, <1>6, <1>10, <3>1, <3>2 DEF InEpilogue
      <3> QED
        BY <1>6, <3>1, <3>2, <3>3 DEF Fits
    <2>3. p <= n + k \/ p > n + k
      BY <1>0
    <2> QED
      BY <2>1, <2>2, <2>3
  <1>12. n <= Len(b.code) /\ n + 1 \in n + 1 .. Len(b.code) /\ n + k + 3 - 1 - k > n + 1
    BY <1>0, <1>5
  <1>13. SitesOf(b) = SitesOf(a) /\ b.labels = a.labels
    BY <1>1, <1>2, <1>3, <1>4 DEF SitesOf
  <1>18. /\ \A p \in n + 1 .. Len(b.code) : Fits(b, f, p)
         /\ b.code[n + 1].i # "call"
         /\ \A q \in n + 1 .. Len(b.code) : b.code[q].i = "ret" => q - 1 - k > n + 1
    <2>1. \A q : q = n + k + 3 => q - 1 - k > n + 1
      BY <1>0
    <2> QED
      BY <1>11, <1>12, <2>1
  <1>14. Grows(a, b, f)
    BY <1>4, <1>8, <1>12, <1>13, <1>18 DEF Grows, n, k
  <1>15. Sound(b, f) /\ Unbound(b) = Unbound(a) /\ Len(b.labels) = Len(a.labels)
    BY <1>0, <1>14, GrowthKeeps
  <1>16. ASSUME NEW l \in 1 .. Len(b.labels) PROVE b.labels[l] <= Len(b.code)
    <2>1. a.labels[l] = 0 \/ a.labels[l] \in f.body .. n + 1
      BY <1>0, <1>13 DEF Sound, Reachable, n
    <2> QED
      BY <1>0, <1>5, <1>13, <2>1
  <1>17. Closed(b)
    <2>1. Ins("ret").i = "ret"
      BY DEF Ins
    <2> QED
      <3>1. Len(b.code) > 0 /\ b.code[Len(b.code)].i = "ret"
        BY <1>0, <1>5, <1>6, <2>1
      <3> QED
        BY <1>16, <3>1 DEF Closed
  <1> QED
    BY <1>15, <1>17 DEF Good, LeaveFrame, b, e, d, c

-----------------------------------------------------------------------------
(* Lists joined. *)

(* h[i] is the first i of n lists joined.                                   *)
Joined(ss, n, h) ==
    /\ h[0] = <<>>
    /\ \A i \in 0 .. n : IsSeq(h[i])
    /\ \A i \in 1 .. n : IsSeq(ss[i]) /\ h[i] = h[i - 1] \o ss[i]

(* There are such sequences. *)
LEMMA JoinedExists ==
    ASSUME NEW n \in Nat, NEW ss, \A i \in 1 .. n : IsSeq(ss[i])
    PROVE  \E h : Joined(ss, n, h)
  <1> DEFINE M == UNION {{ss[i][k] : k \in 1 .. Len(ss[i])} : i \in 1 .. n}
             S == Seq(M)
             base == <<>>
             step == [s \in Nat \X S |-> IF s[1] + 1 \in 1 .. n THEN s[2] \o ss[s[1] + 1] ELSE s[2]]
  <1>1. ASSUME NEW i \in 1 .. n PROVE ss[i] \in S
    <2> DEFINE s == ss[i]
               T == {s[k] : k \in 1 .. Len(s)}
    <2>1. s \in Seq(T)
      BY SeqOfMembers
    <2>2. T \subseteq M
      OBVIOUS
    <2> HIDE DEF T, M, s
    <2>3. Seq(T) \subseteq Seq(M)
      BY <2>2
    <2> QED
      BY <2>1, <2>3 DEF s
  <1> HIDE DEF M
  <1>2. base \in S /\ step \in [Nat \X S -> S]
    <2>1. ASSUME NEW s \in Nat \X S, s[1] + 1 \in 1 .. n PROVE s[2] \o ss[s[1] + 1] \in S
      BY <1>1, <2>1
    <2> QED
      BY <2>1
  <1>3. PICK h : Recurses(h, S, base, step)
    <2> HIDE DEF S, base, step
    <2> QED
      BY <1>2, RecursionExists
  <1>4. ASSUME NEW i \in 0 .. n PROVE h[i] \in S
    <2> HIDE DEF S, step
    <2> QED
      BY <1>3 DEF Recurses
  <1>5. ASSUME NEW i \in 1 .. n PROVE h[i] = h[i - 1] \o ss[i]
    <2>1. i - 1 \in Nat /\ (i - 1) + 1 = i /\ i - 1 \in 0 .. n
      OBVIOUS
    <2>2. h[i] = step[<<i - 1, h[i - 1]>>]
      <3> HIDE DEF S, step
      <3> QED
        BY <1>3, <2>1 DEF Recurses
    <2>3. <<i - 1, h[i - 1]>> \in Nat \X S
      BY <1>4, <2>1
    <2> HIDE DEF S
    <2> QED
      BY <2>1, <2>2, <2>3
  <1>6. ASSUME NEW i \in 0 .. n PROVE IsSeq(h[i])
    BY <1>4, SeqIsSeq
  <1>7. h[0] = <<>>
    <2> HIDE DEF S, step
    <2> QED
      BY <1>3 DEF Recurses
  <1> QED
    BY <1>5, <1>6, <1>7 DEF Joined

(* FlattenSeq joins the lists. *)
LEMMA FlattenJoins ==
    ASSUME NEW n \in Nat, NEW ss, NEW h, Joined(ss, n, h), NEW k \in 0 .. n
    PROVE  FlattenSeq([j \in 1 .. k |-> ss[j]]) = h[k]
  <1> DEFINE l == [j \in 1 .. k |-> ss[j]]
  <1>1. Len(l) = k
    BY ListIsSeq
  <1>2. CASE k = 0
    <2>1. FlattenSeq(l) = l
      BY <1>1, <1>2 DEF FlattenSeq
    <2>2. l = <<>>
      BY <1>2
    <2> QED
      BY <1>2, <2>1, <2>2 DEF Joined
  <1>3. CASE k # 0
    <2> DEFINE Joins(f) == f = [i \in 1 .. k |-> IF i = 1 THEN l[i] ELSE f[i - 1] \o l[i]]
               fl == CHOOSE f : Joins(f)
               g == [i \in 1 .. k |-> h[i]]
    <2>1. ASSUME NEW i \in 1 .. k, i # 1 PROVE h[i] = h[i - 1] \o l[i] /\ i - 1 \in 1 .. k
      <3>1. i \in 1 .. n /\ i - 1 \in 1 .. k
        BY <2>1
      <3>2. h[i] = h[i - 1] \o ss[i]
        BY <3>1 DEF Joined
      <3> QED
        BY <3>1, <3>2
    <2>2. h[1] = l[1]
      <3>1. h[1] = h[0] \o ss[1] /\ h[0] = <<>> /\ IsSeq(ss[1]) /\ l[1] = ss[1]
        <4>1. 1 \in 1 .. k /\ 1 \in 1 .. n
          BY <1>3
        <4>2. h[1] = h[1 - 1] \o ss[1] /\ h[0] = <<>> /\ IsSeq(ss[1])
          BY <4>1 DEF Joined
        <4>3. 1 - 1 = 0
          OBVIOUS
        <4> QED
          BY <4>1, <4>2, <4>3
      <3>2. <<>> \o ss[1] = ss[1]
        <4> DEFINE s == ss[1]
        <4>1. s \in Seq({s[i] : i \in 1 .. Len(s)})
          BY <3>1, SeqOfMembers
        <4> HIDE DEF s
        <4>2. <<>> \o s = s
          BY <4>1
        <4> QED
          BY <4>2 DEF s
      <3> QED
        BY <3>1, <3>2
    <2>3. Joins(g)
      <3> HIDE DEF l
      <3>1. ASSUME NEW i \in 1 .. k PROVE g[i] = IF i = 1 THEN l[i] ELSE g[i - 1] \o l[i]
        BY <2>1, <2>2
      <3> QED
        BY <3>1
    <2>4. Joins(fl)
      <3> HIDE DEF Joins
      <3> QED
        BY <2>3
    <2>5. FlattenSeq(l) = fl[k]
      <3> HIDE DEF l
      <3> QED
        BY <1>1, <1>3 DEF FlattenSeq
    <2> HIDE DEF fl, g, l
    <2>6. fl[1] = g[1]
      BY <1>3, <2>3, <2>4
    <2>7. \A i \in 1 + 1 .. k : fl[i - 1] = g[i - 1] => fl[i] = g[i]
      <3> TAKE i \in 1 + 1 .. k
      <3>1. i \in 1 .. k /\ i # 1
        BY <1>3
      <3>2. g = [x \in 1 .. k |-> IF x = 1 THEN l[x] ELSE g[x - 1] \o l[x]]
        BY <2>3
      <3>3. fl = [x \in 1 .. k |-> IF x = 1 THEN l[x] ELSE fl[x - 1] \o l[x]]
        BY <2>4
      <3> HIDE DEF Joins
      <3>4. g[i] = g[i - 1] \o l[i]
        BY <3>1, <3>2
      <3>5. fl[i] = fl[i - 1] \o l[i]
        BY <3>1, <3>3
      <3> QED
        BY <3>4, <3>5
    <2>8. AgreeUpTo(fl, g, 1, k)
      <3> HIDE DEF Joins
      <3> QED
        BY <2>6, <2>7, Agreement
    <2>9. fl[k] = g[k]
      BY <1>3, <2>8 DEF AgreeUpTo
    <2>10. g[k] = h[k]
      BY <1>3 DEF g
    <2> QED
      BY <2>5, <2>9, <2>10 DEF l
  <1> QED
    BY <1>2, <1>3

(* One list more. *)
IsJoin(s, t, j) ==
    /\ Len(s) \in Nat /\ Len(t) \in Nat /\ Len(j) = Len(s) + Len(t)
    /\ \A p \in 1 .. Len(s) : j[p] = s[p]
    /\ \A q \in 1 .. Len(t) : j[Len(s) + q] = t[q]

(* Where the members of the lists are in what is joined. *)
LEMMA JoinedStep ==
    ASSUME NEW n \in Nat, NEW ss, NEW h, Joined(ss, n, h), NEW i \in 1 .. n
    PROVE  IsJoin(h[i - 1], ss[i], h[i])
  <1> DEFINE s == h[i - 1]
             t == ss[i]
  <1>1. IsSeq(s) /\ IsSeq(t) /\ h[i] = s \o t
    <2>1. i - 1 \in 0 .. n
      OBVIOUS
    <2> QED
      BY <2>1 DEF Joined
  <1> HIDE DEF s, t
  <1>2. /\ Len(s \o t) = Len(s) + Len(t)
        /\ \A p \in 1 .. Len(s) : (s \o t)[p] = s[p]
        /\ \A q \in 1 .. Len(t) : (s \o t)[Len(s) + q] = t[q]
    <2>1. IsSeq(s) /\ IsSeq(t)
      BY <1>1
    <2> QED
      BY <2>1, JoinFacts
  <1>3. Len(s) \in Nat /\ Len(t) \in Nat
    BY <1>1 DEF IsSeq
  <1> QED
    BY <1>1, <1>2, <1>3 DEF s, t, IsJoin

(* Places in a first part and in a second. *)
LEMMA PlacesJoined ==
    ASSUME NEW a, NEW b, NEW c, a \in Nat, b \in Nat, c = a + b
    PROVE  /\ \A p \in 1 .. a : p \in 1 .. c
           /\ \A q \in 1 .. b : a + q \in 1 .. c
           /\ \A p \in 1 .. c : p \in 1 .. a \/ (p - a \in 1 .. b /\ p = a + (p - a))
  OBVIOUS

(* x stands at the place p.                                                 *)
IsAt(s, p, x) == p \in 1 .. Len(s) /\ s[p] = x

(* A member of one of the lists is at its place in all that begins with its *)
(* list,                                                                    *)
LEMMA JoinedAt ==
    ASSUME NEW n \in Nat, NEW ss, NEW h, Joined(ss, n, h),
           NEW i \in 1 .. n, NEW q \in 1 .. Len(ss[i]), NEW k \in i .. n
    PROVE  IsAt(h[k], Len(h[i - 1]) + q, ss[i][q])
  <1> DEFINE p == Len(h[i - 1]) + q
             At(j) == p \in 1 .. Len(h[j]) /\ h[j][p] = ss[i][q]
             T == {j \in Nat : i + j <= n => At(i + j)}
  <1>1. /\ Len(h[i]) = Len(h[i - 1]) + Len(ss[i])
        /\ Len(h[i - 1]) \in Nat /\ Len(ss[i]) \in Nat
        /\ h[i][p] = ss[i][q]
    <2>1. IsJoin(h[i - 1], ss[i], h[i])
      BY JoinedStep
    <2> QED
      BY <2>1 DEF IsJoin
  <1>2. At(i)
    <2>1. q \in 1 .. Len(ss[i]) /\ p = Len(h[i - 1]) + q
      OBVIOUS
    <2> HIDE DEF p
    <2>2. p \in 1 .. Len(h[i])
      BY <1>1, <2>1, PlacesJoined
    <2> QED
      BY <1>1, <2>2
  <1>3. 0 \in T
    <2>1. i + 0 = i
      OBVIOUS
    <2> HIDE DEF At
    <2> QED
      BY <1>2, <2>1
  <1>4. ASSUME NEW j \in Nat, j \in T PROVE j + 1 \in T
    <2> SUFFICES ASSUME i + (j + 1) <= n PROVE At(i + (j + 1))
      OBVIOUS
    <2> DEFINE x == i + (j + 1)
    <2>1. x \in 1 .. n /\ x - 1 = i + j /\ i + j <= n
      OBVIOUS
    <2>2. At(x - 1)
      <3> HIDE DEF At
      <3> QED
        BY <1>4, <2>1
    <2> HIDE DEF x
    <2>3. /\ Len(h[x]) = Len(h[x - 1]) + Len(ss[x])
          /\ Len(h[x - 1]) \in Nat /\ Len(ss[x]) \in Nat
          /\ \A y \in 1 .. Len(h[x - 1]) : h[x][y] = h[x - 1][y]
      <3>1. IsJoin(h[x - 1], ss[x], h[x])
        BY <2>1, JoinedStep
      <3> QED
        BY <3>1 DEF IsJoin
    <2> HIDE DEF p
    <2>4. At(x)
      <3>1. p \in 1 .. Len(h[x - 1]) /\ h[x - 1][p] = ss[i][q]
        BY <2>2
      <3>2. p \in 1 .. Len(h[x]) /\ h[x][p] = h[x - 1][p]
        BY <2>3, <3>1, PlacesJoined
      <3> QED
        BY <3>1, <3>2
    <2> QED
      BY <2>4 DEF x
  <1>5. k - i \in T
    <2> HIDE DEF T
    <2>1. Nat \subseteq T
      BY <1>3, <1>4, SetInduction
    <2> QED
      BY <2>1
  <1>6. i + (k - i) = k
    OBVIOUS
  <1> HIDE DEF At
  <1>7. At(k)
    BY <1>5, <1>6
  <1> QED
    BY <1>7 DEF At, IsAt

(* Place p of the first k lists joined is a place of one of them.           *)
ComesFrom(ss, h, k, p) ==
    \E i \in 1 .. k : \E q \in 1 .. Len(ss[i]) : p = Len(h[i - 1]) + q /\ h[k][p] = ss[i][q]

(* and every place of what is joined is a place of one of the lists.        *)
LEMMA JoinedFrom ==
    ASSUME NEW n \in Nat, NEW ss, NEW h, Joined(ss, n, h),
           NEW k \in 0 .. n, NEW p \in 1 .. Len(h[k])
    PROVE  ComesFrom(ss, h, k, p)
  <1> DEFINE From(j, x) == ComesFrom(ss, h, j, x)
             T == {j \in Nat : j <= n => \A x \in 1 .. Len(h[j]) : From(j, x)}
  <1>1. 0 \in T
    <2>1. h[0] = <<>>
      BY DEF Joined
    <2>2. Len(h[0]) = 0
      BY <2>1
    <2> QED
      BY <2>2
  <1>2. ASSUME NEW j \in Nat, j \in T PROVE j + 1 \in T
    <2> SUFFICES ASSUME j + 1 <= n, NEW x \in 1 .. Len(h[j + 1]) PROVE From(j + 1, x)
      OBVIOUS
    <2>1. j + 1 \in 1 .. n /\ (j + 1) - 1 = j /\ j <= n
      OBVIOUS
    <2>2. /\ Len(h[j + 1]) = Len(h[j]) + Len(ss[j + 1])
          /\ Len(h[j]) \in Nat /\ Len(ss[j + 1]) \in Nat
          /\ \A y \in 1 .. Len(h[j]) : h[j + 1][y] = h[j][y]
          /\ \A y \in 1 .. Len(ss[j + 1]) : h[j + 1][Len(h[j]) + y] = ss[j + 1][y]
      <3> DEFINE z == j + 1
      <3>1. z \in 1 .. n /\ z - 1 = j
        BY <2>1
      <3> HIDE DEF z
      <3>2. IsJoin(h[z - 1], ss[z], h[z])
        BY <3>1, JoinedStep
      <3>3. IsJoin(h[j], ss[z], h[z])
        BY <3>1, <3>2
      <3>4. IsJoin(h[j], ss[j + 1], h[j + 1])
        BY <3>3 DEF z
      <3> QED
        BY <3>4 DEF IsJoin
    <2>3. CASE x <= Len(h[j])
      <3>1. x \in 1 .. Len(h[j])
        BY <2>2, <2>3
      <3>2. From(j, x)
        <4> HIDE DEF From
        <4> QED
          BY <1>2, <2>1, <3>1
      <3>3. h[j + 1][x] = h[j][x] /\ 1 .. j \subseteq 1 .. j + 1
        BY <2>2, <3>1
      <3> QED
        BY <3>2, <3>3 DEF ComesFrom
    <2>4. CASE x > Len(h[j])
      <3> DEFINE y == x - Len(h[j])
      <3>1. y \in 1 .. Len(ss[j + 1]) /\ x = Len(h[j]) + y
        <4>1. x \in 1 .. Len(h[j]) + Len(ss[j + 1])
          BY <2>2
        <4>2. Len(h[j]) \in Nat /\ Len(ss[j + 1]) \in Nat
          BY <2>2
        <4> DEFINE u == Len(h[j])
                   v == Len(ss[j + 1])
        <4>3. x \in 1 .. u + v /\ u \in Nat /\ v \in Nat /\ x > u /\ y = x - u
          BY <2>4, <4>1, <4>2
        <4> HIDE DEF u, v, y
        <4>4. y \in 1 .. v /\ x = u + y
          BY <4>3
        <4> QED
          BY <4>4 DEF u, v
      <3> HIDE DEF y
      <3>2. h[j + 1][x] = ss[j + 1][y]
        BY <2>2, <3>1
      <3>3. j + 1 \in 1 .. j + 1 /\ (j + 1) - 1 = j
        OBVIOUS
      <3>4. x = Len(h[(j + 1) - 1]) + y
        BY <3>1, <3>3
      <3> QED
        BY <3>1, <3>2, <3>3, <3>4 DEF ComesFrom
    <2>5. x <= Len(h[j]) \/ x > Len(h[j])
      BY <2>2
    <2> QED
      BY <2>3, <2>4, <2>5
  <1>3. k \in T
    <2> HIDE DEF T
    <2>1. Nat \subseteq T
      BY <1>1, <1>2, SetInduction
    <2> QED
      BY <2>1
  <1> QED
    BY <1>3

(* s has the members of n lists and no others.                              *)
HasMembersOf(s, ss, n) ==
    /\ IsSeq(s)
    /\ \A p \in 1 .. Len(s) : \E i \in 1 .. n : \E q \in 1 .. Len(ss[i]) : s[p] = ss[i][q]
    /\ \A i \in 1 .. n : \A q \in 1 .. Len(ss[i]) : \E p \in 1 .. Len(s) : s[p] = ss[i][q]

(* What FlattenSeq makes of lists.                                          *)
LEMMA FlattenFacts ==
    ASSUME NEW n \in Nat, NEW ss, \A i \in 1 .. n : IsSeq(ss[i])
    PROVE  HasMembersOf(FlattenSeq([i \in 1 .. n |-> ss[i]]), ss, n)
  <1> DEFINE s == FlattenSeq([i \in 1 .. n |-> ss[i]])
  <1>1. PICK h : Joined(ss, n, h)
    BY JoinedExists
  <1>2. s = h[n]
    BY <1>1, FlattenJoins
  <1> HIDE DEF s
  <1>3. IsSeq(s)
    BY <1>1, <1>2 DEF Joined
  <1>4. ASSUME NEW p \in 1 .. Len(s)
        PROVE  \E i \in 1 .. n : \E q \in 1 .. Len(ss[i]) : s[p] = ss[i][q]
    <2>1. n \in 0 .. n /\ p \in 1 .. Len(h[n])
      BY <1>2
    <2>2. ComesFrom(ss, h, n, p)
      <3> HIDE DEF s
      <3> QED
        BY <1>1, <2>1, JoinedFrom
    <2> QED
      BY <1>2, <2>2 DEF ComesFrom
  <1>5. ASSUME NEW i \in 1 .. n, NEW q \in 1 .. Len(ss[i])
        PROVE  \E p \in 1 .. Len(s) : s[p] = ss[i][q]
    <2>1. n \in i .. n
      OBVIOUS
    <2>2. IsAt(h[n], Len(h[i - 1]) + q, ss[i][q])
      BY <1>1, <2>1, JoinedAt
    <2> QED
      BY <1>2, <2>2 DEF IsAt
  <1> QED
    BY <1>3, <1>4, <1>5 DEF s, HasMembersOf

-----------------------------------------------------------------------------
(* The homes of values. *)

(* The registers a function saves are those in use. *)
LEMMA SavedFacts ==
    ASSUME NEW al, al.reg_used \subseteq 0 .. Len(AllocRegs) - 1
    PROVE  /\ IsSeq(Saved(al)) /\ Len(Saved(al)) \in Nat
           /\ \A p \in 1 .. Len(Saved(al)) : AllocRegs[Saved(al)[p] + 1] \in CalleeSaved
           /\ \A r \in al.reg_used : \E p \in 1 .. Len(Saved(al)) : Saved(al)[p] = r
  <1> DEFINE ss == [i \in 1 .. 7 |-> IF i - 1 \in al.reg_used THEN <<i - 1>> ELSE <<>>]
             s == Saved(al)
  <1>1. DOMAIN AllocRegs = 1 .. 7 /\ Len(AllocRegs) = 7
    BY DEF AllocRegs
  <1>2. \A i \in 1 .. 7 : AllocRegs[i] \in CalleeSaved
    BY <1>1 DEF CalleeSaved, Range
  <1>3. ASSUME NEW i \in 1 .. 7 PROVE IsSeq(ss[i])
    <2>1. <<i - 1>> \in Seq({i - 1}) /\ <<>> \in Seq({i - 1})
      OBVIOUS
    <2>2. IsSeq(<<i - 1>>) /\ IsSeq(<<>>)
      BY <2>1, SeqIsSeq
    <2> QED
      BY <2>2
  <1>4. s = FlattenSeq([i \in 1 .. 7 |-> ss[i]])
    BY <1>1 DEF Saved
  <1>5. HasMembersOf(s, ss, 7)
    <2> HIDE DEF ss, s
    <2>1. 7 \in Nat
      OBVIOUS
    <2> QED
      BY <1>3, <1>4, <2>1, FlattenFacts
  <1> HIDE DEF s
  <1>6. ASSUME NEW p \in 1 .. Len(s) PROVE AllocRegs[s[p] + 1] \in CalleeSaved
    <2>1. PICK i \in 1 .. 7 : \E q \in 1 .. Len(ss[i]) : s[p] = ss[i][q]
      <3> HIDE DEF ss
      <3> QED
        BY <1>5 DEF HasMembersOf
    <2>2. ss[i] = <<i - 1>>
      BY <2>1
    <2>3. s[p] + 1 = i
      BY <2>1, <2>2
    <2> QED
      BY <1>2, <2>3
  <1>7. ASSUME NEW r \in al.reg_used PROVE \E p \in 1 .. Len(s) : s[p] = r
    <2>1. r + 1 \in 1 .. 7 /\ (r + 1) - 1 = r
      BY <1>1
    <2>2. ss[r + 1] = <<r>>
      BY <2>1
    <2>3. 1 \in 1 .. Len(ss[r + 1]) /\ ss[r + 1][1] = r
      BY <2>2
    <2> HIDE DEF ss
    <2>4. \A q \in 1 .. Len(ss[r + 1]) : \E p \in 1 .. Len(s) : s[p] = ss[r + 1][q]
      BY <1>5, <2>1 DEF HasMembersOf
    <2> QED
      BY <2>3, <2>4
  <1>8. IsSeq(s) /\ Len(s) \in Nat
    BY <1>5 DEF HasMembersOf, IsSeq
  <1> QED
    BY <1>6, <1>7, <1>8 DEF s

(* The function the encoder makes room for. *)
ShellOf(al, stack_args) ==
    [entry |-> 1, body |-> Len(Saved(al)) + 4, last |-> 0,
     frame |-> FrameSize(Len(Saved(al)) + al.num_spills, stack_args),
     saves |-> [i \in 1 .. Len(Saved(al)) |-> AllocRegs[Saved(al)[i] + 1]]]

(* f keeps what the registers in use held, has a place for each value that  *)
(* is placed, and room for k arguments on the stack.                        *)
Houses(f, al, k) ==
    /\ IsShell(f)
    /\ IsSeq(Saved(al)) /\ NumSaves(f) = Len(Saved(al))
    /\ \A i \in 1 .. NumSaves(f) : f.saves[i] = AllocRegs[Saved(al)[i] + 1]
    /\ \A v : Placed(al, v) =>
          IF InReg(al, v) THEN Home(al, v) \in Free(f)
          ELSE SpillAt(al, v) \in -f.frame .. SaveDisp(NumSaves(f))
    /\ \A i \in 5 .. k + 4 : OutDisp(i - 1) \in 0 .. f.frame + SaveDisp(NumSaves(f))

(* A frame has room for that many cells. *)
HasRoom(frame, n, slots, k) ==
    frame \in Nat /\ frame % 16 = 0 /\ 8 * n + 8 * slots + 32 + 8 * k <= frame

(* A frame has room for what is saved, the slots and the arguments. *)
LEMMA FrameHasRoom ==
    ASSUME NEW n \in Nat, NEW slots \in Nat, NEW k \in Nat
    PROVE  HasRoom(FrameSize(n + slots, k), n, slots, k)
  <1> DEFINE b == (n + slots) * 8 + 32 + k * 8
             d == (b + 15) \div 16
  <1>1. b \in Nat /\ b = 8 * n + 8 * slots + 32 + 8 * k
    OBVIOUS
  <1> HIDE DEF b
  <1>2. d \in Nat /\ b <= d * 16 /\ d * 16 \in Nat /\ (d * 16) % 16 = 0
    BY <1>1
  <1>3. FrameSize(n + slots, k) = d * 16
    BY DEF FrameSize, Align16, b
  <1> HIDE DEF d
  <1> QED
    BY <1>1, <1>2, <1>3 DEF HasRoom

(* So the shell houses all that is placed. *)
LEMMA ShellHouses ==
    ASSUME NEW al, al.reg_used \subseteq 0 .. Len(AllocRegs) - 1, al.num_spills \in Nat,
           NEW k \in Nat
    PROVE  Houses(ShellOf(al, k), al, k)
  <1> DEFINE f == ShellOf(al, k)
             n == Len(Saved(al))
             sp == al.num_spills
  <1>1. /\ IsSeq(Saved(al)) /\ n \in Nat
        /\ \A p \in 1 .. n : AllocRegs[Saved(al)[p] + 1] \in CalleeSaved
        /\ \A r \in al.reg_used : \E p \in 1 .. n : Saved(al)[p] = r
    BY SavedFacts
  <1>2. /\ f.entry = 1 /\ f.body = n + 4 /\ f.frame = FrameSize(n + sp, k)
        /\ f.saves = [i \in 1 .. n |-> AllocRegs[Saved(al)[i] + 1]]
    BY DEF ShellOf
  <1> HIDE DEF f, n, sp
  <1>3. NumSaves(f) = n
    BY <1>1, <1>2 DEF NumSaves
  <1>4. /\ f.frame \in Nat /\ f.frame % 16 = 0
        /\ 8 * n + 8 * sp + 32 + 8 * k <= f.frame
    <2>1. sp \in Nat
      BY DEF sp
    <2>2. HasRoom(FrameSize(n + sp, k), n, sp, k)
      BY <1>1, <2>1, FrameHasRoom
    <2> QED
      BY <1>2, <2>2 DEF HasRoom
  <1>5. sp \in Nat
    BY DEF sp
  <1>6. IsShell(f)
    <2>1. 8 * n <= f.frame
      BY <1>1, <1>4, <1>5
    <2> QED
      BY <1>1, <1>2, <1>3, <1>4, <2>1 DEF IsShell
  <1>7. ASSUME NEW v, Placed(al, v), InReg(al, v) PROVE Home(al, v) \in Free(f)
    <2>1. al.reg[v] \in al.reg_used
      BY <1>7 DEF Placed, InReg
    <2>2. PICK p \in 1 .. n : Saved(al)[p] = al.reg[v]
      BY <1>1, <2>1
    <2>3. Home(al, v) = f.saves[p]
      BY <1>2, <2>2 DEF Home
    <2> QED
      BY <1>3, <2>3 DEF Free
  <1>8. ASSUME NEW v, Placed(al, v), ~InReg(al, v)
        PROVE  SpillAt(al, v) \in -f.frame .. SaveDisp(n)
    <2> DEFINE s == al.spill[v]
    <2>1. s \in 0 .. sp - 1
      BY <1>8 DEF Placed, InReg, sp
    <2>2. SpillAt(al, v) = -8 * (n + s + 1)
      BY DEF SpillAt, SpillDisp, n
    <2> HIDE DEF s
    <2>3. SaveDisp(n) = -8 * (n + 1)
      BY DEF SaveDisp
    <2> QED
      BY <1>1, <1>4, <1>5, <2>1, <2>2, <2>3
  <1>9. ASSUME NEW i \in 5 .. k + 4 PROVE OutDisp(i - 1) \in 0 .. f.frame + SaveDisp(n)
    <2>1. OutDisp(i - 1) = 32 + 8 * (i - 5)
      BY DEF OutDisp
    <2>2. SaveDisp(n) = -8 * (n + 1)
      BY DEF SaveDisp
    <2> QED
      BY <1>1, <1>4, <1>5, <2>1, <2>2
  <1>10. \A i \in 1 .. n : f.saves[i] = AllocRegs[Saved(al)[i] + 1]
    BY <1>2
  <1> QED
    BY <1>1, <1>3, <1>6, <1>7, <1>8, <1>9, <1>10 DEF Houses, f, n

-----------------------------------------------------------------------------
(* What the encoder emits. *)

(* Instructions that write a register of the function, *)
LEMMA RegisterOpsKeep ==
    ASSUME NEW f, IsShell(f), NEW m, NEW U, NEW a, Good(a, f, m, U),
           NEW d \in Free(f), NEW x, NEW k
    PROVE  /\ Good(MovRI(a, d, x), f, m, U) /\ Good(MovRR(a, d, x), f, m, U)
           /\ Good(LoadRbp(a, d, x), f, m, U) /\ Good(MovSX(a, d), f, m, U)
           /\ Good(Alu(a, k, d, x), f, m, U) /\ Good(AluRM(a, k, d, x), f, m, U)
           /\ Good(AluRI(a, k, d, x), f, m, U) /\ Good(CMov(a, k, d, x), f, m, U)
           /\ Good(MovFromMem(a, d, x), f, m, U)
           /\ k \in UnaryOps => Good(Unary(a, k, d), f, m, U)
  <1>1. ASSUME NEW in, in.i \in RegisterOps \/ (in.i = "unary" /\ in.k \in UnaryOps), in.d = d
        PROVE  Good(Asm(a, in), f, m, U)
    <2>1. Straightforward(f, in)
      BY <1>1 DEF Straightforward, WritesRegisters, RegisterOps, SavesRegister
    <2> QED
      BY <2>1, OneKeeps
  <1>2. Good(MovRI(a, d, x), f, m, U) /\ Good(MovRR(a, d, x), f, m, U)
    BY <1>1 DEF MovRI, MovRR, Ins, RegisterOps
  <1>3. Good(LoadRbp(a, d, x), f, m, U) /\ Good(MovSX(a, d), f, m, U)
    BY <1>1 DEF LoadRbp, MovSX, Ins, RegisterOps
  <1>4. Good(Alu(a, k, d, x), f, m, U) /\ Good(AluRM(a, k, d, x), f, m, U)
    BY <1>1 DEF Alu, AluRM, Ins, RegisterOps
  <1>5. Good(AluRI(a, k, d, x), f, m, U) /\ Good(CMov(a, k, d, x), f, m, U)
    BY <1>1 DEF AluRI, CMov, Ins, RegisterOps
  <1>6. Good(MovFromMem(a, d, x), f, m, U) /\ (k \in UnaryOps => Good(Unary(a, k, d), f, m, U))
    BY <1>1 DEF MovFromMem, Unary, Ins, RegisterOps
  <1> QED
    BY <1>2, <1>3, <1>4, <1>5, <1>6

(* that compare, or use RAX only, *)
LEMMA QuietOpsKeep ==
    ASSUME NEW f, IsShell(f), NEW m, NEW U, NEW a, Good(a, f, m, U), NEW d, NEW x
    PROVE  /\ Good(TestRR(a, d), f, m, U) /\ Good(SetCC(a, d), f, m, U)
           /\ Good(MovToMem(a, d, x), f, m, U)
  <1>1. ASSUME NEW in, in.i \in {"test_rr", "setcc", "mov_to_mem"}
        PROVE  Good(Asm(a, in), f, m, U)
    <2>1. Straightforward(f, in)
      BY <1>1 DEF Straightforward, WritesRegisters, SavesRegister
    <2> QED
      BY <2>1, OneKeeps
  <1> DEFINE test == [Ins("test_rr") EXCEPT !.d = d]
             set == [Ins("setcc") EXCEPT !.k = d]
             mov == [Ins("mov_to_mem") EXCEPT !.d = d, !.s = x]
  <1>2. test.i = "test_rr" /\ set.i = "setcc" /\ mov.i = "mov_to_mem"
    BY DEF Ins
  <1>3. /\ TestRR(a, d) = Asm(a, test) /\ SetCC(a, d) = Asm(a, set)
        /\ MovToMem(a, d, x) = Asm(a, mov)
    BY DEF TestRR, SetCC, MovToMem
  <1> HIDE DEF test, set, mov
  <1>4. Good(Asm(a, test), f, m, U) /\ Good(Asm(a, set), f, m, U) /\ Good(Asm(a, mov), f, m, U)
    BY <1>1, <1>2
  <1> QED
    BY <1>3, <1>4

(* that store a scratch register to a slot, *)
LEMMA StoreKeeps ==
    ASSUME NEW f, IsShell(f), NEW m, NEW U, NEW a, Good(a, f, m, U),
           NEW disp \in -f.frame .. SaveDisp(NumSaves(f)), NEW s \in Scratch
    PROVE  Good(StoreRbp(a, disp, s), f, m, U)
  <1> DEFINE in == [Ins("store") EXCEPT !.s = s, !.n = disp]
  <1>1. in.i = "store" /\ in.s = s /\ in.n = disp
    BY DEF Ins
  <1>2. s \notin CalleeSaved
    BY ScratchIsNotSaved
  <1> HIDE DEF in
  <1>3. Straightforward(f, in)
    BY <1>1, <1>2 DEF Straightforward, WritesFrame, SavesRegister
  <1>4. Good(Asm(a, in), f, m, U)
    BY <1>3, OneKeeps
  <1> QED
    BY <1>4 DEF StoreRbp, in

(* that jump to a label,                                                    *)
LEMMA JumpsKeep ==
    ASSUME NEW f, IsShell(f), NEW m, NEW U, NEW a, Good(a, f, m, U),
           NEW l \in 1 .. m, NEW cc
    PROVE  /\ Good(Jump(a, l), f, m, U) /\ Closed(Jump(a, l))
           /\ Good(JCC(a, cc, l), f, m, U)
  <1> DEFINE jmp == [Ins("jmp") EXCEPT !.n = l]
             jcc == [Ins("jcc") EXCEPT !.k = cc, !.n = l]
  <1>1. /\ jmp.i = "jmp" /\ jmp.n = l /\ IsInstruction(jmp)
        /\ jcc.i = "jcc" /\ jcc.n = l /\ IsInstruction(jcc)
    <2>1. jmp.i = "jmp" /\ jmp.n = l /\ jcc.i = "jcc" /\ jcc.n = l
      BY DEF Ins
    <2>2. IsInstruction(Ins("jmp")) /\ IsInstruction(Ins("jcc"))
      BY InsIsInstruction
    <2>3. IsInstruction([Ins("jcc") EXCEPT !.k = cc])
      BY <2>2, FieldWritten
    <2>4. IsInstruction([[Ins("jcc") EXCEPT !.k = cc] EXCEPT !.n = l]) /\ IsInstruction(jmp)
      BY <2>2, <2>3, FieldWritten
    <2>5. IsInstruction(jcc)
      BY <2>4
    <2> HIDE DEF jmp, jcc
    <2> QED
      BY <2>1, <2>4, <2>5
  <1>2. Jump(a, l) = Asm(a, jmp) /\ JCC(a, cc, l) = Asm(a, jcc)
    BY DEF Jump, JCC
  <1> HIDE DEF jmp, jcc
  <1>3. Good(Asm(a, jmp), f, m, U) /\ Closed(Asm(a, jmp))
    BY <1>1, BranchKeeps
  <1>4. Good(Asm(a, jcc), f, m, U)
    BY <1>1, BranchKeeps
  <1> QED
    BY <1>2, <1>3, <1>4

(* The scratch registers are free. *)
LEMMA ScratchIsFree ==
    ASSUME NEW f
    PROVE  /\ Scratch \subseteq Free(f) /\ {"RAX", "RCX", "RDX"} \subseteq Free(f)
           /\ {"RAX", "RCX", "RDX"} \subseteq Scratch
           /\ \A i \in 0 .. 3 : ArgRegs[i + 1] \in Scratch
  BY ScratchIsNotSaved DEF Free

(* The encoder at work on f for the allocation al: its code is good so far. *)
Encoding(f, al, k, m, U, a) == Houses(f, al, k) /\ Good(a, f, m, U)

(* A value fetched, *)
LEMMA FetchKeeps ==
    ASSUME NEW f, NEW al, NEW k, NEW m, NEW U, NEW a, Encoding(f, al, k, m, U, a),
           NEW v, NEW r \in Free(f)
    PROVE  Encoding(f, al, k, m, U, Fetch(a, al, v, r))
  <1>1. Houses(f, al, k) /\ IsShell(f) /\ Good(a, f, m, U)
    BY DEF Encoding, Houses
  <1>2. Good(LoadRbp(a, r, SpillAt(al, v)), f, m, U) /\ Good(MovRR(a, r, Home(al, v)), f, m, U)
    BY <1>1, RegisterOpsKeep
  <1> QED
    BY <1>1, <1>2 DEF Encoding, Fetch

(* and put back.                                                            *)
LEMMA PutBackKeeps ==
    ASSUME NEW f, NEW al, NEW k, NEW m, NEW U, NEW a, Encoding(f, al, k, m, U, a),
           NEW v, Placed(al, v), NEW r \in Scratch
    PROVE  Encoding(f, al, k, m, U, PutBack(a, al, v, r))
  <1>1. Houses(f, al, k) /\ IsShell(f) /\ Good(a, f, m, U)
    BY DEF Encoding, Houses
  <1>2. CASE InReg(al, v)
    <2>1. Home(al, v) \in Free(f)
      BY <1>1, <1>2 DEF Houses
    <2>2. Good(MovRR(a, Home(al, v), r), f, m, U)
      BY <1>1, <2>1, RegisterOpsKeep
    <2> QED
      BY <1>1, <1>2, <2>2 DEF Encoding, PutBack
  <1>3. CASE ~InReg(al, v)
    <2>1. SpillAt(al, v) \in -f.frame .. SaveDisp(NumSaves(f))
      BY <1>1, <1>3 DEF Houses
    <2>2. Good(StoreRbp(a, SpillAt(al, v), r), f, m, U)
      BY <1>1, <2>1, StoreKeeps
    <2> QED
      BY <1>1, <1>3, <2>2 DEF Encoding, PutBack
  <1> QED
    BY <1>2, <1>3

(* The register a result is computed in is free,                            *)
LEMMA TargetIsFree ==
    ASSUME NEW f, NEW al, NEW k, Houses(f, al, k), NEW v, Placed(al, v)
    PROVE  Target(al, v) \in Free(f)
  BY ScratchIsFree DEF Houses, Target

(* narrowing it changes nothing else,                                       *)
LEMMA NarrowedKeeps ==
    ASSUME NEW f, NEW al, NEW k, NEW m, NEW U, NEW a, Encoding(f, al, k, m, U, a),
           NEW r \in Free(f), NEW t
    PROVE  Encoding(f, al, k, m, U, Narrowed(a, r, t))
  <1>1. Houses(f, al, k) /\ IsShell(f) /\ Good(a, f, m, U)
    BY DEF Encoding, Houses
  <1>2. Good(MovSX(a, r), f, m, U)
    BY <1>1, RegisterOpsKeep
  <1> QED
    BY <1>1, <1>2 DEF Encoding, Narrowed

(* and it is stored unless it is the result's home.                         *)
LEMMA SettledKeeps ==
    ASSUME NEW f, NEW al, NEW k, NEW m, NEW U, NEW a, Encoding(f, al, k, m, U, a),
           NEW in, Placed(al, in.dst)
    PROVE  Encoding(f, al, k, m, U, Settled(a, al, in))
  <1> DEFINE b == Narrowed(a, Target(al, in.dst), in.type)
  <1>1. Houses(f, al, k) /\ IsShell(f)
    BY DEF Encoding, Houses
  <1>2. Encoding(f, al, k, m, U, b)
    BY <1>1, TargetIsFree, NarrowedKeeps
  <1> HIDE DEF b
  <1>3. CASE InReg(al, in.dst)
    BY <1>2, <1>3 DEF Settled, b
  <1>4. CASE ~InReg(al, in.dst)
    <2>1. SpillAt(al, in.dst) \in -f.frame .. SaveDisp(NumSaves(f))
      BY <1>1, <1>4 DEF Houses
    <2>2. "RAX" \in Scratch /\ Good(b, f, m, U)
      BY <1>2, ScratchIsFree DEF Encoding
    <2>3. Good(StoreRbp(b, SpillAt(al, in.dst), "RAX"), f, m, U)
      BY <1>1, <2>1, <2>2, StoreKeeps
    <2> QED
      BY <1>1, <1>4, <2>3 DEF Encoding, Settled, b
  <1> QED
    BY <1>3, <1>4

(* An operation with a value as its second operand. *)
LEMMA AluVKeeps ==
    ASSUME NEW f, NEW al, NEW k, NEW m, NEW U, NEW a, Encoding(f, al, k, m, U, a),
           NEW op, NEW r \in Free(f), NEW v
    PROVE  Encoding(f, al, k, m, U, AluV(a, al, op, r, v))
  <1>1. Houses(f, al, k) /\ IsShell(f) /\ Good(a, f, m, U)
    BY DEF Encoding, Houses
  <1>2. Good(Alu(a, op, r, Home(al, v)), f, m, U) /\ Good(AluRM(a, op, r, SpillAt(al, v)), f, m, U)
    BY <1>1, RegisterOpsKeep
  <1> QED
    BY <1>1, <1>2 DEF Encoding, AluV

(* The same of the encoder. *)
LEMMA OpsEncode ==
    ASSUME NEW f, NEW al, NEW k, NEW m, NEW U, NEW a, Encoding(f, al, k, m, U, a),
           NEW d \in Free(f), NEW x, NEW op
    PROVE  /\ Encoding(f, al, k, m, U, MovRI(a, d, x)) /\ Encoding(f, al, k, m, U, MovRR(a, d, x))
           /\ Encoding(f, al, k, m, U, LoadRbp(a, d, x)) /\ Encoding(f, al, k, m, U, Alu(a, op, d, x))
           /\ Encoding(f, al, k, m, U, AluRI(a, op, d, x))
           /\ Encoding(f, al, k, m, U, CMov(a, op, d, x))
           /\ Encoding(f, al, k, m, U, MovFromMem(a, d, x))
           /\ op \in UnaryOps => Encoding(f, al, k, m, U, Unary(a, op, d))
  <1>1. Houses(f, al, k) /\ IsShell(f) /\ Good(a, f, m, U)
    BY DEF Encoding, Houses
  <1> QED
    BY <1>1, RegisterOpsKeep DEF Encoding

(* And of instructions that write no register of the function. *)
LEMMA QuietOpsEncode ==
    ASSUME NEW f, NEW al, NEW k, NEW m, NEW U, NEW a, Encoding(f, al, k, m, U, a), NEW d, NEW x
    PROVE  /\ Encoding(f, al, k, m, U, TestRR(a, d)) /\ Encoding(f, al, k, m, U, SetCC(a, d))
           /\ Encoding(f, al, k, m, U, MovToMem(a, d, x))
  <1>1. Houses(f, al, k) /\ IsShell(f) /\ Good(a, f, m, U)
    BY DEF Encoding, Houses
  <1> QED
    BY <1>1, QuietOpsKeep DEF Encoding

(* And of jumps. *)
LEMMA JumpsEncode ==
    ASSUME NEW f, NEW al, NEW k, NEW m, NEW U, NEW a, Encoding(f, al, k, m, U, a),
           NEW l \in 1 .. m, NEW cc
    PROVE  /\ Encoding(f, al, k, m, U, Jump(a, l)) /\ Closed(Jump(a, l))
           /\ Encoding(f, al, k, m, U, JCC(a, cc, l))
  <1>1. Houses(f, al, k) /\ IsShell(f) /\ Good(a, f, m, U)
    BY DEF Encoding, Houses
  <1> QED
    BY <1>1, JumpsKeep DEF Encoding

-----------------------------------------------------------------------------
(* The instructions of VCode. *)

(* Add, Sub, And, Or, Xor, Mul *)
LEMMA BinaryKeeps ==
    ASSUME NEW f, NEW al, NEW k, NEW m, NEW U, NEW a, Encoding(f, al, k, m, U, a),
           NEW in, Placed(al, in.dst)
    PROVE  Encoding(f, al, k, m, U, EncodeBinary(a, al, in))
  <1> DEFINE t == Target(al, in.dst)
             op == AluOf[in.op]
             got == Fetch(a, al, in.a, t)
             b == IF in.b_imm THEN AluRI(got, op, t, in.imm) ELSE AluV(got, al, op, t, in.b)
  <1>1. t \in Free(f)
    BY TargetIsFree DEF Encoding
  <1> HIDE DEF t, op
  <1>2. Encoding(f, al, k, m, U, got)
    BY <1>1, FetchKeeps
  <1> HIDE DEF got
  <1>3. Encoding(f, al, k, m, U, AluRI(got, op, t, in.imm))
    BY <1>1, <1>2, OpsEncode
  <1>4. Encoding(f, al, k, m, U, AluV(got, al, op, t, in.b))
    BY <1>1, <1>2, AluVKeeps
  <1>5. Encoding(f, al, k, m, U, b)
    BY <1>3, <1>4
  <1> HIDE DEF b
  <1>6. Encoding(f, al, k, m, U, Settled(b, al, in))
    BY <1>5, SettledKeeps
  <1> QED
    BY <1>6 DEF EncodeBinary, b, got, op, t

(* Shl, Sar, Shr *)
LEMMA ShiftKeeps ==
    ASSUME NEW f, NEW al, NEW k, NEW m, NEW U, NEW a, Encoding(f, al, k, m, U, a),
           NEW in, in.op \in DOMAIN ShiftOf, Placed(al, in.dst)
    PROVE  Encoding(f, al, k, m, U, EncodeShift(a, al, in))
  <1> DEFINE t == Target(al, in.dst)
             op == ShiftOf[in.op]
             got == Fetch(a, al, in.a, t)
             count == Fetch(got, al, in.b, "RCX")
             b == IF in.b_imm THEN AluRI(got, op, t, in.imm) ELSE Unary(count, op, t)
  <1>1. t \in Free(f) /\ "RCX" \in Free(f)
    BY TargetIsFree, ScratchIsFree DEF Encoding
  <1>2. op \in UnaryOps
    BY DEF ShiftOf, UnaryOps
  <1> HIDE DEF t, op
  <1>3. Encoding(f, al, k, m, U, got)
    BY <1>1, FetchKeeps
  <1> HIDE DEF got
  <1>4. Encoding(f, al, k, m, U, count)
    BY <1>1, <1>3, FetchKeeps
  <1> HIDE DEF count
  <1>5. Encoding(f, al, k, m, U, AluRI(got, op, t, in.imm))
    BY <1>1, <1>3, OpsEncode
  <1>6. Encoding(f, al, k, m, U, Unary(count, op, t))
    BY <1>1, <1>2, <1>4, OpsEncode
  <1>7. Encoding(f, al, k, m, U, b)
    BY <1>5, <1>6
  <1> HIDE DEF b
  <1>8. Encoding(f, al, k, m, U, Settled(b, al, in))
    BY <1>7, SettledKeeps
  <1> QED
    BY <1>8 DEF EncodeShift, b, count, got, op, t

(* Neg, Not *)
LEMMA UnaryKeeps ==
    ASSUME NEW f, NEW al, NEW k, NEW m, NEW U, NEW a, Encoding(f, al, k, m, U, a),
           NEW in, Placed(al, in.dst)
    PROVE  Encoding(f, al, k, m, U, EncodeUnary(a, al, in))
  <1> DEFINE t == Target(al, in.dst)
             op == IF in.op = "Neg" THEN "neg" ELSE "not"
             got == Fetch(a, al, in.a, t)
             b == Unary(got, op, t)
  <1>1. t \in Free(f)
    BY TargetIsFree DEF Encoding
  <1>2. op \in UnaryOps
    BY DEF UnaryOps
  <1> HIDE DEF t, op
  <1>3. Encoding(f, al, k, m, U, got)
    BY <1>1, FetchKeeps
  <1> HIDE DEF got
  <1>4. Encoding(f, al, k, m, U, b)
    BY <1>1, <1>2, <1>3, OpsEncode
  <1> HIDE DEF b
  <1>5. Encoding(f, al, k, m, U, Settled(b, al, in))
    BY <1>4, SettledKeeps
  <1> QED
    BY <1>5 DEF EncodeUnary, b, got, op, t

(* SetCmp *)
LEMMA SetCmpKeeps ==
    ASSUME NEW f, NEW al, NEW k, NEW m, NEW U, NEW a, Encoding(f, al, k, m, U, a),
           NEW in, Placed(al, in.dst)
    PROVE  Encoding(f, al, k, m, U, EncodeSetCmp(a, al, in))
  <1> DEFINE got == Fetch(a, al, in.a, "RAX")
             cmp == IF in.b_imm THEN AluRI(got, "Cmp", "RAX", in.imm)
                    ELSE AluV(got, al, "Cmp", "RAX", in.b)
             b == SetCC(cmp, in.cc)
  <1>1. "RAX" \in Free(f) /\ "RAX" \in Scratch
    BY ScratchIsFree
  <1>2. Encoding(f, al, k, m, U, got)
    BY <1>1, FetchKeeps
  <1> HIDE DEF got
  <1>3. Encoding(f, al, k, m, U, AluRI(got, "Cmp", "RAX", in.imm))
    BY <1>1, <1>2, OpsEncode
  <1>4. Encoding(f, al, k, m, U, AluV(got, al, "Cmp", "RAX", in.b))
    BY <1>1, <1>2, AluVKeeps
  <1>5. Encoding(f, al, k, m, U, cmp)
    BY <1>3, <1>4
  <1> HIDE DEF cmp
  <1>6. Encoding(f, al, k, m, U, b)
    BY <1>5, QuietOpsEncode
  <1> HIDE DEF b
  <1>7. Encoding(f, al, k, m, U, PutBack(b, al, in.dst, "RAX"))
    BY <1>1, <1>6, PutBackKeeps
  <1> QED
    BY <1>7 DEF EncodeSetCmp, b, cmp, got

(* Sel *)
LEMMA SelKeeps ==
    ASSUME NEW f, NEW al, NEW k, NEW m, NEW U, NEW a, Encoding(f, al, k, m, U, a),
           NEW in, Placed(al, in.dst)
    PROVE  Encoding(f, al, k, m, U, EncodeSel(a, al, in))
  <1> DEFINE x == Fetch(a, al, in.b, "RAX")
             y == Fetch(x, al, in.a, "RCX")
             got == Fetch(y, al, in.c, "RDX")
             test == TestRR(got, "RDX")
             sel == CMov(test, "CmpNe", "RAX", "RCX")
             b == Narrowed(sel, "RAX", in.type)
  <1>1. {"RAX", "RCX", "RDX"} \subseteq Free(f) /\ "RAX" \in Scratch
    BY ScratchIsFree
  <1>2. Encoding(f, al, k, m, U, x)
    BY <1>1, FetchKeeps
  <1> HIDE DEF x
  <1>3. Encoding(f, al, k, m, U, y)
    BY <1>1, <1>2, FetchKeeps
  <1> HIDE DEF y
  <1>4. Encoding(f, al, k, m, U, got)
    BY <1>1, <1>3, FetchKeeps
  <1> HIDE DEF got
  <1>5. Encoding(f, al, k, m, U, test)
    BY <1>4, QuietOpsEncode
  <1> HIDE DEF test
  <1>6. Encoding(f, al, k, m, U, sel)
    BY <1>1, <1>5, OpsEncode
  <1> HIDE DEF sel
  <1>7. Encoding(f, al, k, m, U, b)
    BY <1>1, <1>6, NarrowedKeeps
  <1> HIDE DEF b
  <1>8. Encoding(f, al, k, m, U, PutBack(b, al, in.dst, "RAX"))
    BY <1>1, <1>7, PutBackKeeps
  <1> QED
    BY <1>8 DEF EncodeSel, b, sel, test, got, y, x

(* MovArg *)
LEMMA MovArgKeeps ==
    ASSUME NEW f, NEW al, NEW k, NEW m, NEW U, NEW a, Encoding(f, al, k, m, U, a),
           NEW in, in.imm \in Nat, Placed(al, in.dst)
    PROVE  Encoding(f, al, k, m, U, EncodeMovArg(a, al, in))
  <1> DEFINE src == IF in.imm < 4 THEN ArgRegs[in.imm + 1] ELSE "RAX"
             got == IF in.imm < 4 THEN a ELSE LoadRbp(a, "RAX", InDisp(in.imm))
             b == Narrowed(got, src, in.type)
  <1>1. src \in Scratch /\ src \in Free(f) /\ "RAX" \in Free(f)
    <2>1. in.imm < 4 => in.imm \in 0 .. 3
      OBVIOUS
    <2> QED
      BY <2>1, ScratchIsFree
  <1>2. Encoding(f, al, k, m, U, got)
    BY <1>1, OpsEncode
  <1> HIDE DEF src, got
  <1>3. Encoding(f, al, k, m, U, b)
    BY <1>1, <1>2, NarrowedKeeps
  <1> HIDE DEF b
  <1>4. Encoding(f, al, k, m, U, PutBack(b, al, in.dst, src))
    BY <1>1, <1>3, PutBackKeeps
  <1> QED
    BY <1>4 DEF EncodeMovArg, b, got, src

(* MovImm, Mov *)
LEMMA MovKeeps ==
    ASSUME NEW f, NEW al, NEW k, NEW m, NEW U, NEW a, Encoding(f, al, k, m, U, a),
           NEW in, Placed(al, in.dst)
    PROVE  Encoding(f, al, k, m, U, EncodeMov(a, al, in))
  <1> DEFINE t == Target(al, in.dst)
             got == IF in.op = "MovImm" THEN MovRI(a, t, in.imm) ELSE Fetch(a, al, in.a, t)
  <1>1. t \in Free(f) /\ Houses(f, al, k) /\ IsShell(f)
    BY TargetIsFree DEF Encoding, Houses
  <1> HIDE DEF t
  <1>2. Encoding(f, al, k, m, U, MovRI(a, t, in.imm)) /\ Encoding(f, al, k, m, U, Fetch(a, al, in.a, t))
    BY <1>1, OpsEncode, FetchKeeps
  <1>3. Encoding(f, al, k, m, U, got)
    BY <1>2
  <1> HIDE DEF got
  <1>4. CASE InReg(al, in.dst)
    BY <1>3, <1>4 DEF EncodeMov, got, t
  <1>5. CASE ~InReg(al, in.dst)
    <2>1. SpillAt(al, in.dst) \in -f.frame .. SaveDisp(NumSaves(f))
      BY <1>1, <1>5 DEF Houses
    <2>2. "RAX" \in Scratch /\ Good(got, f, m, U)
      BY <1>3, ScratchIsFree DEF Encoding
    <2>3. Good(StoreRbp(got, SpillAt(al, in.dst), "RAX"), f, m, U)
      BY <1>1, <2>1, <2>2, StoreKeeps
    <2> QED
      BY <1>1, <1>5, <2>3 DEF Encoding, EncodeMov, got, t
  <1> QED
    BY <1>4, <1>5

(* Load, Store *)
LEMMA MemoryKeeps ==
    ASSUME NEW f, NEW al, NEW k, NEW m, NEW U, NEW a, Encoding(f, al, k, m, U, a),
           NEW in, in.op = "Load" => Placed(al, in.dst)
    PROVE  Encoding(f, al, k, m, U, EncodeMemory(a, al, in))
  <1> DEFINE at == Fetch(a, al, in.a, "RAX")
             value == Fetch(at, al, in.b, "RCX")
             loaded == MovFromMem(at, Target(al, in.dst), "RAX")
  <1>1. "RAX" \in Free(f) /\ "RCX" \in Free(f)
    BY ScratchIsFree
  <1>2. Encoding(f, al, k, m, U, at)
    BY <1>1, FetchKeeps
  <1> HIDE DEF at
  <1>3. CASE in.op = "Load"
    <2>1. Target(al, in.dst) \in Free(f)
      BY <1>3, TargetIsFree DEF Encoding
    <2>2. Encoding(f, al, k, m, U, loaded)
      BY <1>2, <2>1, OpsEncode
    <2> HIDE DEF loaded
    <2>3. Encoding(f, al, k, m, U, Settled(loaded, al, in))
      BY <1>3, <2>2, SettledKeeps
    <2> QED
      BY <1>3, <2>3 DEF EncodeMemory, loaded, at
  <1>4. CASE in.op # "Load"
    <2>1. Encoding(f, al, k, m, U, value)
      BY <1>1, <1>2, FetchKeeps
    <2> HIDE DEF value
    <2>2. Encoding(f, al, k, m, U, MovToMem(value, "RAX", "RCX"))
      BY <2>1, QuietOpsEncode
    <2> QED
      BY <1>4, <2>2 DEF EncodeMemory, value, at
  <1> QED
    BY <1>3, <1>4

(* New labels are open until they are bound. *)
LEMMA LabelsEncode ==
    ASSUME NEW f, NEW al, NEW k, NEW m, NEW U, NEW a, Encoding(f, al, k, m, U, a), NEW j \in Nat
    PROVE  /\ m \in Nat /\ Len(a.labels) = m /\ U \subseteq 1 .. m
           /\ Encoding(f, al, k, m + j, U \cup (m + 1 .. m + j), NewLabels(a, j))
           /\ \A l \in 1 .. m : Encoding(f, al, k, m, U \ {l}, BindLabel(a, l))
  <1>1. Houses(f, al, k) /\ IsShell(f) /\ Good(a, f, m, U)
    BY DEF Encoding, Houses
  <1>2. m \in Nat /\ Len(a.labels) = m /\ Good(NewLabels(a, j), f, m + j, U \cup (m + 1 .. m + j))
    BY <1>1, NewKeeps
  <1>3. U \subseteq 1 .. m
    BY <1>1 DEF Good, Unbound
  <1>4. \A l \in 1 .. m : Good(BindLabel(a, l), f, m, U \ {l})
    BY <1>1, BindKeeps
  <1> QED
    BY <1>1, <1>2, <1>3, <1>4 DEF Encoding

(* Div, Rem: they take four labels and bind them. *)
LEMMA DivKeeps ==
    ASSUME NEW f, NEW al, NEW k, NEW m, NEW U, NEW a, Encoding(f, al, k, m, U, a),
           NEW in, Placed(al, in.dst)
    PROVE  Encoding(f, al, k, m + 4, U, EncodeDiv(a, al, in))
  <1> DEFINE zero == Len(a.labels) + 1
             over == zero + 1
             div == zero + 2
             done == zero + 3
             n == m + 4
             V == U \cup (m + 1 .. m + 4)
             E(W, b) == Encoding(f, al, k, n, W, b)
             new == NewLabels(a, 4)
             x == Fetch(new, al, in.a, "RAX")
             ops == Fetch(x, al, in.b, "RCX")
             o1 == TestRR(ops, "RCX")
             o2 == JCC(o1, "CmpEq", zero)
             o3 == MovRI(o2, "RDX", -1)
             one == Alu(o3, "Cmp", "RCX", "RDX")
             l1 == JCC(one, "CmpNe", div)
             l2 == MovRI(l1, "RDX", MinWord)
             least == Alu(l2, "Cmp", "RAX", "RDX")
             g1 == JCC(least, "CmpNe", div)
             g2 == Jump(g1, over)
             guarded == BindLabel(g2, div)
             q1 == Unary(guarded, "cqo", "RDX")
             idiv == Unary(q1, "idiv", "RCX")
             quot == IF in.op = "Div" THEN idiv ELSE MovRR(idiv, "RAX", "RDX")
             z1 == Narrowed(quot, "RAX", in.type)
             z2 == PutBack(z1, al, in.dst, "RAX")
             z3 == Jump(z2, done)
             atZero == BindLabel(z3, zero)
             v1 == MovRI(atZero, "RAX", 0)
             v2 == PutBack(v1, al, in.dst, "RAX")
             v3 == Jump(v2, done)
             atOver == BindLabel(v3, over)
             d1 == IF in.op = "Div" THEN Narrowed(atOver, "RAX", in.type) ELSE MovRI(atOver, "RAX", 0)
             d2 == PutBack(d1, al, in.dst, "RAX")
             end == BindLabel(d2, done)
  <1>1. {"RAX", "RCX", "RDX"} \subseteq Free(f) /\ "RAX" \in Scratch
    BY ScratchIsFree
  <1>2. m \in Nat /\ Len(a.labels) = m /\ U \subseteq 1 .. m /\ E(V, new)
    <2>1. 4 \in Nat
      OBVIOUS
    <2> QED
      BY <2>1, LabelsEncode
  <1>3. zero = m + 1 /\ over = m + 2 /\ div = m + 3 /\ done = m + 4 /\ n = m + 4
    BY <1>2
  <1>4. zero \in 1 .. n /\ over \in 1 .. n /\ div \in 1 .. n /\ done \in 1 .. n
    BY <1>2, <1>3
  <1>5. (((V \ {div}) \ {zero}) \ {over}) \ {done} = U
    <2> HIDE DEF zero, over, div, done
    <2> QED
      BY <1>2, <1>3
  <1>6. {"cqo", "idiv"} \subseteq UnaryOps
    BY DEF UnaryOps
  <1> HIDE DEF zero, over, div, done, V, n, new
  <1>7. E(V, x)
    BY <1>1, <1>2, FetchKeeps
  <1> HIDE DEF x
  <1>8. E(V, ops)
    BY <1>1, <1>7, FetchKeeps
  <1> HIDE DEF ops
  <1>9. E(V, o1)
    BY <1>8, QuietOpsEncode
  <1> HIDE DEF o1
  <1>10. E(V, o2)
    BY <1>4, <1>9, JumpsEncode
  <1> HIDE DEF o2
  <1>11. E(V, o3)
    BY <1>1, <1>10, OpsEncode
  <1> HIDE DEF o3
  <1>12. E(V, one)
    BY <1>1, <1>11, OpsEncode
  <1> HIDE DEF one
  <1>13. E(V, l1)
    BY <1>4, <1>12, JumpsEncode
  <1> HIDE DEF l1
  <1>14. E(V, l2)
    BY <1>1, <1>13, OpsEncode
  <1> HIDE DEF l2
  <1>15. E(V, least)
    BY <1>1, <1>14, OpsEncode
  <1> HIDE DEF least
  <1>16. E(V, g1)
    BY <1>4, <1>15, JumpsEncode
  <1> HIDE DEF g1
  <1>17. E(V, g2)
    BY <1>4, <1>16, JumpsEncode
  <1> HIDE DEF g2
  <1>18. E(V \ {div}, guarded)
    BY <1>4, <1>17, LabelsEncode
  <1> HIDE DEF guarded
  <1>19. E(V \ {div}, q1)
    BY <1>1, <1>6, <1>18, OpsEncode
  <1> HIDE DEF q1
  <1>20. E(V \ {div}, idiv)
    BY <1>1, <1>6, <1>19, OpsEncode
  <1> HIDE DEF idiv
  <1>21. E(V \ {div}, quot)
    <2>1. E(V \ {div}, MovRR(idiv, "RAX", "RDX"))
      BY <1>1, <1>20, OpsEncode
    <2> QED
      BY <1>20, <2>1
  <1> HIDE DEF quot
  <1>22. E(V \ {div}, z1)
    BY <1>1, <1>21, NarrowedKeeps
  <1> HIDE DEF z1
  <1>23. E(V \ {div}, z2)
    BY <1>1, <1>22, PutBackKeeps
  <1> HIDE DEF z2
  <1>24. E(V \ {div}, z3)
    BY <1>4, <1>23, JumpsEncode
  <1> HIDE DEF z3
  <1>25. E((V \ {div}) \ {zero}, atZero)
    BY <1>4, <1>24, LabelsEncode
  <1> HIDE DEF atZero
  <1>26. E((V \ {div}) \ {zero}, v1)
    BY <1>1, <1>25, OpsEncode
  <1> HIDE DEF v1
  <1>27. E((V \ {div}) \ {zero}, v2)
    BY <1>1, <1>26, PutBackKeeps
  <1> HIDE DEF v2
  <1>28. E((V \ {div}) \ {zero}, v3)
    BY <1>4, <1>27, JumpsEncode
  <1> HIDE DEF v3
  <1> DEFINE W == ((V \ {div}) \ {zero}) \ {over}
  <1>29. E(W, atOver)
    BY <1>4, <1>28, LabelsEncode
  <1> HIDE DEF atOver, W
  <1>30. E(W, d1)
    <2>1. E(W, Narrowed(atOver, "RAX", in.type)) /\ E(W, MovRI(atOver, "RAX", 0))
      BY <1>1, <1>29, NarrowedKeeps, OpsEncode
    <2> QED
      BY <2>1
  <1> HIDE DEF d1
  <1>31. E(W, d2)
    BY <1>1, <1>30, PutBackKeeps
  <1> HIDE DEF d2
  <1>32. E(W \ {done}, end)
    BY <1>4, <1>31, LabelsEncode
  <1>33. W \ {done} = U
    BY <1>5 DEF W
  <1> HIDE DEF end
  <1>34. E(U, end)
    BY <1>32, <1>33
  <1>35. EncodeDiv(a, al, in) = end
    BY DEF EncodeDiv, end, d2, d1, atOver, v3, v2, v1, atZero, z3, z2, z1, quot, idiv, q1, guarded,
           g2, g1, least, l2, l1, one, o3, o2, o1, ops, x, new, done, div, over, zero
  <1> QED
    BY <1>34, <1>35 DEF n

-----------------------------------------------------------------------------
(* Calls. *)

(* A list of instructions that a body may have anywhere. *)
IsList(f, s) == IsSeq(s) /\ \A i \in 1 .. Len(s) : Straightforward(f, s[i])

(* One instruction more. *)
LEMMA ListGrows ==
    ASSUME NEW f, NEW a, IsAsm(a), IsList(f, a.code), NEW in, Straightforward(f, in)
    PROVE  IsAsm(Asm(a, in)) /\ IsList(f, Asm(a, in).code)
  <1> DEFINE b == Asm(a, in)
             n == Len(a.code)
  <1>1. /\ IsAsm(b) /\ Len(b.code) = n + 1
        /\ \A i \in 1 .. n : b.code[i] = a.code[i]
        /\ b.code[n + 1] = in
    BY AsmFacts
  <1>2. n \in Nat /\ IsSeq(b.code)
    BY <1>1 DEF IsAsm, IsSeq
  <1> HIDE DEF b, n
  <1>3. ASSUME NEW i \in 1 .. Len(b.code) PROVE Straightforward(f, b.code[i])
    <2>1. i \in 1 .. n \/ i = n + 1
      BY <1>1, <1>2
    <2>2. \A j \in 1 .. n : Straightforward(f, a.code[j])
      BY DEF IsList, n
    <2> QED
      BY <1>1, <2>1, <2>2
  <1> QED
    BY <1>1, <1>2, <1>3 DEF IsList, b

(* A value fetched to a register that is free. *)
LEMMA FetchedList ==
    ASSUME NEW f, NEW al, NEW v, NEW r \in Free(f)
    PROVE  IsAsm(Fetch(EmptyAsm, al, v, r)) /\ IsList(f, Fetch(EmptyAsm, al, v, r).code)
  <1> DEFINE load == [Ins("load") EXCEPT !.d = r, !.n = SpillAt(al, v)]
             mov == [Ins("mov_rr") EXCEPT !.d = r, !.s = Home(al, v)]
  <1>1. IsAsm(EmptyAsm) /\ IsList(f, EmptyAsm.code)
    <2>1. <<>> \in Seq({}) /\ Len(<<>>) = 0
      OBVIOUS
    <2>2. IsSeq(<<>>)
      BY <2>1, SeqIsSeq
    <2> QED
      BY <2>1, <2>2 DEF EmptyAsm, IsAsm, IsList
  <1>2. load.i = "load" /\ load.d = r /\ mov.i = "mov_rr" /\ mov.d = r
    BY DEF Ins
  <1>3. /\ LoadRbp(EmptyAsm, r, SpillAt(al, v)) = Asm(EmptyAsm, load)
        /\ MovRR(EmptyAsm, r, Home(al, v)) = Asm(EmptyAsm, mov)
    BY DEF LoadRbp, MovRR
  <1> HIDE DEF load, mov
  <1>4. Straightforward(f, load) /\ Straightforward(f, mov)
    BY <1>2 DEF Straightforward, WritesRegisters, RegisterOps, SavesRegister
  <1>5. /\ IsAsm(Asm(EmptyAsm, load)) /\ IsList(f, Asm(EmptyAsm, load).code)
        /\ IsAsm(Asm(EmptyAsm, mov)) /\ IsList(f, Asm(EmptyAsm, mov).code)
    BY <1>1, <1>4, ListGrows
  <1> QED
    BY <1>1, <1>3, <1>5 DEF Fetch

(* Lists joined are one. *)
LEMMA ListsJoined ==
    ASSUME NEW f, NEW n \in Nat, NEW ss, \A i \in 1 .. n : IsList(f, ss[i])
    PROVE  IsList(f, FlattenSeq([i \in 1 .. n |-> ss[i]]))
  <1> DEFINE s == FlattenSeq([i \in 1 .. n |-> ss[i]])
  <1>1. HasMembersOf(s, ss, n)
    <2>1. \A i \in 1 .. n : IsSeq(ss[i])
      BY DEF IsList
    <2> QED
      BY <2>1, FlattenFacts
  <1> HIDE DEF s
  <1>2. ASSUME NEW p \in 1 .. Len(s) PROVE Straightforward(f, s[p])
    <2>1. PICK i \in 1 .. n : \E q \in 1 .. Len(ss[i]) : s[p] = ss[i][q]
      BY <1>1 DEF HasMembersOf
    <2> QED
      BY <2>1 DEF IsList
  <1>3. IsList(f, s)
    BY <1>1, <1>2 DEF IsList, HasMembersOf
  <1> QED
    BY <1>3 DEF s

(* The arguments on their way. *)
LEMMA PassArgsKeeps ==
    ASSUME NEW f, NEW al, NEW k \in Nat, NEW m, NEW U, NEW a, Encoding(f, al, k, m, U, a),
           NEW args, IsSeq(args), Len(args) <= k + 4
    PROVE  Encoding(f, al, k, m, U, PassArgs(a, al, args))
  <1> DEFINE n == Len(args)
             onStack(i) == StoreRsp(Fetch(EmptyAsm, al, args[i], "RAX"), OutDisp(i - 1), "RAX").code
             inReg(i) == Fetch(EmptyAsm, al, args[i], ArgRegs[i]).code
             ss == [i \in 1 .. n |-> IF i > 4 THEN onStack(i) ELSE <<>>]
             rr == [i \in 1 .. n |-> IF i > 4 THEN <<>> ELSE inReg(i)]
             s == FlattenSeq([i \in 1 .. n |-> ss[i]])
             r == FlattenSeq([i \in 1 .. n |-> rr[i]])
  <1>1. Houses(f, al, k) /\ IsShell(f) /\ Good(a, f, m, U)
    BY DEF Encoding, Houses
  <1>2. n \in Nat /\ DOMAIN args = 1 .. n
    BY DEF IsSeq
  <1>3. IsList(f, <<>>)
    <2>1. <<>> \in Seq({}) /\ Len(<<>>) = 0
      OBVIOUS
    <2>2. IsSeq(<<>>)
      BY <2>1, SeqIsSeq
    <2> QED
      BY <2>1, <2>2 DEF IsList
  <1>4. ASSUME NEW i \in 1 .. n, i > 4 PROVE IsList(f, onStack(i))
    <2> DEFINE b == Fetch(EmptyAsm, al, args[i], "RAX")
               in == [Ins("store_rsp") EXCEPT !.s = "RAX", !.n = OutDisp(i - 1)]
    <2>1. IsAsm(b) /\ IsList(f, b.code)
      BY ScratchIsFree, FetchedList
    <2>2. in.i = "store_rsp" /\ in.n = OutDisp(i - 1)
      BY DEF Ins
    <2>3. StoreRsp(b, OutDisp(i - 1), "RAX") = Asm(b, in)
      BY DEF StoreRsp
    <2>4. i \in 5 .. k + 4
      BY <1>2, <1>4
    <2>5. OutDisp(i - 1) \in 0 .. f.frame + SaveDisp(NumSaves(f))
      BY <1>1, <2>4 DEF Houses
    <2> HIDE DEF b, in
    <2>6. Straightforward(f, in)
      BY <2>2, <2>5 DEF Straightforward, WritesFrame, SavesRegister
    <2>7. IsList(f, Asm(b, in).code)
      BY <2>1, <2>6, ListGrows
    <2> QED
      BY <2>3, <2>7 DEF b
  <1>5. ASSUME NEW i \in 1 .. n, ~(i > 4) PROVE IsList(f, inReg(i))
    <2>1. i - 1 \in 0 .. 3 /\ (i - 1) + 1 = i
      BY <1>5
    <2>2. ArgRegs[i] \in Free(f)
      BY <2>1, ScratchIsFree
    <2> QED
      BY <2>2, FetchedList
  <1>6. IsList(f, s)
    <2>1. \A i \in 1 .. n : IsList(f, ss[i])
      <3> HIDE DEF onStack
      <3> QED
        BY <1>3, <1>4
    <2> HIDE DEF ss
    <2> QED
      BY <1>2, <2>1, ListsJoined
  <1>7. IsList(f, r)
    <2>1. \A i \in 1 .. n : IsList(f, rr[i])
      <3> HIDE DEF inReg
      <3> QED
        BY <1>3, <1>5
    <2> HIDE DEF rr
    <2> QED
      BY <1>2, <2>1, ListsJoined
  <1>8. PassArgs(a, al, args) = AsmAll(AsmAll(a, s), r)
    <2>1. s = FlattenSeq([i \in DOMAIN args |-> IF i > 4 THEN onStack(i) ELSE <<>>])
      BY <1>2
    <2>2. r = FlattenSeq([i \in DOMAIN args |-> IF i > 4 THEN <<>> ELSE inReg(i)])
      BY <1>2
    <2> HIDE DEF s, r
    <2> QED
      BY <2>1, <2>2 DEF PassArgs
  <1> HIDE DEF s, r
  <1>9. Good(AsmAll(a, s), f, m, U)
    BY <1>1, <1>6, StraightKeeps DEF IsList
  <1>10. Good(AsmAll(AsmAll(a, s), r), f, m, U)
    BY <1>1, <1>7, <1>9, StraightKeeps DEF IsList
  <1> QED
    BY <1>1, <1>8, <1>10 DEF Encoding

(* Call *)
LEMMA EncodeCallKeeps ==
    ASSUME NEW f, NEW al, NEW k \in Nat, NEW m, NEW U, NEW a, Encoding(f, al, k, m, U, a),
           NEW in, IsSeq(in.args), Len(in.args) <= k + 4, Placed(al, in.dst)
    PROVE  Encoding(f, al, k, m, U, EncodeCall(a, al, in))
  <1> DEFINE passed == PassArgs(a, al, in.args)
             open == [MovRI(passed, "RAX", 0) EXCEPT
                        !.relocs = Append(@, [at |-> Len(passed.code) + 1, target |-> in.imm])]
             b == Asm(open, Ins("call"))
  <1>1. Encoding(f, al, k, m, U, passed)
    BY PassArgsKeeps
  <1> HIDE DEF passed
  <1>2. Good(b, f, m, U)
    <2>1. IsShell(f) /\ Good(passed, f, m, U)
      BY <1>1 DEF Encoding, Houses
    <2> QED
      BY <2>1, RelocatedCallKeeps
  <1> HIDE DEF b
  <1>3. Encoding(f, al, k, m, U, b) /\ "RAX" \in Scratch
    BY <1>1, <1>2, ScratchIsFree DEF Encoding
  <1>4. Encoding(f, al, k, m, U, PutBack(b, al, in.dst, "RAX"))
    BY <1>3, PutBackKeeps
  <1> QED
    BY <1>4 DEF EncodeCall, b, passed

(* Ret *)
LEMMA RetKeeps ==
    ASSUME NEW f, NEW al, NEW k, NEW m, NEW U, NEW a, Encoding(f, al, k, m, U, a)
    PROVE  Encoding(f, al, k, m, U, Epilogue(a, al)) /\ Closed(Epilogue(a, al))
  <1> DEFINE restore(i) == [Ins("load") EXCEPT !.d = AllocRegs[Saved(al)[i] + 1], !.n = SaveDisp(i - 1)]
             n == Len(Saved(al))
             rs == [i \in 1 .. n |-> restore(i)]
  <1>1. /\ Houses(f, al, k) /\ IsShell(f) /\ Good(a, f, m, U)
        /\ IsSeq(Saved(al)) /\ NumSaves(f) = n
        /\ \A i \in 1 .. NumSaves(f) : f.saves[i] = AllocRegs[Saved(al)[i] + 1]
    BY DEF Encoding, Houses
  <1>2. n \in Nat /\ DOMAIN Saved(al) = 1 .. n
    BY <1>1 DEF IsSeq
  <1>3. Restores(f, rs)
    <2>1. IsSeq(rs) /\ Len(rs) = n
      BY <1>2, ListIsSeq
    <2>2. ASSUME NEW i \in 1 .. n
          PROVE  rs[i].i = "load" /\ rs[i].d = f.saves[i] /\ rs[i].n = SaveDisp(i - 1)
      <3>1. rs[i] = restore(i)
        OBVIOUS
      <3>2. restore(i).i = "load" /\ restore(i).d = AllocRegs[Saved(al)[i] + 1] /\ restore(i).n = SaveDisp(i - 1)
        BY DEF Ins
      <3> QED
        BY <1>1, <3>1, <3>2
    <2> HIDE DEF rs
    <2> QED
      BY <1>1, <2>1, <2>2 DEF Restores
  <1>4. Epilogue(a, al) = LeaveFrame(AsmAll(a, rs))
    BY <1>2 DEF Epilogue
  <1> HIDE DEF rs
  <1>5. Good(LeaveFrame(AsmAll(a, rs)), f, m, U) /\ Closed(LeaveFrame(AsmAll(a, rs)))
    BY <1>1, <1>3, EpilogueKeepsGood
  <1> QED
    BY <1>1, <1>4, <1>5 DEF Encoding

(* Every instruction keeps the code good, whatever labels of its own it     *)
(* takes, and one that ends a block closes it.                              *)
LEMMA EncodeInstKeeps ==
    ASSUME NEW f, NEW al, NEW k \in Nat, NEW m, NEW U, NEW a, Encoding(f, al, k, m, U, a),
           NEW in, NEW n \in Nat, n <= m, Encodable(al, in, n),
           in.op = "Call" => Len(in.args) - 4 <= k
    PROVE  /\ \E m2 \in Nat : m <= m2 /\ Encoding(f, al, k, m2, U, EncodeInst(a, al, in))
           /\ in.op \in Terminators => Closed(EncodeInst(a, al, in))
  <1> DEFINE b == EncodeInst(a, al, in)
  <1>1. m \in Nat /\ 1 .. n \subseteq 1 .. m /\ m <= m /\ m <= m + 4 /\ m + 4 \in Nat
    <2>1. 4 \in Nat
      OBVIOUS
    <2>2. m \in Nat
      BY <2>1, LabelsEncode
    <2> QED
      BY <2>2
  <1>2. "RAX" \in Free(f) /\ "RAX" \in Scratch
    BY ScratchIsFree
  <1>3. /\ in.op \in ResultOps => Placed(al, in.dst)
        /\ in.op \in ResultOps \cup Terminators \cup {"Store"}
    BY DEF Encodable
  <1>4. DOMAIN AluOf = {"Add", "Sub", "And", "Or", "Xor", "Mul"} /\ DOMAIN ShiftOf = {"Shl", "Sar", "Shr"}
    BY DEF AluOf, ShiftOf
  <1>5. CASE in.op = "MovArg"
    <2>1. in.imm \in Nat /\ Placed(al, in.dst)
      BY <1>3, <1>5 DEF Encodable, ResultOps
    <2>2. b = EncodeMovArg(a, al, in)
      BY <1>4, <1>5 DEF EncodeInst
    <2>3. Encoding(f, al, k, m, U, b)
      BY <2>1, <2>2, MovArgKeeps
    <2> QED
      BY <1>1, <1>5, <2>3 DEF Terminators
  <1>6. CASE in.op \in {"MovImm", "Mov"}
    <2>1. Placed(al, in.dst)
      BY <1>3, <1>6 DEF ResultOps
    <2>2. b = EncodeMov(a, al, in)
      BY <1>4, <1>6 DEF EncodeInst
    <2>3. Encoding(f, al, k, m, U, b)
      BY <2>1, <2>2, MovKeeps
    <2> QED
      BY <1>1, <1>6, <2>3 DEF Terminators
  <1>7. CASE in.op \in DOMAIN AluOf
    <2>1. Placed(al, in.dst)
      BY <1>3, <1>7 DEF ResultOps
    <2>2. b = EncodeBinary(a, al, in)
      BY <1>4, <1>7 DEF EncodeInst
    <2>3. Encoding(f, al, k, m, U, b)
      BY <2>1, <2>2, BinaryKeeps
    <2> QED
      BY <1>1, <1>4, <1>7, <2>3 DEF Terminators
  <1>8. CASE in.op \in DOMAIN ShiftOf
    <2>1. Placed(al, in.dst)
      BY <1>3, <1>8 DEF ResultOps
    <2>2. b = EncodeShift(a, al, in)
      BY <1>4, <1>8 DEF EncodeInst
    <2>3. Encoding(f, al, k, m, U, b)
      BY <1>8, <2>1, <2>2, ShiftKeeps
    <2> QED
      BY <1>1, <1>4, <1>8, <2>3 DEF Terminators
  <1>9. CASE in.op \in {"Neg", "Not"}
    <2>1. Placed(al, in.dst)
      BY <1>3, <1>9 DEF ResultOps
    <2>2. b = EncodeUnary(a, al, in)
      BY <1>4, <1>9 DEF EncodeInst
    <2>3. Encoding(f, al, k, m, U, b)
      BY <2>1, <2>2, UnaryKeeps
    <2> QED
      BY <1>1, <1>9, <2>3 DEF Terminators
  <1>10. CASE in.op \in {"Div", "Rem"}
    <2>1. Placed(al, in.dst)
      BY <1>3, <1>10 DEF ResultOps
    <2>2. b = EncodeDiv(a, al, in)
      BY <1>4, <1>10 DEF EncodeInst
    <2>3. Encoding(f, al, k, m + 4, U, b)
      BY <2>1, <2>2, DivKeeps
    <2> QED
      BY <1>1, <1>10, <2>3 DEF Terminators
  <1>11. CASE in.op = "SetCmp"
    <2>1. Placed(al, in.dst)
      BY <1>3, <1>11 DEF ResultOps
    <2>2. b = EncodeSetCmp(a, al, in)
      BY <1>4, <1>11 DEF EncodeInst
    <2>3. Encoding(f, al, k, m, U, b)
      BY <2>1, <2>2, SetCmpKeeps
    <2> QED
      BY <1>1, <1>11, <2>3 DEF Terminators
  <1>12. CASE in.op = "Sel"
    <2>1. Placed(al, in.dst)
      BY <1>3, <1>12 DEF ResultOps
    <2>2. b = EncodeSel(a, al, in)
      BY <1>4, <1>12 DEF EncodeInst
    <2>3. Encoding(f, al, k, m, U, b)
      BY <2>1, <2>2, SelKeeps
    <2> QED
      BY <1>1, <1>12, <2>3 DEF Terminators
  <1>13. CASE in.op \in {"Load", "Store"}
    <2>1. in.op = "Load" => Placed(al, in.dst)
      BY <1>3 DEF ResultOps
    <2>2. b = EncodeMemory(a, al, in)
      BY <1>4, <1>13 DEF EncodeInst
    <2>3. Encoding(f, al, k, m, U, b)
      BY <2>1, <2>2, MemoryKeeps
    <2> QED
      BY <1>1, <1>13, <2>3 DEF Terminators
  <1>14. CASE in.op = "Call"
    <2>1. Placed(al, in.dst) /\ in.args \in Seq(Range(in.args))
      BY <1>3, <1>14 DEF Encodable, ResultOps
    <2>2. IsSeq(in.args) /\ Len(in.args) <= k + 4
      <3>1. IsSeq(in.args)
        BY <2>1, SeqIsSeq
      <3>2. Len(in.args) \in Nat
        BY <3>1 DEF IsSeq
      <3> QED
        BY <1>14, <3>1, <3>2
    <2>3. b = EncodeCall(a, al, in)
      BY <1>4, <1>14 DEF EncodeInst
    <2>4. Encoding(f, al, k, m, U, b)
      BY <2>1, <2>2, <2>3, EncodeCallKeeps
    <2> QED
      BY <1>1, <1>14, <2>4 DEF Terminators
  <1>15. CASE in.op \in Terminators
    <2> DEFINE c == Fetch(a, al, in.a, "RAX")
               d == JCC(TestRR(c, "RAX"), "CmpNe", in.target)
    <2>1. Encoding(f, al, k, m, U, c)
      BY <1>2, FetchKeeps
    <2> HIDE DEF c
    <2>2. CASE in.op = "Ret"
      <3>1. b = Epilogue(c, al)
        BY <1>4, <2>2 DEF EncodeInst, c
      <3>2. Encoding(f, al, k, m, U, b) /\ Closed(b)
        BY <2>1, <3>1, RetKeeps
      <3> QED
        BY <1>1, <3>2
    <2>3. CASE in.op = "Jmp"
      <3>1. b = Jump(a, in.target) /\ in.target \in 1 .. m
        BY <1>1, <1>4, <2>3 DEF EncodeInst, Encodable
      <3>2. Encoding(f, al, k, m, U, b) /\ Closed(b)
        BY <3>1, JumpsEncode
      <3> QED
        BY <1>1, <3>2
    <2>4. CASE in.op = "Br"
      <3>1. b = Jump(d, in.target2)
        BY <1>4, <2>4 DEF EncodeInst, c
      <3>2. in.target \in 1 .. m /\ in.target2 \in 1 .. m
        BY <1>1, <2>4 DEF Encodable
      <3>3. Encoding(f, al, k, m, U, TestRR(c, "RAX"))
        BY <2>1, QuietOpsEncode
      <3>4. Encoding(f, al, k, m, U, d)
        BY <3>2, <3>3, JumpsEncode
      <3> HIDE DEF d
      <3>5. Encoding(f, al, k, m, U, b) /\ Closed(b)
        BY <3>1, <3>2, <3>4, JumpsEncode
      <3> QED
        BY <1>1, <3>5
    <2> QED
      BY <1>15, <2>2, <2>3, <2>4 DEF Terminators
  <1> HIDE DEF b
  <1>16. \/ in.op = "MovArg" \/ in.op \in {"MovImm", "Mov"} \/ in.op \in DOMAIN AluOf
         \/ in.op \in DOMAIN ShiftOf \/ in.op \in {"Neg", "Not"} \/ in.op \in {"Div", "Rem"}
         \/ in.op = "SetCmp" \/ in.op = "Sel" \/ in.op \in {"Load", "Store"} \/ in.op = "Call"
         \/ in.op \in Terminators
    BY <1>3 DEF ResultOps
  <1> QED
    BY <1>5, <1>6, <1>7, <1>8, <1>9, <1>10, <1>11, <1>12, <1>13, <1>14, <1>15, <1>16 DEF b

-----------------------------------------------------------------------------
(* A whole function. *)

(* Finitely many numbers have a bound. *)
LEMMA BoundExists ==
    ASSUME NEW n \in Nat, NEW g, \A i \in 1 .. n : g[i] \in Nat
    PROVE  \E top \in Nat : \A i \in 1 .. n : g[i] <= top
  <1> DEFINE Bounds(j, top) == \A i \in 1 .. j : g[i] <= top
             T == {j \in Nat : j <= n => \E top \in Nat : Bounds(j, top)}
  <1>1. 0 \in T
    OBVIOUS
  <1>2. ASSUME NEW j \in Nat, j \in T PROVE j + 1 \in T
    <2> SUFFICES ASSUME j + 1 <= n PROVE \E top \in Nat : Bounds(j + 1, top)
      OBVIOUS
    <2>1. PICK top \in Nat : Bounds(j, top)
      BY <1>2
    <2>2. g[j + 1] \in Nat /\ top + g[j + 1] \in Nat
      OBVIOUS
    <2>3. Bounds(j + 1, top + g[j + 1])
      <3>1. ASSUME NEW i \in 1 .. j + 1 PROVE g[i] <= top + g[j + 1]
        <4>1. CASE i = j + 1
          BY <2>2, <4>1
        <4>2. CASE i # j + 1
          <5>1. i \in 1 .. j /\ i \in 1 .. n
            BY <4>2
          <5>2. g[i] <= top /\ g[i] \in Nat
            BY <2>1, <5>1
          <5> QED
            BY <2>2, <5>2
        <4> QED
          BY <4>1, <4>2
      <3> QED
        BY <3>1
    <2> HIDE DEF Bounds
    <2> QED
      BY <2>2, <2>3
  <1>3. Nat \subseteq T
    <2> HIDE DEF T
    <2> QED
      BY <1>1, <1>2, SetInduction
  <1>4. n \in T
    BY <1>3
  <1> QED
    BY <1>4

(* There is room for the arguments of each call. *)
LEMMA RoomForArgs ==
    ASSUME NEW blocks, NEW al, Allocated(blocks, al)
    PROVE  /\ MaxStackArgs(blocks) \in Nat
           /\ \A b \in 1 .. Len(blocks) : \A i \in 1 .. Len(blocks[b]) :
                 blocks[b][i].op = "Call" => Len(blocks[b][i].args) - 4 <= MaxStackArgs(blocks)
  <1> DEFINE n == Len(blocks)
             count(b, i) == IF blocks[b][i].op = "Call" THEN Len(blocks[b][i].args) ELSE 0
             tops == [b \in 1 .. n |->
                        CHOOSE t \in Nat : \A i \in 1 .. Len(blocks[b]) : count(b, i) <= t]
             calls == {i \in UNION {Range(blocks[b]) : b \in DOMAIN blocks} : i.op = "Call"}
             T == {0} \cup {Len(in.args) - 4 : in \in calls}
  <1>1. IsSeq(blocks) /\ n \in Nat /\ DOMAIN blocks = 1 .. n
    <2>1. blocks \in Seq(Range(blocks))
      BY DEF Allocated
    <2>2. IsSeq(blocks) /\ DOMAIN blocks = 1 .. n
      BY <2>1, SeqIsSeq
    <2> QED
      BY <2>2 DEF IsSeq
  <1>2. ASSUME NEW b \in 1 .. n
        PROVE  Len(blocks[b]) \in Nat /\ DOMAIN blocks[b] = 1 .. Len(blocks[b])
    <2> DEFINE s == blocks[b]
    <2>1. s \in Seq(Range(s))
      BY <1>1 DEF Allocated, IsBlock
    <2> HIDE DEF s
    <2>2. IsSeq(s) /\ DOMAIN s = 1 .. Len(s)
      BY <2>1, SeqIsSeq
    <2> QED
      BY <2>2 DEF IsSeq, s
  <1>3. ASSUME NEW b \in 1 .. n, NEW i \in 1 .. Len(blocks[b]) PROVE count(b, i) \in Nat
    <2>1. Encodable(al, blocks[b][i], n)
      BY <1>1, <1>2 DEF Allocated, IsBlock
    <2> DEFINE s == blocks[b][i].args
    <2>2. CASE blocks[b][i].op = "Call"
      <3>1. s \in Seq(Range(s))
        BY <2>1, <2>2 DEF Encodable
      <3> HIDE DEF s
      <3>2. Len(s) \in Nat
        BY <3>1
      <3> QED
        BY <2>2, <3>2 DEF s
    <2>3. CASE blocks[b][i].op # "Call"
      BY <2>3
    <2> QED
      BY <2>2, <2>3
  <1> HIDE DEF count
  <1>4. ASSUME NEW b \in 1 .. n
        PROVE  tops[b] \in Nat /\ \A i \in 1 .. Len(blocks[b]) : count(b, i) <= tops[b]
    <2> DEFINE k == Len(blocks[b])
               g == [i \in 1 .. k |-> count(b, i)]
    <2>1. k \in Nat /\ \A i \in 1 .. k : g[i] \in Nat
      BY <1>2, <1>3
    <2>2. \E t \in Nat : \A i \in 1 .. k : g[i] <= t
      <3> HIDE DEF k, g
      <3> QED
        BY <2>1, BoundExists
    <2>3. \E t \in Nat : \A i \in 1 .. k : count(b, i) <= t
      BY <2>2
    <2> QED
      BY <2>3
  <1>5. PICK top \in Nat : \A b \in 1 .. n : tops[b] <= top
    <2> HIDE DEF tops, n
    <2> QED
      BY <1>1, <1>4, BoundExists
  <1> HIDE DEF tops
  <1>6. ASSUME NEW b \in 1 .. n, NEW i \in 1 .. Len(blocks[b]), blocks[b][i].op = "Call"
        PROVE  Len(blocks[b][i].args) \in 0 .. top /\ Len(blocks[b][i].args) - 4 \in T
    <2>1. count(b, i) = Len(blocks[b][i].args)
      BY <1>6 DEF count
    <2>2. count(b, i) \in Nat /\ count(b, i) <= tops[b] /\ tops[b] \in Nat /\ tops[b] <= top
      BY <1>3, <1>4, <1>5
    <2>3. blocks[b][i] \in calls
      BY <1>1, <1>2, <1>6 DEF Range
    <2> HIDE DEF calls
    <2> QED
      BY <2>1, <2>2, <2>3
  <1>7. ASSUME NEW x \in T PROVE x \in Int /\ x <= top
    <2>1. CASE x = 0
      BY <2>1
    <2>2. CASE x # 0
      <3>1. PICK in \in calls : x = Len(in.args) - 4
        BY <2>2
      <3>2. PICK b \in 1 .. n : in \in Range(blocks[b])
        BY <1>1
      <3>3. PICK i \in 1 .. Len(blocks[b]) : in = blocks[b][i]
        BY <1>2, <3>2 DEF Range
      <3>4. Len(in.args) \in 0 .. top
        BY <1>6, <3>3
      <3> QED
        BY <3>1, <3>4
    <2> QED
      BY <2>1, <2>2
  <1>8. MaxStackArgs(blocks) = Max(T)
    BY DEF MaxStackArgs
  <1>9. 0 \in T
    OBVIOUS
  <1> HIDE DEF T, calls
  <1> DEFINE S == T \cap (0 .. top)
  <1>10. PICK x \in S : \A y \in S : y <= x
    <2>1. S \in SUBSET (0 .. top) /\ S # {}
      BY <1>9
    <2> HIDE DEF S
    <2> QED
      BY <2>1, GreatestElement
  <1>11. x \in T /\ x >= 0 /\ \A y \in T : x >= y
    <2>1. ASSUME NEW y \in T PROVE x >= y
      <3>1. y \in Int /\ y <= top /\ x \in Nat
        BY <1>7, <1>10
      <3>2. CASE y >= 0
        BY <1>10, <3>1, <3>2
      <3>3. CASE ~(y >= 0)
        BY <3>1, <3>3
      <3> QED
        BY <3>2, <3>3
    <2> QED
      BY <1>10, <2>1
  <1>12. Max(T) \in T /\ \A y \in T : Max(T) >= y
    BY <1>11 DEF Max
  <1>13. Max(T) \in Nat
    <2>1. Max(T) \in Int /\ Max(T) >= 0
      BY <1>7, <1>9, <1>12
    <2> QED
      BY <2>1
  <1>14. ASSUME NEW b \in 1 .. n, NEW i \in 1 .. Len(blocks[b]), blocks[b][i].op = "Call"
         PROVE  Len(blocks[b][i].args) - 4 <= Max(T)
    <2>1. Len(blocks[b][i].args) - 4 \in T
      BY <1>6, <1>14
    <2>2. Len(blocks[b][i].args) - 4 \in Int
      BY <1>7, <2>1
    <2> QED
      BY <1>12, <1>13, <2>1, <2>2
  <1> QED
    BY <1>8, <1>13, <1>14 DEF n

(* The code of a prologue. *)
LEMMA PrologueIsGood ==
    ASSUME NEW al, NEW k \in Nat, NEW n \in Nat, Houses(ShellOf(al, k), al, k)
    PROVE  Good(Prologue(NewLabels(EmptyAsm, n), al, k), ShellOf(al, k), n, 1 .. n)
  <1> DEFINE f == ShellOf(al, k)
             s == Len(Saved(al))
             frame == FrameSize(s + al.num_spills, k)
             save(i) == [Ins("store") EXCEPT !.s = AllocRegs[Saved(al)[i] + 1], !.n = SaveDisp(i - 1)]
             saves == [i \in 1 .. s |-> save(i)]
             zeros == [i \in 1 .. n |-> 0]
             a == NewLabels(EmptyAsm, n)
             b == Asm(a, Ins("push_rbp"))
             c == Asm(b, Ins("mov_rbp_rsp"))
             sub == [Ins("sub_rsp") EXCEPT !.n = frame]
             d == Asm(c, sub)
             e == AsmAll(d, saves)
  <1>1. /\ IsShell(f) /\ IsSeq(Saved(al)) /\ NumSaves(f) = s
        /\ \A i \in 1 .. s : f.saves[i] = AllocRegs[Saved(al)[i] + 1]
        /\ f.entry = 1 /\ f.body = s + 4 /\ f.frame = frame
    <2>1. f.entry = 1 /\ f.body = s + 4 /\ f.frame = frame
      BY DEF ShellOf
    <2> HIDE DEF f, frame
    <2> QED
      BY <2>1 DEF Houses, f
  <1>2. s \in Nat /\ DOMAIN Saved(al) = 1 .. s
    BY <1>1 DEF IsSeq
  <1>3. /\ IsAsm(a) /\ Len(a.code) = 0 /\ Len(a.labels) = n /\ SitesOf(a) = {}
        /\ \A l \in 1 .. n : a.labels[l] = 0
    <2>1. <<>> \in Seq({}) /\ Len(<<>>) = 0
      OBVIOUS
    <2>2. IsSeq(<<>>)
      BY <2>1, SeqIsSeq
    <2>3. IsSeq(zeros) /\ Len(zeros) = n
      BY ListIsSeq
    <2>4. a = [code |-> <<>>, labels |-> <<>> \o zeros, relocs |-> <<>>]
      <3> HIDE DEF zeros
      <3> QED
        BY DEF NewLabels, EmptyAsm, zeros
    <2>5. /\ IsSeq(<<>> \o zeros) /\ Len(<<>> \o zeros) = n
          /\ \A l \in 1 .. n : (<<>> \o zeros)[l] = 0
      <3>1. \A l \in 1 .. n : zeros[l] = 0
        OBVIOUS
      <3> HIDE DEF zeros
      <3> DEFINE o == <<>>
      <3>2. IsSeq(o) /\ Len(o) = 0
        BY <2>1, <2>2
      <3> HIDE DEF o
      <3>3. /\ IsSeq(o \o zeros) /\ Len(o \o zeros) = Len(o) + Len(zeros)
            /\ \A i \in 1 .. Len(zeros) : (o \o zeros)[Len(o) + i] = zeros[i]
        BY <2>3, <3>2, JoinFacts
      <3>4. \A l \in 1 .. n : 0 + l = l
        OBVIOUS
      <3>5. \A l \in 1 .. n : (o \o zeros)[l] = 0
        BY <2>3, <3>1, <3>2, <3>3, <3>4
      <3>6. Len(o \o zeros) = n
        BY <2>3, <3>2, <3>3
      <3> QED
        BY <3>3, <3>5, <3>6 DEF o
    <2> HIDE DEF zeros, a
    <2>6. IsAsm(a)
      BY <2>2, <2>4, <2>5 DEF IsAsm
    <2>7. SitesOf(a) = {}
      BY <2>1, <2>4 DEF SitesOf
    <2> QED
      BY <2>1, <2>4, <2>5, <2>6, <2>7
  <1> HIDE DEF a
  <1>4. /\ IsAsm(b) /\ b.labels = a.labels /\ b.relocs = a.relocs
        /\ Len(b.code) = Len(a.code) + 1 /\ b.code[Len(a.code) + 1] = Ins("push_rbp")
    BY <1>3, AsmFacts
  <1>5. Len(b.code) = 1 /\ b.code[1] = Ins("push_rbp")
    BY <1>3, <1>4
  <1> HIDE DEF b
  <1>6. /\ IsAsm(c) /\ c.labels = b.labels /\ c.relocs = b.relocs
        /\ Len(c.code) = Len(b.code) + 1 /\ c.code[Len(b.code) + 1] = Ins("mov_rbp_rsp")
        /\ \A i \in 1 .. Len(b.code) : c.code[i] = b.code[i]
    BY <1>4, AsmFacts
  <1>7. Len(c.code) = 2 /\ c.code[1] = Ins("push_rbp") /\ c.code[2] = Ins("mov_rbp_rsp")
    BY <1>5, <1>6
  <1> HIDE DEF c, sub
  <1>8. /\ IsAsm(d) /\ d.labels = c.labels /\ d.relocs = c.relocs
        /\ Len(d.code) = Len(c.code) + 1 /\ d.code[Len(c.code) + 1] = sub
        /\ \A i \in 1 .. Len(c.code) : d.code[i] = c.code[i]
    BY <1>6, AsmFacts
  <1>9. /\ Len(d.code) = 3 /\ d.code[1] = Ins("push_rbp") /\ d.code[2] = Ins("mov_rbp_rsp")
        /\ d.code[3] = sub
    BY <1>7, <1>8
  <1> HIDE DEF d
  <1>10. IsSeq(saves) /\ Len(saves) = s
    BY <1>2, ListIsSeq
  <1>11. \A i \in 1 .. s : saves[i] = save(i)
    OBVIOUS
  <1> HIDE DEF saves
  <1>12. /\ IsAsm(e) /\ e.labels = d.labels /\ e.relocs = d.relocs
         /\ Len(e.code) = Len(d.code) + Len(saves)
         /\ \A i \in 1 .. Len(d.code) : e.code[i] = d.code[i]
         /\ \A i \in 1 .. Len(saves) : e.code[Len(d.code) + i] = saves[i]
    <2>1. IsAsm(d) /\ IsSeq(saves)
      BY <1>8, <1>10
    <2> QED
      BY <2>1, JoinAsm
  <1> HIDE DEF e
  <1>13. /\ e.code[1] = Ins("push_rbp") /\ e.code[2] = Ins("mov_rbp_rsp") /\ e.code[3] = sub
         /\ Len(e.code) = s + 3
         /\ \A i \in 1 .. s : e.code[3 + i] = save(i)
    <2>1. e.code[1] = d.code[1] /\ e.code[2] = d.code[2] /\ e.code[3] = d.code[3]
      BY <1>9, <1>12
    <2>2. Len(e.code) = s + 3
      BY <1>2, <1>9, <1>10, <1>12
    <2>3. ASSUME NEW i \in 1 .. s PROVE e.code[3 + i] = save(i)
      BY <1>9, <1>10, <1>11, <1>12
    <2> QED
      BY <1>9, <2>1, <2>2, <2>3
  <1>14. sub.i = "sub_rsp" /\ sub.n = frame
    BY DEF sub, Ins
  <1>15. ASSUME NEW i \in 1 .. s
         PROVE  SavesRegister(save(i)) /\ save(i).s = f.saves[i] /\ save(i).n = SaveDisp(i - 1)
    <2> DEFINE r == AllocRegs[Saved(al)[i] + 1]
    <2>1. save(i).i = "store" /\ save(i).s = r /\ save(i).n = SaveDisp(i - 1)
      BY DEF Ins
    <2>2. f.saves[i] = r /\ r \in CalleeSaved
      BY <1>1 DEF IsShell
    <2> HIDE DEF r
    <2> QED
      BY <2>1, <2>2 DEF SavesRegister
  <1> HIDE DEF save
  <1>16. HasPrologue(e.code, f)
    <2> HIDE DEF f
    <2>1. f.frame \in Nat /\ f.frame % 16 = 0 /\ 8 * NumSaves(f) <= f.frame
      BY <1>1 DEF IsShell
    <2>2. /\ e.code[f.entry].i = "push_rbp" /\ e.code[f.entry + 1].i = "mov_rbp_rsp"
          /\ e.code[f.entry + 2].i = "sub_rsp" /\ e.code[f.entry + 2].n = f.frame
      <3>1. f.entry + 1 = 2 /\ f.entry + 2 = 3 /\ f.entry = 1
        BY <1>1
      <3>2. Ins("push_rbp").i = "push_rbp" /\ Ins("mov_rbp_rsp").i = "mov_rbp_rsp"
        BY DEF Ins
      <3> QED
        BY <1>1, <1>13, <1>14, <3>1, <3>2
    <2>3. ASSUME NEW i \in 1 .. NumSaves(f)
          PROVE  /\ SavesRegister(e.code[f.entry + 2 + i]) /\ e.code[f.entry + 2 + i].s = f.saves[i]
                 /\ e.code[f.entry + 2 + i].n = SaveDisp(i - 1)
      <3>1. f.entry + 2 + i = 3 + i /\ i \in 1 .. s
        BY <1>1
      <3>2. e.code[3 + i] = save(i)
        BY <1>13, <3>1
      <3> QED
        BY <1>15, <3>1, <3>2
    <2> QED
      BY <2>1, <2>2, <2>3 DEF HasPrologue
  <1>17. e.labels = a.labels /\ SitesOf(e) = {}
    <2>1. e.labels = a.labels /\ e.relocs = a.relocs
      BY <1>4, <1>6, <1>8, <1>12
    <2>2. SitesOf(e) = SitesOf(a)
      BY <2>1 DEF SitesOf
    <2> QED
      BY <1>3, <2>1, <2>2
  <1>18. Len(e.code) = f.body - 1 /\ f.body .. Len(e.code) = {}
    BY <1>1, <1>2, <1>13
  <1>19. Sound(e, f)
    <2> HIDE DEF f
    <2>1. f.body - 1 <= Len(e.code)
      BY <1>1, <1>2, <1>13
    <2> QED
      BY <1>3, <1>12, <1>16, <1>17, <1>18, <2>1 DEF Sound
  <1>20. Len(e.labels) = n /\ Unbound(e) = 1 .. n
    BY <1>3, <1>17 DEF Unbound
  <1>21. Prologue(a, al, k) = e
    BY <1>2 DEF Prologue, e, d, sub, c, b, SubRsp, saves, save
  <1> QED
    BY <1>19, <1>20, <1>21 DEF Good, a

(* The encoder at a function: the code so far is good, the labels of the    *)
(* blocks to come are open, and a block that is finished is closed.         *)
EncoderInv(blocks, al, e) ==
    LET n == Len(blocks)
        k == MaxStackArgs(blocks)
    IN  /\ e = [a |-> e.a, block |-> e.block, inst |-> e.inst]
        /\ e.block \in 1 .. n + 1
        /\ \E m \in Nat :
              n <= m /\ Encoding(ShellOf(al, k), al, k, m, e.block + 1 .. n, e.a)
        /\ e.block <= n => e.inst \in 1 .. Len(blocks[e.block]) + 1
        /\ e.block > n \/ e.inst > Len(blocks[e.block]) => Closed(e.a)

(* What is known of a function to be encoded. *)
LEMMA AllocatedFacts ==
    ASSUME NEW blocks, NEW al, Allocated(blocks, al)
    PROVE  /\ IsSeq(blocks) /\ Len(blocks) \in Nat /\ Len(blocks) > 0
           /\ MaxStackArgs(blocks) \in Nat
           /\ Houses(ShellOf(al, MaxStackArgs(blocks)), al, MaxStackArgs(blocks))
           /\ \A b \in 1 .. Len(blocks) :
                 /\ Len(blocks[b]) \in Nat /\ Len(blocks[b]) > 0
                 /\ blocks[b][Len(blocks[b])].op \in Terminators
                 /\ \A i \in 1 .. Len(blocks[b]) : Encodable(al, blocks[b][i], Len(blocks))
  <1> DEFINE n == Len(blocks)
  <1>1. IsSeq(blocks) /\ n \in Nat /\ DOMAIN blocks = 1 .. n /\ n > 0
    <2>1. blocks \in Seq(Range(blocks)) /\ blocks # <<>>
      BY DEF Allocated
    <2>2. IsSeq(blocks) /\ DOMAIN blocks = 1 .. n
      BY <2>1, SeqIsSeq
    <2>3. n \in Nat /\ n # 0
      BY <2>1
    <2> QED
      BY <2>2, <2>3
  <1>2. ASSUME NEW b \in 1 .. n
        PROVE  /\ Len(blocks[b]) \in Nat /\ Len(blocks[b]) > 0
               /\ blocks[b][Len(blocks[b])].op \in Terminators
               /\ \A i \in 1 .. Len(blocks[b]) : Encodable(al, blocks[b][i], n)
    <2> DEFINE s == blocks[b]
    <2>1. IsBlock(al, s, n)
      BY <1>1 DEF Allocated
    <2> HIDE DEF s
    <2>2. s \in Seq(Range(s)) /\ s # <<>>
      BY <2>1 DEF IsBlock
    <2>3. DOMAIN s = 1 .. Len(s) /\ Len(s) \in Nat /\ Len(s) # 0
      BY <2>2
    <2>4. Last(s) = s[Len(s)]
      BY DEF Last
    <2>5. s[Len(s)].op \in Terminators /\ \A i \in 1 .. Len(s) : Encodable(al, s[i], n)
      BY <2>1, <2>3, <2>4 DEF IsBlock
    <2> QED
      BY <2>3, <2>5 DEF s
  <1>3. MaxStackArgs(blocks) \in Nat
    BY RoomForArgs
  <1>4. Houses(ShellOf(al, MaxStackArgs(blocks)), al, MaxStackArgs(blocks))
    BY <1>3, ShellHouses DEF Allocated
  <1> QED
    BY <1>1, <1>2, <1>3, <1>4

(* It begins there. *)
LEMMA EncoderBegins ==
    ASSUME NEW blocks, NEW al, Allocated(blocks, al)
    PROVE  EncoderInv(blocks, al, EncodeStart(blocks, al))
  <1> DEFINE n == Len(blocks)
             k == MaxStackArgs(blocks)
             f == ShellOf(al, k)
             a == Prologue(NewLabels(EmptyAsm, n), al, k)
             b == BindLabel(a, 1)
             e == EncodeStart(blocks, al)
  <1>1. /\ n \in Nat /\ n > 0 /\ k \in Nat /\ Houses(f, al, k)
        /\ Len(blocks[1]) \in Nat /\ Len(blocks[1]) > 0
    <2>1. n \in Nat /\ n > 0
      BY AllocatedFacts
    <2>2. 1 \in 1 .. n
      BY <2>1
    <2> QED
      BY <2>1, <2>2, AllocatedFacts
  <1>2. e = [a |-> b, block |-> 1, inst |-> 1]
    BY DEF EncodeStart
  <1> HIDE DEF n, k
  <1>3. Good(a, f, n, 1 .. n)
    BY <1>1, PrologueIsGood
  <1> HIDE DEF a, f
  <1>4. Encoding(f, al, k, n, 1 .. n, a)
    BY <1>1, <1>3 DEF Encoding
  <1>5. Encoding(f, al, k, n, (1 .. n) \ {1}, b)
    <2>1. 1 \in 1 .. n /\ 0 \in Nat
      BY <1>1
    <2> QED
      BY <1>4, <2>1, LabelsEncode
  <1>6. (1 .. n) \ {1} = 1 + 1 .. n
    BY <1>1
  <1> HIDE DEF b, e
  <1>7. /\ e.a = b /\ e.block = 1 /\ e.inst = 1 /\ e = [a |-> e.a, block |-> e.block, inst |-> e.inst]
    BY <1>2
  <1>8. Encoding(f, al, k, n, e.block + 1 .. n, e.a)
    BY <1>5, <1>6, <1>7
  <1>9. /\ e.block \in 1 .. n + 1 /\ n <= n /\ ~(e.block > n)
        /\ e.inst \in 1 .. Len(blocks[e.block]) + 1 /\ ~(e.inst > Len(blocks[e.block]))
    BY <1>1, <1>7
  <1> QED
    BY <1>1, <1>7, <1>8, <1>9 DEF EncoderInv, e, f, k, n

(* Each step keeps it. *)
LEMMA EncoderGoesOn ==
    ASSUME NEW blocks, NEW al, Allocated(blocks, al),
           NEW e, EncoderInv(blocks, al, e), ~Encoded(e, blocks)
    PROVE  EncoderInv(blocks, al, EncodeNext(e, blocks, al))
  <1> DEFINE n == Len(blocks)
             k == MaxStackArgs(blocks)
             f == ShellOf(al, k)
             here == blocks[e.block]
             next == e.block + 1
             g == EncodeNext(e, blocks, al)
  <1>1. n \in Nat /\ n > 0 /\ k \in Nat /\ Houses(f, al, k)
    BY AllocatedFacts
  <1>2. /\ e = [a |-> e.a, block |-> e.block, inst |-> e.inst]
        /\ e.block \in 1 .. n + 1
        /\ e.block <= n => e.inst \in 1 .. Len(here) + 1
        /\ e.block > n \/ e.inst > Len(here) => Closed(e.a)
    BY DEF EncoderInv
  <1>3. PICK m \in Nat : n <= m /\ Encoding(f, al, k, m, next .. n, e.a)
    BY DEF EncoderInv
  <1> HIDE DEF k, f
  <1>4. e.block \in 1 .. n /\ e.inst \in 1 .. Len(here) + 1
    BY <1>1, <1>2 DEF Encoded
  <1>5. /\ Len(here) \in Nat /\ Len(here) > 0 /\ here[Len(here)].op \in Terminators
        /\ \A i \in 1 .. Len(here) : Encodable(al, here[i], n)
        /\ \A i \in 1 .. Len(here) : here[i].op = "Call" => Len(here[i].args) - 4 <= k
    BY <1>4, AllocatedFacts, RoomForArgs DEF k
  <1> HIDE DEF n
  <1>6. CASE e.inst <= Len(here)
    <2> DEFINE in == here[e.inst]
               b == EncodeInst(e.a, al, in)
    <2>1. e.inst \in 1 .. Len(here)
      BY <1>4, <1>6
    <2>2. Encodable(al, in, n) /\ (in.op = "Call" => Len(in.args) - 4 <= k)
      BY <1>5, <2>1
    <2> HIDE DEF in
    <2>3. /\ \E m2 \in Nat : m <= m2 /\ Encoding(f, al, k, m2, next .. n, b)
          /\ in.op \in Terminators => Closed(b)
      <3> HIDE DEF here, next
      <3> QED
        BY <1>1, <1>3, <2>2, EncodeInstKeeps
    <2> HIDE DEF b
    <2>4. PICK m2 \in Nat : m <= m2 /\ Encoding(f, al, k, m2, next .. n, b)
      BY <2>3
    <2>5. g = [e EXCEPT !.a = b, !.inst = @ + 1]
      BY <1>6 DEF EncodeNext, b, in
    <2> HIDE DEF g
    <2>6. /\ g.a = b /\ g.block = e.block /\ g.inst = e.inst + 1
          /\ g = [a |-> g.a, block |-> g.block, inst |-> g.inst]
      BY <1>2, <2>5
    <2>7. g.inst > Len(here) => Closed(g.a)
      <3>1. e.inst + 1 > Len(here) => e.inst = Len(here)
        BY <1>5, <2>1
      <3> QED
        BY <1>5, <2>3, <2>6, <3>1 DEF in
    <2>8. Encoding(f, al, k, m2, g.block + 1 .. n, g.a)
      BY <2>4, <2>6
    <2>9. n <= m2 /\ g.block \in 1 .. n + 1 /\ ~(g.block > n) /\ g.inst \in 1 .. Len(here) + 1
      <3> DEFINE l == Len(here)
      <3> HIDE DEF l
      <3>1. l \in Nat /\ e.inst \in 1 .. l
        BY <1>5, <2>1 DEF l
      <3>2. g.inst \in 1 .. l + 1
        BY <2>6, <3>1
      <3>3. n <= m2
        BY <1>1, <1>3, <2>4
      <3>4. g.block \in 1 .. n + 1 /\ ~(g.block > n)
        BY <1>1, <1>4, <2>6
      <3> QED
        BY <3>2, <3>3, <3>4 DEF l
    <2>10. here = blocks[g.block]
      BY <2>6
    <2> HIDE DEF here
    <2> QED
      BY <2>4, <2>6, <2>7, <2>8, <2>9, <2>10 DEF EncoderInv, g, f, k, n
  <1>7. CASE ~(e.inst <= Len(here))
    <2> DEFINE b == IF next <= n THEN BindLabel(e.a, next) ELSE e.a
    <2>1. g = [a |-> b, block |-> next, inst |-> 1]
      BY <1>7 DEF EncodeNext, n
    <2>2. Closed(e.a)
      BY <1>2, <1>4, <1>5, <1>7
    <2>3. next \in 1 .. n + 1 /\ next \in Nat
      BY <1>1, <1>4
    <2>4. CASE next <= n
      <3>1. next \in 1 .. m /\ 0 \in Nat
        BY <1>1, <1>3, <2>3, <2>4
      <3>2. Encoding(f, al, k, m, (next .. n) \ {next}, b)
        <4>1. b = BindLabel(e.a, next)
          BY <2>4
        <4> HIDE DEF b, next
        <4>2. Encoding(f, al, k, m, (next .. n) \ {next}, BindLabel(e.a, next))
          BY <1>3, <3>1, LabelsEncode
        <4> QED
          BY <4>1, <4>2
      <3>3. (next .. n) \ {next} = next + 1 .. n
        <4> HIDE DEF next
        <4> QED
          BY <1>1, <2>3
      <3>4. next \in 1 .. n
        BY <1>1, <2>3, <2>4
      <3>5. Len(blocks[next]) \in Nat /\ Len(blocks[next]) > 0
        <4> HIDE DEF next
        <4> QED
          BY <3>4, AllocatedFacts DEF n
      <3> HIDE DEF b, next, g
      <3>6. g.a = b /\ g.block = next /\ g.inst = 1 /\ g = [a |-> g.a, block |-> g.block, inst |-> g.inst]
        BY <2>1
      <3>7. Encoding(f, al, k, m, g.block + 1 .. n, g.a)
        BY <3>2, <3>3, <3>6
      <3>8. /\ g.block \in 1 .. n + 1 /\ ~(g.block > n)
            /\ g.inst \in 1 .. Len(blocks[g.block]) + 1 /\ ~(g.inst > Len(blocks[g.block]))
        BY <1>1, <3>4, <3>5, <3>6
      <3> QED
        BY <1>3, <3>6, <3>7, <3>8 DEF EncoderInv, g, f, k, n
    <2>5. CASE ~(next <= n)
      <3>1. next = n + 1 /\ b = e.a
        BY <1>1, <2>3, <2>5
      <3>2. next .. n = {} /\ next + 1 .. n = {}
        BY <1>1, <3>1
      <3> HIDE DEF b, next, g
      <3>3. g.a = b /\ g.block = next /\ g.inst = 1 /\ g = [a |-> g.a, block |-> g.block, inst |-> g.inst]
        BY <2>1
      <3>4. Encoding(f, al, k, m, g.block + 1 .. n, g.a)
        BY <1>3, <3>1, <3>2, <3>3
      <3>5. g.block \in 1 .. n + 1 /\ ~(g.block <= n) /\ Closed(g.a)
        BY <1>1, <2>2, <2>3, <3>1, <3>3
      <3> QED
        BY <1>3, <3>3, <3>4, <3>5 DEF EncoderInv, g, f, k, n
    <2> QED
      BY <2>4, <2>5
  <1> QED
    BY <1>6, <1>7

-----------------------------------------------------------------------------
(* The finished function. *)

(* d is the code of a with its jumps resolved and its calls led to itself.  *)
IsFinal(a, d) ==
    /\ IsSeq(d) /\ Len(d) = Len(a.code)
    /\ \A p \in 1 .. Len(d) :
          /\ d[p].i = a.code[p].i
          /\ a.code[p].i \notin {"jmp", "jcc", "mov_ri"} => d[p] = a.code[p]
          /\ a.code[p].i = "mov_ri" => d[p].d = a.code[p].d
          /\ a.code[p].i \in {"jmp", "jcc"} => d[p].n = a.labels[a.code[p].n] - p
          /\ p \in SitesOf(a) => d[p].n = 1

(* What stands where. *)
LEMMA PlaceKinds ==
    ASSUME NEW f, IsShell(f), NEW a, Sound(a, f), NEW p \in 1 .. Len(a.code)
    PROVE  \/ p = 1 /\ a.code[p].i = "push_rbp"
           \/ p \in 2 .. f.body - 1 /\ a.code[p].i \in {"mov_rbp_rsp", "sub_rsp", "store"}
           \/ /\ p \in f.body .. Len(a.code)
              /\ \/ Straightforward(f, a.code[p])
                 \/ a.code[p].i \in {"jmp", "jcc"} /\ IsInstruction(a.code[p])
                 \/ a.code[p].i \in {"call", "mov_rsp_rbp", "pop_rbp", "ret"}
  <1> DEFINE L == Len(a.code)
  <1>1. L \in Nat /\ NumSaves(f) \in Nat /\ f.body = NumSaves(f) + 4 /\ f.entry = 1
    BY SoundNumbers DEF IsShell
  <1>2. CASE p >= f.body
    <2>1. p \in f.body .. L
      BY <1>1, <1>2
    <2>2. Fits(a, f, p)
      BY <2>1 DEF Sound
    <2>3. CASE InEpilogue(a, f, p)
      <3>1. PICK q \in p .. p + 2 : a.code[q].i = "ret" /\ HasEpilogue(a.code, f, q)
        BY <2>3 DEF InEpilogue
      <3>2. q = p \/ q - 1 = p \/ q - 2 = p
        BY <1>1
      <3>3. a.code[p].i \in {"mov_rsp_rbp", "pop_rbp", "ret"}
        BY <3>1, <3>2 DEF HasEpilogue
      <3> QED
        BY <2>1, <3>3
    <2> QED
      BY <2>1, <2>2, <2>3 DEF Fits
  <1>3. CASE ~(p >= f.body)
    <2>1. p \in 1 .. 3 + NumSaves(f)
      BY <1>1, <1>3
    <2>2. HasPrologue(a.code, f)
      BY DEF Sound
    <2>3. CASE p <= 3
      <3>1. p = 1 \/ p = 2 \/ p = 3
        BY <2>3
      <3>2. a.code[1].i = "push_rbp" /\ a.code[2].i = "mov_rbp_rsp" /\ a.code[3].i = "sub_rsp"
        <4>1. f.entry + 1 = 2 /\ f.entry + 2 = 3
          BY <1>1
        <4> QED
          BY <1>1, <2>2, <4>1 DEF HasPrologue
      <3>3. 2 \in 2 .. f.body - 1 /\ 3 \in 2 .. f.body - 1
        BY <1>1
      <3> QED
        BY <3>1, <3>2, <3>3
    <2>4. CASE ~(p <= 3)
      <3>1. p - 3 \in 1 .. NumSaves(f) /\ f.entry + 2 + (p - 3) = p /\ p \in 2 .. f.body - 1
        BY <1>1, <2>1, <2>4
      <3>2. SavesRegister(a.code[p])
        BY <2>2, <3>1 DEF HasPrologue
      <3> QED
        BY <3>1, <3>2 DEF SavesRegister
    <2> QED
      BY <2>3, <2>4
  <1> QED
    BY <1>1, <1>2, <1>3

(* What Finalize makes of it. *)
LEMMA FinalizeFacts ==
    ASSUME NEW f, IsShell(f), NEW a, Sound(a, f)
    PROVE  LET c == Finalize(a)
           IN  /\ IsSeq(c) /\ Len(c) = Len(a.code) /\ DOMAIN c = 1 .. Len(c)
               /\ \A p \in 1 .. Len(c) :
                     /\ c[p].i = a.code[p].i
                     /\ a.code[p].i \notin {"jmp", "jcc"} => c[p] = a.code[p]
                     /\ a.code[p].i \in {"jmp", "jcc"} => c[p].n = a.labels[a.code[p].n] - p
  <1> DEFINE c == Finalize(a)
             L == Len(a.code)
  <1>1. L \in Nat /\ DOMAIN a.code = 1 .. L /\ NumSaves(f) \in Nat /\ f.body = NumSaves(f) + 4
    <2>1. IsAsm(a) /\ NumSaves(f) \in Nat /\ f.body = NumSaves(f) + 4
      BY SoundNumbers
    <2>2. IsSeq(a.code)
      BY <2>1 DEF IsAsm
    <2> QED
      BY <2>1, <2>2 DEF IsSeq
  <1>2. c = [p \in 1 .. L |->
               IF a.code[p].i \in {"jmp", "jcc"}
               THEN [a.code[p] EXCEPT !.n = a.labels[a.code[p].n] - p] ELSE a.code[p]]
    BY <1>1 DEF Finalize
  <1> HIDE DEF c
  <1>3. IsSeq(c) /\ Len(c) = L /\ DOMAIN c = 1 .. L
    BY <1>1, <1>2, ListIsSeq
  <1>4. ASSUME NEW p \in 1 .. L, a.code[p].i \in {"jmp", "jcc"} PROVE IsInstruction(a.code[p])
    <2>1. ~Straightforward(f, a.code[p])
      BY <1>4, StraightforwardIs
    <2> QED
      BY <1>4, <2>1, PlaceKinds
  <1>5. ASSUME NEW p \in 1 .. L
        PROVE  /\ c[p].i = a.code[p].i
               /\ a.code[p].i \notin {"jmp", "jcc"} => c[p] = a.code[p]
               /\ a.code[p].i \in {"jmp", "jcc"} => c[p].n = a.labels[a.code[p].n] - p
    <2> DEFINE in == a.code[p]
               x == a.labels[in.n] - p
    <2>1. CASE in.i \in {"jmp", "jcc"}
      <3>1. c[p] = [in EXCEPT !.n = x]
        BY <1>2, <2>1
      <3>2. IsInstruction(in)
        BY <1>4, <2>1
      <3> HIDE DEF in, x
      <3>3. c[p].n = x /\ c[p].i = in.i
        BY <3>1, <3>2, FieldWritten
      <3> QED
        BY <2>1, <3>3 DEF in, x
    <2>2. CASE in.i \notin {"jmp", "jcc"}
      BY <1>2, <2>2
    <2> QED
      BY <2>1, <2>2
  <1> QED
    BY <1>3, <1>5 DEF c

(* The function as FunctionCode sees it. *)
LEMMA FinalFacts ==
    ASSUME NEW f, IsShell(f), NEW a, Sound(a, f),
           NEW out, out.code = Finalize(a), out.relocs = a.relocs
    PROVE  LET itself == [at \in Sites(out) |-> 1]
               d == Retargeted(out, itself)
           IN  /\ IsFinal(a, d)
               /\ Sites(out) = SitesOf(a)
               /\ \A p \in Sites(out) : p \in DOMAIN out.code /\ OpensCall(out.code[p])
  <1> DEFINE itself == [at \in Sites(out) |-> 1]
             d == Retargeted(out, itself)
             c == out.code
             L == Len(a.code)
  <1>1. /\ IsSeq(c) /\ Len(c) = L /\ DOMAIN c = 1 .. L
        /\ \A p \in 1 .. L :
              /\ c[p].i = a.code[p].i
              /\ a.code[p].i \notin {"jmp", "jcc"} => c[p] = a.code[p]
              /\ a.code[p].i \in {"jmp", "jcc"} => c[p].n = a.labels[a.code[p].n] - p
    BY FinalizeFacts
  <1>2. Sites(out) = SitesOf(a)
    <2>1. DOMAIN a.relocs = 1 .. Len(a.relocs)
      BY SoundNumbers DEF IsAsm, IsSeq
    <2> QED
      BY <2>1 DEF Sites, SitesOf, Range
  <1>3. ASSUME NEW p \in SitesOf(a) PROVE p \in 1 .. L /\ c[p] = a.code[p] /\ OpensCall(c[p])
    <2>1. p \in f.body .. L /\ OpensCall(a.code[p])
      BY DEF Sound
    <2>2. p \in 1 .. L
      BY <2>1, SoundNumbers
    <2>3. c[p] = a.code[p]
      BY <1>1, <2>1, <2>2 DEF OpensCall
    <2> QED
      BY <2>1, <2>2, <2>3
  <1>4. d = [p \in 1 .. L |-> IF p \in SitesOf(a) THEN [c[p] EXCEPT !.n = 1] ELSE c[p]]
    BY <1>1, <1>2 DEF Retargeted
  <1>5. L \in Nat
    BY SoundNumbers
  <1> HIDE DEF d
  <1>6. IsSeq(d) /\ Len(d) = L
    BY <1>4, <1>5, ListIsSeq
  <1>7. ASSUME NEW p \in 1 .. L
        PROVE  /\ d[p].i = a.code[p].i
               /\ a.code[p].i \notin {"jmp", "jcc", "mov_ri"} => d[p] = a.code[p]
               /\ a.code[p].i = "mov_ri" => d[p].d = a.code[p].d
               /\ a.code[p].i \in {"jmp", "jcc"} => d[p].n = a.labels[a.code[p].n] - p
               /\ p \in SitesOf(a) => d[p].n = 1
    <2>1. CASE p \in SitesOf(a)
      <3> DEFINE in == c[p]
      <3>1. d[p] = [in EXCEPT !.n = 1] /\ in = a.code[p] /\ OpensCall(in)
        BY <1>3, <1>4, <2>1
      <3> HIDE DEF in
      <3>2. d[p].n = 1 /\ d[p].i = in.i /\ d[p].d = in.d /\ in.i = "mov_ri"
        BY <3>1, FieldWritten DEF OpensCall
      <3> QED
        BY <3>1, <3>2
    <2>2. CASE p \notin SitesOf(a)
      <3>1. d[p] = c[p]
        BY <1>4, <2>2
      <3> QED
        BY <1>1, <2>2, <3>1
    <2> QED
      BY <2>1, <2>2
  <1>8. IsFinal(a, d)
    BY <1>6, <1>7 DEF IsFinal
  <1> QED
    BY <1>1, <1>2, <1>3, <1>8 DEF d

(* The least of a set. *)
LEMMA LeastIs ==
    ASSUME NEW S \in SUBSET Int, NEW x \in S, \A y \in S : x <= y
    PROVE  Min(S) = x
  <1>1. Min(S) \in S /\ \A y \in S : Min(S) <= y
    BY DEF Min
  <1>2. x <= Min(S) /\ Min(S) <= x
    BY <1>1
  <1>3. x \in Int /\ Min(S) \in Int
    BY <1>1
  <1> QED
    BY <1>2, <1>3

(* The code begins one function. *)
LEMMA OneStart ==
    ASSUME NEW f, IsShell(f), NEW a, Sound(a, f),
           NEW d, Len(d) = Len(a.code), \A p \in 1 .. Len(d) : d[p].i = a.code[p].i
    PROVE  Starts(d) = {1}
  <1> DEFINE L == Len(a.code)
  <1>1. L \in Nat /\ f.body - 1 <= L /\ f.body >= 4 /\ f.body \in Nat
    BY SoundNumbers
  <1>2. a.code[1].i = "push_rbp"
    BY DEF Sound, HasPrologue, IsShell
  <1>3. ASSUME NEW p \in 1 .. L, a.code[p].i = "push_rbp" PROVE p = 1
    <2>1. ~Straightforward(f, a.code[p])
      BY <1>3, StraightforwardIs
    <2> QED
      BY <1>3, <2>1, PlaceKinds
  <1>4. 1 \in 1 .. L
    BY <1>1
  <1> QED
    BY <1>2, <1>3, <1>4 DEF Starts

(* A closed body is not empty. *)
LEMMA ClosedBody ==
    ASSUME NEW f, IsShell(f), NEW a, Sound(a, f), Closed(a)
    PROVE  f.body <= Len(a.code)
  <1> DEFINE L == Len(a.code)
  <1>1. L \in Nat /\ L \in 1 .. L /\ a.code[L].i \in {"jmp", "ret"} /\ f.body \in Nat
    <2>1. L \in Nat /\ f.body \in Nat
      BY SoundNumbers
    <2> QED
      BY <2>1 DEF Closed
  <1>2. L \in f.body .. L
    <2> HIDE DEF L
    <2>1. L = Len(a.code)
      BY DEF L
    <2> QED
      BY <1>1, <2>1, PlaceKinds
  <1> QED
    BY <1>1, <1>2

(* The function the linker will find. *)
LEMMA FunctionFound ==
    ASSUME NEW f, IsShell(f), NEW a, Sound(a, f), Closed(a), NEW d, IsFinal(a, d)
    PROVE  /\ Starts(d) = {1}
           /\ FunctionAt(d, 1) = [entry |-> 1, body |-> f.body, last |-> Len(d), frame |-> f.frame,
                                  saves |-> f.saves]
  <1> DEFINE L == Len(d)
             k == NumSaves(f)
             ends == {p \in 1 + 3 .. L : ~SavesRegister(d[p])}
             body == Min(ends \cup {L + 1})
             starts == {p \in Starts(d) : p > 1} \cup {L + 1}
  <1>1. /\ L = Len(a.code) /\ L \in Nat /\ k \in Nat /\ f.body = k + 4 /\ f.body <= L
        /\ f.entry = 1 /\ HasPrologue(a.code, f)
    BY SoundNumbers, ClosedBody DEF IsFinal, Sound, IsShell
  <1>2. Starts(d) = {1}
    BY OneStart DEF IsFinal
  <1>3. ASSUME NEW p \in 1 .. L, a.code[p].i \notin {"jmp", "jcc", "mov_ri"} PROVE d[p] = a.code[p]
    BY <1>3 DEF IsFinal
  <1>4. ASSUME NEW i \in 1 .. k
        PROVE  d[3 + i] = a.code[3 + i] /\ SavesRegister(d[3 + i]) /\ d[3 + i].s = f.saves[i]
    <2>1. 3 + i \in 1 .. L /\ f.entry + 2 + i = 3 + i
      BY <1>1
    <2>2. SavesRegister(a.code[3 + i]) /\ a.code[3 + i].s = f.saves[i]
      BY <1>1, <2>1 DEF HasPrologue
    <2>3. d[3 + i] = a.code[3 + i]
      BY <1>3, <2>1, <2>2 DEF SavesRegister
    <2> QED
      BY <2>2, <2>3
  <1>5. ~SavesRegister(d[f.body])
    <2>1. f.body \in f.body .. Len(a.code) /\ f.body \in 1 .. L
      BY <1>1
    <2>2. Fits(a, f, f.body)
      BY <2>1 DEF Sound
    <2>3. d[f.body].i = a.code[f.body].i
      BY <2>1 DEF IsFinal
    <2>4. CASE Straightforward(f, a.code[f.body])
      <3>1. a.code[f.body].i \notin {"jmp", "jcc"} /\ ~SavesRegister(a.code[f.body])
        BY <2>4, StraightforwardIs DEF Straightforward
      <3>2. CASE a.code[f.body].i = "mov_ri"
        BY <2>3, <3>2 DEF SavesRegister
      <3>3. CASE a.code[f.body].i # "mov_ri"
        BY <1>3, <2>1, <3>1, <3>3
      <3> QED
        BY <3>2, <3>3
    <2>5. CASE ~Straightforward(f, a.code[f.body])
      <3>1. a.code[f.body].i # "store"
        <4>1. f.body # 1 /\ ~(f.body \in 2 .. f.body - 1) /\ f.body \in 1 .. Len(a.code)
          BY <1>1
        <4>2. a.code[f.body].i \in {"jmp", "jcc"} \/ a.code[f.body].i \in {"call", "mov_rsp_rbp", "pop_rbp", "ret"}
          BY <2>5, <4>1, PlaceKinds
        <4> QED
          BY <4>2
      <3> QED
        BY <2>3, <3>1 DEF SavesRegister
    <2> QED
      BY <2>4, <2>5
  <1>6. body = f.body
    <2> DEFINE S == ends \cup {L + 1}
    <2>1. S \in SUBSET Int /\ f.body \in S
      BY <1>1, <1>5
    <2>2. ASSUME NEW y \in S PROVE f.body <= y
      <3>1. CASE y = L + 1
        BY <1>1, <3>1
      <3>2. CASE y \in ends
        <4> SUFFICES ASSUME y < f.body PROVE FALSE
          BY <1>1, <3>2
        <4>1. y - 3 \in 1 .. k /\ 3 + (y - 3) = y
          BY <1>1, <3>2
        <4> QED
          BY <1>4, <3>2, <4>1
      <3> QED
        BY <3>1, <3>2
    <2> HIDE DEF S
    <2>3. Min(S) = f.body
      BY <2>1, <2>2, LeastIs
    <2> QED
      BY <2>3 DEF S
  <1>7. Min(starts) = L + 1
    <2>1. starts = {L + 1}
      BY <1>2
    <2>2. {L + 1} \in SUBSET Int /\ L + 1 \in {L + 1} /\ \A y \in {L + 1} : L + 1 <= y
      BY <1>1
    <2>3. Min({L + 1}) = L + 1
      BY <2>2, LeastIs
    <2> QED
      BY <2>1, <2>3
  <1>8. d[3].n = f.frame
    <2>1. f.entry + 2 = 3 /\ 3 \in 1 .. L
      BY <1>1
    <2>2. a.code[3].i = "sub_rsp" /\ a.code[3].n = f.frame
      BY <1>1, <2>1 DEF HasPrologue
    <2> QED
      BY <1>3, <2>1, <2>2
  <1>9. [i \in 1 .. f.body - 1 - 3 |-> d[1 + 2 + i].s] = f.saves
    <2>1. f.body - 1 - 3 = k
      BY <1>1
    <2>2. \A i \in 1 .. k : 1 + 2 + i = 3 + i
      OBVIOUS
    <2>3. [i \in 1 .. k |-> d[1 + 2 + i].s] = [i \in 1 .. k |-> f.saves[i]]
      BY <1>4, <2>2
    <2> QED
      BY <2>1, <2>3 DEF IsShell
  <1>10. FunctionAt(d, 1) = [entry |-> 1, body |-> body, last |-> Min(starts) - 1, frame |-> d[1 + 2].n,
                             saves |-> [i \in 1 .. body - 1 - 3 |-> d[1 + 2 + i].s]]
    BY DEF FunctionAt
  <1>11. 1 + 2 = 3 /\ (L + 1) - 1 = L
    BY <1>1
  <1> HIDE DEF body, starts, L
  <1> QED
    BY <1>2, <1>6, <1>7, <1>8, <1>9, <1>10, <1>11 DEF L

(* g is f with its end. *)
Ends(f, g) ==
    g.entry = 1 /\ g.body = f.body /\ g.frame = f.frame /\ g.saves = f.saves

(* The two write and save alike. *)
LEMMA EndsAlike ==
    ASSUME NEW f, IsShell(f), NEW g, Ends(f, g)
    PROVE  /\ NumSaves(g) = NumSaves(f) /\ Free(g) = Free(f)
           /\ \A in : WritesRegisters(f, in) => WritesRegisters(g, in)
           /\ \A in : WritesFrame(f, in) => WritesFrame(g, in)
           /\ \A c, q : HasEpilogue(c, f, q) => HasEpilogue(c, g, q)
  <1>1. NumSaves(g) = NumSaves(f)
    BY DEF Ends, NumSaves, IsShell
  <1>2. Free(g) = Free(f)
    BY <1>1 DEF Free, Ends
  <1>3. \A in : WritesRegisters(f, in) => WritesRegisters(g, in)
    BY <1>2 DEF WritesRegisters
  <1>4. \A in : WritesFrame(f, in) => WritesFrame(g, in)
    BY <1>1 DEF WritesFrame, Ends
  <1>5. \A c, q : HasEpilogue(c, f, q) => HasEpilogue(c, g, q)
    BY <1>1 DEF HasEpilogue, Ends
  <1> QED
    BY <1>1, <1>2, <1>3, <1>4, <1>5

(* A place that a label is bound to is open in the finished code. *)
LEMMA ReachableIsOpen ==
    ASSUME NEW f, IsShell(f), NEW a, Sound(a, f), NEW d, IsFinal(a, d),
           NEW g, Ends(f, g), g.last = Len(d),
           NEW x, Reachable(a, f, x), x <= Len(d)
    PROVE  Open(d, g, x)
  <1> DEFINE L == Len(d)
  <1>1. L = Len(a.code) /\ L \in Nat /\ f.body \in Nat /\ f.body >= 4 /\ NumSaves(g) = NumSaves(f)
    BY SoundNumbers, EndsAlike DEF IsFinal
  <1>2. x \in BodyOf(g) /\ x \in 1 .. L /\ BodyOf(g) = f.body .. L
    BY <1>1 DEF Reachable, BodyOf, Ends
  <1>3. d[x].i # "call"
    BY <1>1, <1>2 DEF Reachable, IsFinal
  <1>4. ASSUME NEW q \in BodyOf(g), d[q].i = "ret" PROVE x \notin q - 1 - NumSaves(g) .. q
    <2>1. q \in f.body .. Len(a.code) /\ q \in 1 .. L
      BY <1>1, <1>2
    <2>2. a.code[q].i = "ret"
      BY <1>4, <2>1 DEF IsFinal
    <2> QED
      BY <1>1, <2>1, <2>2 DEF Reachable
  <1> QED
    BY <1>2, <1>3, <1>4 DEF Open

(* An epilogue stays one. *)
LEMMA EpilogueIsFinal ==
    ASSUME NEW f, IsShell(f), NEW a, Sound(a, f), NEW d, IsFinal(a, d),
           NEW q \in 1 .. Len(a.code), HasEpilogue(a.code, f, q)
    PROVE  HasEpilogue(d, f, q)
  <1>1. /\ Len(d) = Len(a.code) /\ Len(d) \in Nat /\ NumSaves(f) \in Nat
        /\ f.body = NumSaves(f) + 4 /\ f.body <= q - 2 - NumSaves(f)
    BY SoundNumbers DEF IsFinal, HasEpilogue
  <1>2. ASSUME NEW p \in 1 .. q, a.code[p].i \in {"load", "mov_rsp_rbp", "pop_rbp"}
        PROVE  d[p] = a.code[p]
    <2>1. p \in 1 .. Len(d)
      BY <1>1
    <2> QED
      BY <1>2, <2>1 DEF IsFinal
  <1>3. d[q - 2].i = "mov_rsp_rbp" /\ d[q - 1].i = "pop_rbp"
    <2>1. q - 2 \in 1 .. q /\ q - 1 \in 1 .. q
      BY <1>1
    <2> QED
      BY <1>2, <2>1 DEF HasEpilogue
  <1>4. ASSUME NEW i \in 1 .. NumSaves(f)
        PROVE  LET in == d[q - 3 - NumSaves(f) + i]
               IN  in.i = "load" /\ in.d = f.saves[i] /\ in.n = SaveDisp(i - 1)
    <2> DEFINE p == q - 3 - NumSaves(f) + i
    <2>1. p \in 1 .. q
      BY <1>1
    <2>2. a.code[p].i = "load" /\ a.code[p].d = f.saves[i] /\ a.code[p].n = SaveDisp(i - 1)
      BY DEF HasEpilogue
    <2> HIDE DEF p
    <2>3. d[p] = a.code[p]
      BY <1>2, <2>1, <2>2
    <2> QED
      BY <2>2, <2>3 DEF p
  <1> QED
    BY <1>1, <1>3, <1>4 DEF HasEpilogue

(* So what is finished is a function. *)
LEMMA FinishedIsFunction ==
    ASSUME NEW f, IsShell(f), NEW a, Sound(a, f), Unbound(a) = {}, Closed(a),
           NEW d, IsFinal(a, d)
    PROVE  IsFunction(d, FunctionAt(d, 1))
  <1> DEFINE g == FunctionAt(d, 1)
             L == Len(d)
             k == NumSaves(f)
  <1>1. /\ L = Len(a.code) /\ L \in Nat /\ k \in Nat /\ f.body = k + 4 /\ f.body <= L
        /\ f.entry = 1 /\ HasPrologue(a.code, f)
    BY SoundNumbers, ClosedBody DEF IsFinal, Sound, IsShell
  <1>2. Starts(d) = {1}
    BY FunctionFound
  <1>3. g.entry = 1 /\ g.body = f.body /\ g.last = L /\ g.frame = f.frame /\ g.saves = f.saves
    BY FunctionFound
  <1> HIDE DEF g
  <1>4. Ends(f, g) /\ BodyOf(g) = f.body .. L
    BY <1>3 DEF Ends, BodyOf
  <1>5. /\ NumSaves(g) = k /\ Free(g) = Free(f)
        /\ \A in : WritesRegisters(f, in) => WritesRegisters(g, in)
        /\ \A in : WritesFrame(f, in) => WritesFrame(g, in)
        /\ \A c, q : HasEpilogue(c, f, q) => HasEpilogue(c, g, q)
    BY <1>4, EndsAlike
  <1>6. HasPrologue(d, g)
    <2>1. f.frame \in Nat /\ f.frame % 16 = 0 /\ 8 * k <= f.frame
      BY DEF IsShell
    <2>2. d[1].i = "push_rbp" /\ d[2].i = "mov_rbp_rsp" /\ d[3].i = "sub_rsp" /\ d[3].n = f.frame
      <3>1. /\ a.code[1].i = "push_rbp" /\ a.code[2].i = "mov_rbp_rsp" /\ a.code[3].i = "sub_rsp"
            /\ a.code[3].n = f.frame
        <4>1. f.entry + 1 = 2 /\ f.entry + 2 = 3
          BY <1>1
        <4> QED
          BY <1>1, <4>1 DEF HasPrologue
      <3>2. 1 \in 1 .. L /\ 2 \in 1 .. L /\ 3 \in 1 .. L
        BY <1>1
      <3> QED
        BY <3>1, <3>2 DEF IsFinal
    <2>3. ASSUME NEW i \in 1 .. k
          PROVE  SavesRegister(d[3 + i]) /\ d[3 + i].s = f.saves[i] /\ d[3 + i].n = SaveDisp(i - 1)
      <3>1. 3 + i \in 1 .. L /\ f.entry + 2 + i = 3 + i
        BY <1>1
      <3>2. SavesRegister(a.code[3 + i]) /\ a.code[3 + i].s = f.saves[i] /\ a.code[3 + i].n = SaveDisp(i - 1)
        BY <1>1, <3>1 DEF HasPrologue
      <3>3. d[3 + i] = a.code[3 + i]
        BY <3>1, <3>2 DEF SavesRegister, IsFinal
      <3> QED
        BY <3>2, <3>3
    <2>4. g.entry + 1 = 2 /\ g.entry + 2 = 3
      BY <1>3
    <2> HIDE DEF k
    <2> QED
      BY <1>3, <1>5, <2>1, <2>2, <2>3, <2>4 DEF HasPrologue
  <1>7. ASSUME NEW p \in BodyOf(g)
        PROVE  \/ WritesRegisters(g, d[p]) \/ WritesFrame(g, d[p])
               \/ Goes(d, g, p) \/ Leaves(d, g, p)
    <2>1. p \in f.body .. Len(a.code) /\ p \in 1 .. L
      BY <1>1, <1>4
    <2>2. Fits(a, f, p)
      BY <2>1 DEF Sound
    <2>3. /\ d[p].i = a.code[p].i
          /\ a.code[p].i \notin {"jmp", "jcc", "mov_ri"} => d[p] = a.code[p]
          /\ a.code[p].i = "mov_ri" => d[p].d = a.code[p].d
          /\ a.code[p].i \in {"jmp", "jcc"} => d[p].n = a.labels[a.code[p].n] - p
      BY <2>1 DEF IsFinal
    <2>4. CASE Straightforward(f, a.code[p])
      <3>1. a.code[p].i \notin {"jmp", "jcc"}
        BY <2>4, StraightforwardIs
      <3>2. WritesRegisters(f, a.code[p]) \/ WritesFrame(f, a.code[p])
        BY <2>4 DEF Straightforward
      <3>3. CASE a.code[p].i = "mov_ri"
        <4>1. WritesRegisters(f, d[p])
          BY <2>3, <3>2, <3>3 DEF WritesRegisters, WritesFrame, RegisterOps
        <4> QED
          BY <1>5, <4>1
      <3>4. CASE a.code[p].i # "mov_ri"
        BY <1>5, <2>3, <3>1, <3>2, <3>4
      <3> QED
        BY <3>3, <3>4
    <2>5. CASE a.code[p].i \in {"jmp", "jcc"} /\ a.code[p].n \in 1 .. Len(a.labels)
      <3> DEFINE x == a.labels[a.code[p].n]
      <3>1. x # 0 /\ Reachable(a, f, x) /\ x <= L
        BY <1>1, <2>5 DEF Sound, Unbound, Closed
      <3>2. Open(d, g, x)
        <4> HIDE DEF x
        <4> QED
          BY <1>3, <1>4, <3>1, ReachableIsOpen
      <3>3. p + d[p].n = x
        <4>1. d[p].n = x - p
          BY <2>3, <2>5
        <4>2. x \in Int
          BY <1>1, <3>1 DEF Reachable
        <4> HIDE DEF x
        <4> QED
          BY <2>1, <4>1, <4>2
      <3> HIDE DEF x
      <3> QED
        BY <2>3, <2>5, <3>2, <3>3 DEF Goes
    <2>6. CASE a.code[p].i = "call" /\ p - 1 \in SitesOf(a)
      <3>1. p - 1 \in f.body .. Len(a.code) /\ OpensCall(a.code[p - 1])
        BY <2>6 DEF Sound
      <3>2. p - 1 \in 1 .. L /\ p > f.body
        <4>1. p \in Int /\ p <= L /\ f.body \in Nat /\ f.body >= 4 /\ p - 1 >= f.body
          BY <1>1, <2>1, <3>1
        <4> HIDE DEF L
        <4> QED
          BY <1>1, <4>1
      <3>3. d[p - 1].i = "mov_ri" /\ d[p - 1].d = "RAX" /\ d[p - 1].n = 1
        BY <2>6, <3>1, <3>2 DEF IsFinal, OpensCall
      <3> QED
        BY <1>2, <1>3, <2>3, <2>6, <3>2, <3>3 DEF Goes
    <2>7. CASE InEpilogue(a, f, p)
      <3>1. PICK q \in p .. p + 2 : q <= Len(a.code) /\ a.code[q].i = "ret" /\ HasEpilogue(a.code, f, q)
        BY <2>7 DEF InEpilogue
      <3>2. q \in 1 .. Len(a.code) /\ q \in BodyOf(g)
        BY <1>1, <1>4, <2>1, <3>1
      <3>3. HasEpilogue(d, g, q)
        BY <1>5, <3>1, <3>2, EpilogueIsFinal
      <3>4. d[q].i = "ret"
        BY <1>1, <3>1, <3>2 DEF IsFinal
      <3>5. CASE q = p
        BY <3>3, <3>4, <3>5 DEF Leaves
      <3>6. CASE q = p + 1
        <4>1. q - 1 = p
          BY <2>1, <3>6
        <4> QED
          BY <3>2, <3>3, <3>4, <3>6, <4>1 DEF Leaves, HasEpilogue
      <3>7. CASE q = p + 2
        <4>1. q - 2 = p
          BY <2>1, <3>7
        <4> QED
          BY <3>2, <3>3, <3>4, <3>7, <4>1 DEF Leaves, HasEpilogue
      <3> QED
        BY <2>1, <3>5, <3>6, <3>7
    <2> QED
      BY <2>2, <2>4, <2>5, <2>6, <2>7 DEF Fits
  <1>8. ASSUME NEW p \in BodyOf(g), d[p].i \notin {"jmp", "ret"} PROVE p < g.last
    <2>1. d[L].i \in {"jmp", "ret"}
      <3>1. L \in 1 .. L
        BY <1>1
      <3> QED
        BY <1>1, <3>1 DEF Closed, IsFinal
    <2>2. p # L
      BY <1>8, <2>1
    <2> QED
      BY <1>1, <1>3, <1>4, <2>2
  <1>9. HasBody(d, g)
    BY <1>7, <1>8 DEF HasBody
  <1>10. /\ g.entry \in Nat \ {0} /\ g.body \in Nat /\ g.last \in Nat
         /\ g.entry + 3 <= g.body /\ g.body <= g.last
    BY <1>1, <1>3
  <1> QED
    BY <1>6, <1>9, <1>10 DEF IsFunction, g

(* The encoder hands over what the linker asks for. *)
LEMMA FinishedIsFunctionCode ==
    ASSUME NEW f, IsShell(f), NEW m, NEW a, Good(a, f, m, {}), Closed(a),
           NEW out, out.code = Finalize(a), out.relocs = a.relocs
    PROVE  FunctionCode(out)
  <1> DEFINE itself == [at \in Sites(out) |-> 1]
             d == Retargeted(out, itself)
             c == out.code
  <1>1. Sound(a, f) /\ Unbound(a) = {}
    BY DEF Good
  <1>2. /\ IsSeq(c) /\ Len(c) = Len(a.code) /\ DOMAIN c = 1 .. Len(c)
        /\ \A p \in 1 .. Len(c) :
              /\ c[p].i = a.code[p].i
              /\ a.code[p].i \notin {"jmp", "jcc"} => c[p] = a.code[p]
              /\ a.code[p].i \in {"jmp", "jcc"} => c[p].n = a.labels[a.code[p].n] - p
    BY <1>1, FinalizeFacts
  <1>3. /\ IsFinal(a, d) /\ Sites(out) = SitesOf(a)
        /\ \A p \in Sites(out) : p \in DOMAIN out.code /\ OpensCall(out.code[p])
    BY <1>1, FinalFacts
  <1> HIDE DEF d
  <1>4. c \in Seq(Range(c))
    <2>1. c \in Seq({c[i] : i \in 1 .. Len(c)})
      BY <1>2, SeqOfMembers
    <2> QED
      BY <1>2, <2>1 DEF Range
  <1>5. Starts(c) = {1}
    BY <1>1, <1>2, OneStart
  <1>6. \A p \in Sites(out) : p \in DOMAIN c /\ c[p].i = "mov_ri" /\ IsInstruction(c[p])
    BY <1>3 DEF OpensCall
  <1>7. ASSUME NEW p \in DOMAIN c, c[p].i = "call" PROVE p - 1 \in Sites(out)
    <2>1. p \in 1 .. Len(a.code) /\ a.code[p].i = "call"
      BY <1>2, <1>7
    <2>2. ~Straightforward(f, a.code[p])
      BY <2>1, StraightforwardIs
    <2>3. p \in f.body .. Len(a.code)
      BY <1>1, <2>1, PlaceKinds
    <2>4. Fits(a, f, p)
      BY <1>1, <2>3 DEF Sound
    <2>5. ~InEpilogue(a, f, p)
      <3> SUFFICES ASSUME InEpilogue(a, f, p) PROVE FALSE
        OBVIOUS
      <3>1. PICK q \in p .. p + 2 : a.code[q].i = "ret" /\ HasEpilogue(a.code, f, q)
        BY DEF InEpilogue
      <3>2. q = p \/ q - 1 = p \/ q - 2 = p
        BY <2>1
      <3> QED
        BY <2>1, <3>1, <3>2 DEF HasEpilogue
    <2> QED
      BY <1>3, <2>1, <2>2, <2>4, <2>5 DEF Fits
  <1>9. ASSUME NEW p \in DOMAIN c, c[p].i \in {"jmp", "jcc"} PROVE c[p].n \in Int
    <2>1. p \in 1 .. Len(a.code) /\ a.code[p].i \in {"jmp", "jcc"} /\ c[p].n = a.labels[a.code[p].n] - p
      BY <1>2, <1>9
    <2>2. p \in f.body .. Len(a.code) /\ ~Straightforward(f, a.code[p])
      BY <1>1, <2>1, PlaceKinds, StraightforwardIs
    <2>3. Fits(a, f, p) /\ ~InEpilogue(a, f, p)
      <3>1. Fits(a, f, p)
        BY <1>1, <2>2 DEF Sound
      <3>2. ASSUME NEW q \in p .. p + 2, a.code[q].i = "ret", HasEpilogue(a.code, f, q) PROVE FALSE
        <4>1. q = p \/ q - 1 = p \/ q - 2 = p
          BY <2>1
        <4> QED
          BY <2>1, <3>2, <4>1 DEF HasEpilogue
      <3> QED
        BY <3>1, <3>2 DEF InEpilogue
    <2>4. a.code[p].n \in 1 .. Len(a.labels)
      BY <2>1, <2>2, <2>3 DEF Fits
    <2>5. a.labels[a.code[p].n] # 0 /\ Reachable(a, f, a.labels[a.code[p].n])
      BY <1>1, <2>4 DEF Sound, Unbound
    <2> DEFINE x == a.labels[a.code[p].n]
    <2>6. x \in Int
      <3>1. f.body \in Nat /\ Len(a.code) \in Nat
        BY <1>1, SoundNumbers
      <3> QED
        BY <2>5, <3>1 DEF Reachable
    <2> HIDE DEF x
    <2>7. c[p].n = x - p
      BY <2>1 DEF x
    <2> QED
      BY <2>1, <2>6, <2>7
  <1>8. IsFunction(d, FunctionAt(d, 1))
    BY <1>1, <1>3, FinishedIsFunction
  <1> QED
    BY <1>4, <1>5, <1>6, <1>7, <1>8, <1>9 DEF FunctionCode, d

(* When it has encoded every block, what it finishes is a function.         *)
LEMMA EncoderEnds ==
    ASSUME NEW blocks, NEW al, Allocated(blocks, al),
           NEW e, EncoderInv(blocks, al, e), Encoded(e, blocks),
           NEW out, out.code = Finalize(e.a), out.relocs = e.a.relocs
    PROVE  FunctionCode(out)
  <1> DEFINE n == Len(blocks)
             k == MaxStackArgs(blocks)
             f == ShellOf(al, k)
  <1>1. n \in Nat /\ Houses(f, al, k)
    BY AllocatedFacts
  <1>2. e.block > n /\ e.block \in 1 .. n + 1
    BY DEF EncoderInv, Encoded
  <1>3. Closed(e.a)
    BY <1>2 DEF EncoderInv
  <1>4. PICK m \in Nat : Encoding(f, al, k, m, e.block + 1 .. n, e.a)
    BY DEF EncoderInv
  <1>5. e.block + 1 .. n = {}
    <2> HIDE DEF n
    <2> QED
      BY <1>1, <1>2
  <1> HIDE DEF n, k, f
  <1>6. IsShell(f) /\ Good(e.a, f, m, {})
    BY <1>4, <1>5 DEF Encoding, Houses
  <1> QED
    BY <1>3, <1>6, FinishedIsFunctionCode

-----------------------------------------------------------------------------
(* Linking. *)

(* The parts of the only function of the code.                              *)
IsOnly(c, f) ==
    /\ Len(c) \in Nat /\ f.entry = 1 /\ f.last = Len(c) /\ f.frame = c[3].n
    /\ f.body \in 4 .. Len(c) /\ ~SavesRegister(c[f.body])
    /\ \A p \in 4 .. f.body - 1 : SavesRegister(c[p])
    /\ f.saves = [i \in 1 .. f.body - 4 |-> c[3 + i].s]

(* Where there is one function only, that is it.                            *)
LEMMA OnlyFunction ==
    ASSUME NEW c, IsSeq(c), Starts(c) = {1}, IsFunction(c, FunctionAt(c, 1))
    PROVE  IsOnly(c, FunctionAt(c, 1))
  <1> DEFINE L == Len(c)
             f == FunctionAt(c, 1)
             ends == {p \in 1 + 3 .. L : ~SavesRegister(c[p])}
             starts == {p \in Starts(c) : p > 1} \cup {L + 1}
  <1>1. L \in Nat
    BY DEF IsSeq
  <1>2. /\ f.entry = 1 /\ f.body = Min(ends \cup {L + 1}) /\ f.last = Min(starts) - 1
        /\ f.frame = c[1 + 2].n /\ f.saves = [i \in 1 .. f.body - 1 - 3 |-> c[1 + 2 + i].s]
    BY DEF FunctionAt
  <1>3. f.entry \in Nat /\ f.body \in Nat /\ f.last \in Nat /\ f.entry + 3 <= f.body /\ f.body <= f.last
    BY DEF IsFunction
  <1> HIDE DEF f
  <1>4. Min(starts) = L + 1
    <2>1. starts = {L + 1}
      OBVIOUS
    <2>2. {L + 1} \in SUBSET Int /\ L + 1 \in {L + 1} /\ \A y \in {L + 1} : L + 1 <= y
      BY <1>1
    <2>3. Min({L + 1}) = L + 1
      BY <2>2, LeastIs
    <2> QED
      BY <2>1, <2>3
  <1>5. f.last = L /\ f.body \in 4 .. L
    <2> HIDE DEF L, starts
    <2> QED
      BY <1>1, <1>2, <1>3, <1>4
  <1>6. f.body \in ends /\ \A y \in ends : f.body <= y
    <2> DEFINE S == ends \cup {L + 1}
    <2>1. S \in SUBSET Nat /\ L + 1 \in S
      BY <1>1
    <2> HIDE DEF S
    <2>2. PICK m \in S : \A y \in S : m <= y
      BY <2>1, LeastElement
    <2>3. Min(S) = m
      <3>1. S \in SUBSET Int
        BY <2>1
      <3> QED
        BY <2>2, <3>1, LeastIs
    <2>4. f.body = m
      BY <1>2, <2>3 DEF S
    <2>5. f.body \in S /\ \A y \in S : f.body <= y
      BY <2>2, <2>4
    <2>6. f.body # L + 1
      BY <1>1, <1>5
    <2> QED
      BY <2>5, <2>6 DEF S
  <1>7. ASSUME NEW p \in 4 .. f.body - 1 PROVE SavesRegister(c[p])
    <2> SUFFICES ASSUME ~SavesRegister(c[p]) PROVE FALSE
      OBVIOUS
    <2>1. p \in 1 + 3 .. L /\ ~(f.body <= p)
      BY <1>1, <1>5
    <2> QED
      BY <1>6, <2>1
  <1>8. f.saves = [i \in 1 .. f.body - 4 |-> c[3 + i].s]
    <2>1. f.body - 1 - 3 = f.body - 4 /\ 1 + 2 = 3
      BY <1>5
    <2> QED
      BY <1>2, <2>1
  <1> QED
    BY <1>1, <1>2, <1>5, <1>6, <1>7, <1>8 DEF IsOnly, f

(* The code c stands in the image from place o + 1 on, with its calls led   *)
(* to functions of the image.                                               *)
StandsAt(c, im, o) ==
    /\ o \in Nat /\ Len(im) \in Nat /\ o + Len(c) <= Len(im)
    /\ o + Len(c) = Len(im) \/ o + Len(c) + 1 \in Starts(im)
    /\ \A p \in 1 .. Len(c) :
          /\ \/ im[o + p] = c[p]
             \/ c[p].i = "mov_ri" /\ im[o + p].i = "mov_ri" /\ im[o + p].d = c[p].d
          /\ c[p].i = "call" => im[o + p - 1].n \in Starts(im)
          /\ c[p].i \in {"jmp", "jcc"} => c[p].n \in Int

(* The function that is found there. *)
LEMMA FunctionStands ==
    ASSUME NEW c, IsSeq(c), Starts(c) = {1}, IsFunction(c, FunctionAt(c, 1)),
           NEW im, NEW o, StandsAt(c, im, o)
    PROVE  LET f == FunctionAt(c, 1)
           IN  FunctionAt(im, o + 1) = [entry |-> o + 1, body |-> o + f.body, last |-> o + f.last,
                                        frame |-> f.frame, saves |-> f.saves]
  <1> DEFINE L == Len(c)
             M == Len(im)
             f == FunctionAt(c, 1)
             b == f.body
             e == o + 1
             ends == {p \in e + 3 .. M : ~SavesRegister(im[p])}
             body == Min(ends \cup {M + 1})
             starts == {p \in Starts(im) : p > e} \cup {M + 1}
  <1>1. /\ L \in Nat /\ f.entry = 1 /\ f.last = L /\ f.frame = c[3].n /\ b \in 4 .. L
        /\ ~SavesRegister(c[b]) /\ \A p \in 4 .. b - 1 : SavesRegister(c[p])
        /\ f.saves = [i \in 1 .. b - 4 |-> c[3 + i].s]
    BY OnlyFunction DEF IsOnly
  <1>2. /\ o \in Nat /\ M \in Nat /\ o + L <= M
        /\ o + L = M \/ o + L + 1 \in Starts(im)
        /\ \A p \in 1 .. L : c[p].i # "mov_ri" => im[o + p] = c[p]
        /\ \A p \in 1 .. L : im[o + p].i = c[p].i
    BY DEF StandsAt
  <1>3. c[3].i = "sub_rsp"
    <2>1. f.entry + 2 = 3
      BY <1>1
    <2> QED
      BY <2>1 DEF IsFunction, HasPrologue
  <1>4. FunctionAt(im, e) = [entry |-> e, body |-> body, last |-> Min(starts) - 1, frame |-> im[e + 2].n,
                             saves |-> [i \in 1 .. body - e - 3 |-> im[e + 2 + i].s]]
    BY DEF FunctionAt
  <1> HIDE DEF f
  <1>5. body = o + b
    <2> DEFINE S == ends \cup {M + 1}
    <2>1. S \in SUBSET Int /\ o + b \in Int
      BY <1>1, <1>2
    <2>2. o + b \in S
      <3>1. b \in 1 .. L /\ im[o + b].i = c[b].i
        BY <1>1, <1>2
      <3>2. ~SavesRegister(im[o + b])
        BY <1>1, <1>2, <3>1 DEF SavesRegister
      <3>3. o + b \in e + 3 .. M
        BY <1>1, <1>2
      <3> QED
        BY <3>2, <3>3
    <2>3. ASSUME NEW y \in S PROVE o + b <= y
      <3>1. CASE y = M + 1
        BY <1>1, <1>2, <3>1
      <3>2. CASE y \in ends
        <4> SUFFICES ASSUME y < o + b PROVE FALSE
          BY <1>1, <1>2, <3>2
        <4>1. y - o \in 4 .. b - 1 /\ y - o \in 1 .. L /\ o + (y - o) = y
          BY <1>1, <1>2, <3>2
        <4>2. SavesRegister(c[y - o])
          BY <1>1, <4>1
        <4>3. im[y] = c[y - o]
          BY <1>2, <4>1, <4>2 DEF SavesRegister
        <4> QED
          BY <3>2, <4>2, <4>3
      <3> QED
        BY <3>1, <3>2
    <2> HIDE DEF S
    <2>4. Min(S) = o + b
      BY <2>1, <2>2, <2>3, LeastIs
    <2> QED
      BY <2>4 DEF S
  <1>6. Min(starts) = o + L + 1
    <2> DEFINE x == o + L + 1
    <2>1. x \in starts
      <3>1. x > e
        BY <1>1, <1>2
      <3>2. CASE o + L = M
        BY <3>2
      <3>3. CASE x \in Starts(im)
        BY <3>1, <3>3
      <3> QED
        BY <1>2, <3>2, <3>3
    <2>2. starts \in SUBSET Int
      BY <1>2 DEF Starts
    <2>3. ASSUME NEW y \in starts PROVE x <= y
      <3>1. CASE y = M + 1
        BY <1>1, <1>2, <3>1
      <3>2. CASE y \in Starts(im) /\ y > e
        <4> SUFFICES ASSUME y < x PROVE FALSE
          BY <1>1, <1>2, <3>2 DEF Starts
        <4>1. y \in 1 .. M /\ im[y].i = "push_rbp"
          BY <3>2 DEF Starts
        <4>2. y - o \in 1 .. L /\ y - o # 1 /\ o + (y - o) = y
          BY <1>1, <1>2, <3>2, <4>1
        <4>3. c[y - o].i = "push_rbp"
          BY <1>2, <4>1, <4>2
        <4> QED
          BY <4>2, <4>3 DEF Starts
      <3> QED
        BY <3>1, <3>2
    <2> HIDE DEF starts, x
    <2>4. Min(starts) = x
      BY <2>1, <2>2, <2>3, LeastIs
    <2> QED
      BY <2>4 DEF x
  <1>7. im[e + 2].n = f.frame
    <2>1. e + 2 = o + 3 /\ 3 \in 1 .. L
      BY <1>1, <1>2
    <2>2. im[o + 3] = c[3]
      BY <1>2, <1>3, <2>1
    <2> QED
      BY <1>1, <2>1, <2>2
  <1>8. [i \in 1 .. (o + b) - e - 3 |-> im[e + 2 + i].s] = f.saves
    <2>1. (o + b) - e - 3 = b - 4
      BY <1>1, <1>2
    <2>2. ASSUME NEW i \in 1 .. b - 4 PROVE im[e + 2 + i].s = c[3 + i].s
      <3>1. e + 2 + i = o + (3 + i) /\ 3 + i \in 4 .. b - 1 /\ 3 + i \in 1 .. L
        <4>1. o \in Nat /\ L \in Nat /\ b \in 4 .. L
          BY <1>1, <1>2
        <4> HIDE DEF L, b
        <4> QED
          BY <4>1
      <3>2. SavesRegister(c[3 + i])
        BY <1>1, <3>1
      <3>3. im[o + (3 + i)] = c[3 + i]
        BY <1>2, <3>1, <3>2 DEF SavesRegister
      <3> QED
        BY <3>1, <3>3
    <2> QED
      BY <1>1, <2>1, <2>2
  <1>9. (o + L + 1) - 1 = o + f.last
    BY <1>1, <1>2
  <1> HIDE DEF body, starts, e, b
  <1> QED
    BY <1>4, <1>5, <1>6, <1>7, <1>8, <1>9 DEF f, b, e

(* Places moved from code with the entry 1 to one with the entry o + 1.     *)
IsMoved(c, im, o, f, g) ==
    /\ g.entry = o + 1 /\ g.body = o + f.body /\ g.last = o + f.last
    /\ g.frame = f.frame /\ g.saves = f.saves
    /\ IsOnly(c, f) /\ StandsAt(c, im, o)

(* The numbers of a function that is moved.                                 *)
LEMMA MovedNumbers ==
    ASSUME NEW c, NEW im, NEW o, NEW f, NEW g, IsMoved(c, im, o, f, g)
    PROVE  /\ o \in Nat /\ Len(c) \in Nat /\ f.body \in 4 .. Len(c) /\ f.last = Len(c)
           /\ f.entry = 1 /\ NumSaves(f) = f.body - 4 /\ NumSaves(f) \in Nat
           /\ NumSaves(g) = NumSaves(f) /\ Free(g) = Free(f)
  <1>1. /\ o \in Nat /\ Len(c) \in Nat /\ f.body \in 4 .. Len(c) /\ f.last = Len(c) /\ f.entry = 1
        /\ g.entry = o + 1 /\ g.body = o + f.body /\ g.saves = f.saves
    BY DEF IsMoved, IsOnly, StandsAt
  <1>2. NumSaves(f) = f.body - 4 /\ NumSaves(g) = f.body - 4
    <2> DEFINE L == Len(c)
    <2> HIDE DEF L
    <2>1. f.body \in 4 .. L /\ L \in Nat
      BY <1>1 DEF L
    <2> QED
      BY <1>1, <2>1 DEF NumSaves
  <1>3. f.body - 4 \in Nat
    BY <1>1
  <1> QED
    BY <1>1, <1>2, <1>3 DEF Free

(* Its prologue moves with it,                                              *)
LEMMA PrologueMoved ==
    ASSUME NEW c, NEW im, NEW o, NEW f, NEW g, IsMoved(c, im, o, f, g), HasPrologue(c, f)
    PROVE  HasPrologue(im, g)
  <1> DEFINE k == NumSaves(f)
  <1>1. /\ o \in Nat /\ Len(c) \in Nat /\ f.body \in 4 .. Len(c)
        /\ f.entry = 1 /\ k = f.body - 4 /\ k \in Nat /\ NumSaves(g) = k
        /\ g.entry = o + 1 /\ g.frame = f.frame /\ g.saves = f.saves
    BY MovedNumbers DEF IsMoved
  <1>2. \A p \in 1 .. Len(c) : c[p].i # "mov_ri" => im[o + p] = c[p]
    BY DEF IsMoved, StandsAt
  <1>3. /\ 1 \in 1 .. Len(c) /\ 2 \in 1 .. Len(c) /\ 3 \in 1 .. Len(c)
        /\ g.entry + 1 = o + 2 /\ g.entry + 2 = o + 3
    BY <1>1
  <1>4. /\ c[1].i = "push_rbp" /\ c[2].i = "mov_rbp_rsp" /\ c[3].i = "sub_rsp" /\ c[3].n = f.frame
        /\ f.frame \in Nat /\ f.frame % 16 = 0 /\ 8 * k <= f.frame
    <2>1. f.entry + 1 = 2 /\ f.entry + 2 = 3
      BY <1>1
    <2> QED
      BY <1>1, <2>1 DEF HasPrologue
  <1>5. im[o + 1] = c[1] /\ im[o + 2] = c[2] /\ im[o + 3] = c[3]
    BY <1>2, <1>3, <1>4
  <1>6. ASSUME NEW i \in 1 .. k
        PROVE  LET in == im[g.entry + 2 + i]
               IN  SavesRegister(in) /\ in.s = g.saves[i] /\ in.n = SaveDisp(i - 1)
    <2>1. f.entry + 2 + i = 3 + i /\ g.entry + 2 + i = o + (3 + i) /\ 3 + i \in 1 .. Len(c)
      <3> DEFINE L == Len(c)
      <3>1. o \in Nat /\ L \in Nat /\ f.body \in 4 .. L /\ k = f.body - 4 /\ g.entry = o + 1 /\ f.entry = 1
        BY <1>1
      <3> HIDE DEF L, k
      <3>2. f.entry + 2 + i = 3 + i /\ g.entry + 2 + i = o + (3 + i) /\ 3 + i \in 1 .. L
        BY <3>1
      <3> QED
        BY <3>2 DEF L
    <2>2. SavesRegister(c[3 + i]) /\ c[3 + i].s = f.saves[i] /\ c[3 + i].n = SaveDisp(i - 1)
      BY <2>1 DEF HasPrologue
    <2>3. im[o + (3 + i)] = c[3 + i]
      BY <1>2, <2>1, <2>2 DEF SavesRegister
    <2> QED
      BY <1>1, <2>1, <2>2, <2>3
  <1> HIDE DEF k
  <1> QED
    BY <1>1, <1>3, <1>4, <1>5, <1>6 DEF HasPrologue

(* Where the instructions of an epilogue that ends at q are.                *)
LEMMA EpiloguePlaces ==
    ASSUME NEW o \in Nat, NEW L \in Nat, NEW b \in 4 .. L, NEW k \in Nat,
           NEW q \in 1 .. L, b <= q - 2 - k
    PROVE  /\ q - 2 \in 1 .. L /\ q - 1 \in 1 .. L
           /\ (o + q) - 2 = o + (q - 2) /\ (o + q) - 1 = o + (q - 1)
           /\ o + b <= (o + q) - 2 - k
           /\ \A i \in 1 .. k : /\ q - 3 - k + i \in 1 .. L
                                /\ (o + q) - 3 - k + i = o + (q - 3 - k + i)
  OBVIOUS

(* so do its epilogues,                                                     *)
LEMMA EpilogueMoved ==
    ASSUME NEW c, NEW im, NEW o, NEW f, NEW g, IsMoved(c, im, o, f, g),
           NEW q \in 1 .. Len(c), HasEpilogue(c, f, q)
    PROVE  HasEpilogue(im, g, o + q)
  <1> DEFINE k == NumSaves(f)
             L == Len(c)
  <1>1. /\ o \in Nat /\ L \in Nat /\ f.body \in 4 .. L /\ k = f.body - 4 /\ k \in Nat
        /\ NumSaves(g) = k /\ g.body = o + f.body /\ g.saves = f.saves
    BY MovedNumbers DEF IsMoved
  <1>2. \A p \in 1 .. L : c[p].i # "mov_ri" => im[o + p] = c[p]
    BY DEF IsMoved, StandsAt
  <1>3. f.body <= q - 2 - k /\ c[q - 2].i = "mov_rsp_rbp" /\ c[q - 1].i = "pop_rbp"
    BY DEF HasEpilogue
  <1>4. q \in 1 .. L
    OBVIOUS
  <1>8. /\ q - 2 \in 1 .. L /\ q - 1 \in 1 .. L
        /\ (o + q) - 2 = o + (q - 2) /\ (o + q) - 1 = o + (q - 1)
        /\ o + f.body <= (o + q) - 2 - k
        /\ \A i \in 1 .. k : /\ q - 3 - k + i \in 1 .. L
                             /\ (o + q) - 3 - k + i = o + (q - 3 - k + i)
    <2> HIDE DEF k, L
    <2>1. o \in Nat /\ L \in Nat /\ f.body \in 4 .. L /\ k \in Nat /\ q \in 1 .. L /\ f.body <= q - 2 - k
      BY <1>1, <1>3, <1>4
    <2> QED
      BY <2>1, EpiloguePlaces
  <1>5. ASSUME NEW i \in 1 .. k
        PROVE  LET in == im[(o + q) - 3 - k + i]
               IN  in.i = "load" /\ in.d = g.saves[i] /\ in.n = SaveDisp(i - 1)
    <2> DEFINE p == q - 3 - k + i
    <2>1. c[p].i = "load" /\ c[p].d = f.saves[i] /\ c[p].n = SaveDisp(i - 1)
      BY DEF HasEpilogue
    <2>2. p \in 1 .. L /\ (o + q) - 3 - k + i = o + p
      <3> HIDE DEF k, L
      <3> QED
        BY <1>8
    <2> HIDE DEF p, k, L
    <2>3. im[o + p] = c[p]
      BY <1>2, <2>1, <2>2
    <2> QED
      BY <1>1, <2>1, <2>2, <2>3
  <1> HIDE DEF k, L
  <1>6. /\ q - 2 \in 1 .. L /\ q - 1 \in 1 .. L /\ (o + q) - 2 = o + (q - 2) /\ (o + q) - 1 = o + (q - 1)
        /\ g.body <= (o + q) - 2 - k
    BY <1>1, <1>8
  <1>7. im[(o + q) - 2].i = "mov_rsp_rbp" /\ im[(o + q) - 1].i = "pop_rbp"
    BY <1>2, <1>3, <1>6
  <1> QED
    BY <1>1, <1>5, <1>6, <1>7 DEF HasEpilogue

(* the places that may be jumped to,                                        *)
LEMMA OpenMoved ==
    ASSUME NEW c, NEW im, NEW o, NEW f, NEW g, IsMoved(c, im, o, f, g), NEW p, Open(c, f, p)
    PROVE  Open(im, g, o + p)
  <1> DEFINE k == NumSaves(f)
             L == Len(c)
  <1>1. /\ o \in Nat /\ L \in Nat /\ f.body \in 4 .. L /\ k \in Nat /\ f.last = L
        /\ NumSaves(g) = k /\ g.body = o + f.body /\ g.last = o + L
    BY MovedNumbers DEF IsMoved
  <1>2. \A x \in 1 .. L : im[o + x].i = c[x].i
    BY DEF IsMoved, StandsAt
  <1>3. /\ p \in f.body .. L /\ c[p].i # "call"
        /\ \A q \in f.body .. L : c[q].i = "ret" => p \notin q - 1 - k .. q
    BY <1>1 DEF Open, BodyOf
  <1> HIDE DEF k, L
  <1>4. o + p \in g.body .. g.last /\ im[o + p].i # "call"
    <2>1. p \in 1 .. L
      BY <1>1, <1>3
    <2> QED
      BY <1>1, <1>2, <1>3, <2>1
  <1>5. ASSUME NEW q \in g.body .. g.last, im[q].i = "ret" PROVE o + p \notin q - 1 - k .. q
    <2>1. q - o \in f.body .. L /\ q - o \in 1 .. L /\ o + (q - o) = q
      BY <1>1
    <2>2. p \notin (q - o) - 1 - k .. q - o
      BY <1>2, <1>3, <1>5, <2>1
    <2> QED
      BY <1>1, <1>3, <2>1, <2>2
  <1> QED
    BY <1>1, <1>4, <1>5 DEF Open, BodyOf

(* its jumps and calls,                                                     *)
LEMMA GoesMoved ==
    ASSUME NEW c, NEW im, NEW o, NEW f, NEW g, IsMoved(c, im, o, f, g),
           NEW p \in 1 .. Len(c), Goes(c, f, p)
    PROVE  Goes(im, g, o + p)
  <1> DEFINE L == Len(c)
  <1>1. /\ o \in Nat /\ L \in Nat /\ f.body \in 4 .. L /\ g.body = o + f.body
    BY MovedNumbers DEF IsMoved
  <1>2. ASSUME NEW x \in 1 .. L
        PROVE  /\ c[x].i # "mov_ri" => im[o + x] = c[x]
               /\ c[x].i = "mov_ri" /\ c[x].d = "RAX" => im[o + x].i = "mov_ri" /\ im[o + x].d = "RAX"
               /\ c[x].i = "call" => im[o + x - 1].n \in Starts(im)
               /\ c[x].i \in {"jmp", "jcc"} => c[x].n \in Int
    BY DEF IsMoved, StandsAt
  <1>3. p \in 1 .. L
    OBVIOUS
  <1>4. CASE c[p].i \in {"jmp", "jcc"} /\ Open(c, f, p + c[p].n)
    <2>1. im[o + p] = c[p] /\ c[p].n \in Int
      BY <1>2, <1>3, <1>4
    <2>2. Open(im, g, o + (p + c[p].n))
      BY <1>4, OpenMoved
    <2> HIDE DEF L
    <2>3. o + (p + c[p].n) = (o + p) + c[p].n
      <3> DEFINE d == c[p].n
      <3>1. d \in Int /\ p \in Int /\ o \in Int
        BY <1>1, <1>3, <2>1
      <3> HIDE DEF d
      <3>2. o + (p + d) = (o + p) + d
        BY <3>1
      <3> QED
        BY <3>2 DEF d
    <2> QED
      BY <1>4, <2>1, <2>2, <2>3 DEF Goes
  <1>5. CASE /\ c[p].i = "call" /\ p > f.body
             /\ c[p - 1].i = "mov_ri" /\ c[p - 1].d = "RAX"
    <2> HIDE DEF L
    <2>1. p - 1 \in 1 .. L /\ o + (p - 1) = (o + p) - 1 /\ o + p > g.body
      BY <1>1, <1>3, <1>5
    <2>2. im[o + p] = c[p] /\ im[o + p - 1].n \in Starts(im)
      BY <1>2, <1>3, <1>5
    <2>3. im[o + (p - 1)].i = "mov_ri" /\ im[o + (p - 1)].d = "RAX"
      BY <1>2, <1>5, <2>1
    <2> QED
      BY <1>5, <2>1, <2>2, <2>3 DEF Goes
  <1> QED
    BY <1>4, <1>5 DEF Goes

(* and the instructions that leave it.                                      *)
LEMMA LeavesMoved ==
    ASSUME NEW c, NEW im, NEW o, NEW f, NEW g, IsMoved(c, im, o, f, g),
           NEW p \in f.body .. Len(c), Leaves(c, f, p)
    PROVE  Leaves(im, g, o + p)
  <1> DEFINE L == Len(c)
  <1>1. /\ o \in Nat /\ L \in Nat /\ f.body \in 4 .. L /\ f.last = L
        /\ g.body = o + f.body /\ g.last = o + L
    BY MovedNumbers DEF IsMoved
  <1>2. \A x \in 1 .. L : im[o + x].i = c[x].i
    BY DEF IsMoved, StandsAt
  <1>3. p \in f.body .. L
    OBVIOUS
  <1>4. p \in 1 .. L
    <2> HIDE DEF L
    <2> QED
      BY <1>1, <1>3
  <1>5. CASE c[p].i = "mov_rsp_rbp" /\ p + 2 \in BodyOf(f) /\ c[p + 2].i = "ret"
    <2>1. p + 2 \in f.body .. L
      BY <1>1, <1>5 DEF BodyOf
    <2> HIDE DEF L
    <2>2. p + 2 \in 1 .. L /\ o + (p + 2) = (o + p) + 2 /\ o + (p + 2) \in g.body .. g.last
      BY <1>1, <1>3, <2>1
    <2> QED
      BY <1>2, <1>4, <1>5, <2>2 DEF Leaves, BodyOf
  <1>6. CASE c[p].i = "pop_rbp" /\ p + 1 \in BodyOf(f) /\ c[p + 1].i = "ret"
    <2>1. p + 1 \in f.body .. L
      BY <1>1, <1>6 DEF BodyOf
    <2> HIDE DEF L
    <2>2. p + 1 \in 1 .. L /\ o + (p + 1) = (o + p) + 1 /\ o + (p + 1) \in g.body .. g.last
      BY <1>1, <1>3, <2>1
    <2> QED
      BY <1>2, <1>4, <1>6, <2>2 DEF Leaves, BodyOf
  <1>7. CASE c[p].i = "ret" /\ HasEpilogue(c, f, p)
    <2>1. HasEpilogue(im, g, o + p)
      BY <1>4, <1>7, EpilogueMoved
    <2>2. im[o + p].i = "ret"
      BY <1>2, <1>4, <1>7
    <2> QED
      BY <2>1, <2>2 DEF Leaves
  <1> QED
    BY <1>5, <1>6, <1>7 DEF Leaves

(* So its body is one where it is moved to.                                 *)
LEMMA BodyMoved ==
    ASSUME NEW c, NEW im, NEW o, NEW f, NEW g, IsMoved(c, im, o, f, g), HasBody(c, f)
    PROVE  HasBody(im, g)
  <1> DEFINE L == Len(c)
  <1>1. /\ o \in Nat /\ L \in Nat /\ f.body \in 4 .. L /\ f.last = L
        /\ g.body = o + f.body /\ g.last = o + L
        /\ NumSaves(g) = NumSaves(f) /\ Free(g) = Free(f) /\ g.frame = f.frame
    BY MovedNumbers DEF IsMoved
  <1>2. \A p \in 1 .. L : /\ im[o + p].i = c[p].i
                          /\ c[p].i # "mov_ri" => im[o + p] = c[p]
                          /\ c[p].i = "mov_ri" => im[o + p].d = c[p].d
    BY DEF IsMoved, StandsAt
  <1> SUFFICES ASSUME NEW x \in g.body .. g.last
               PROVE  /\ \/ WritesRegisters(g, im[x]) \/ WritesFrame(g, im[x])
                         \/ Goes(im, g, x) \/ Leaves(im, g, x)
                      /\ im[x].i \notin {"jmp", "ret"} => x < g.last
    BY DEF HasBody, BodyOf
  <1>3. PICK p \in f.body .. L : o + p = x
    <2> HIDE DEF L
    <2>1. x - o \in f.body .. L /\ o + (x - o) = x
      BY <1>1
    <2> QED
      BY <2>1
  <1>4. p \in 1 .. L /\ p \in Int
    <2> HIDE DEF L
    <2> QED
      BY <1>1, <1>3
  <1>5. /\ \/ WritesRegisters(f, c[p]) \/ WritesFrame(f, c[p])
           \/ Goes(c, f, p) \/ Leaves(c, f, p)
        /\ c[p].i \notin {"jmp", "ret"} => p < L
    BY <1>1, <1>3 DEF HasBody, BodyOf
  <1>6. im[x].i \notin {"jmp", "ret"} => x < g.last
    <2> HIDE DEF L
    <2> QED
      BY <1>1, <1>2, <1>3, <1>4, <1>5
  <1>7. CASE WritesRegisters(f, c[p])
    <2>1. CASE c[p].i = "mov_ri"
      <3>1. im[x].i \in RegisterOps /\ im[x].d \in Free(g)
        BY <1>1, <1>2, <1>3, <1>4, <1>7, <2>1 DEF WritesRegisters, RegisterOps
      <3> QED
        BY <1>6, <3>1 DEF WritesRegisters
    <2>2. CASE c[p].i # "mov_ri"
      <3>1. im[x] = c[p]
        BY <1>2, <1>3, <1>4, <2>2
      <3> QED
        BY <1>1, <1>6, <1>7, <3>1 DEF WritesRegisters
    <2> QED
      BY <2>1, <2>2
  <1>8. CASE WritesFrame(f, c[p])
    <2>1. im[x] = c[p]
      BY <1>2, <1>3, <1>4, <1>8 DEF WritesFrame
    <2> QED
      BY <1>1, <1>6, <1>8, <2>1 DEF WritesFrame
  <1>9. CASE Goes(c, f, p)
    BY <1>3, <1>4, <1>6, <1>9, GoesMoved
  <1>10. CASE Leaves(c, f, p)
    BY <1>3, <1>6, <1>10, LeavesMoved
  <1> QED
    BY <1>5, <1>7, <1>8, <1>9, <1>10

(* A function stays one where it is moved to.                               *)
LEMMA FunctionMoves ==
    ASSUME NEW c, IsSeq(c), Starts(c) = {1}, IsFunction(c, FunctionAt(c, 1)),
           NEW im, NEW o, StandsAt(c, im, o)
    PROVE  IsFunction(im, FunctionAt(im, o + 1))
  <1> DEFINE f == FunctionAt(c, 1)
             g == FunctionAt(im, o + 1)
  <1>1. g = [entry |-> o + 1, body |-> o + f.body, last |-> o + f.last,
             frame |-> f.frame, saves |-> f.saves]
    BY FunctionStands
  <1>2. IsOnly(c, f)
    BY OnlyFunction
  <1>3. HasPrologue(c, f) /\ HasBody(c, f)
    BY DEF IsFunction
  <1> HIDE DEF f, g
  <1>4. IsMoved(c, im, o, f, g)
    BY <1>1, <1>2 DEF IsMoved
  <1>5. HasPrologue(im, g) /\ HasBody(im, g)
    BY <1>3, <1>4, PrologueMoved, BodyMoved
  <1>6. /\ g.entry \in Nat \ {0} /\ g.body \in Nat /\ g.last \in Nat
        /\ g.entry + 3 <= g.body /\ g.body <= g.last
    <2> DEFINE L == Len(c)
    <2>1. /\ o \in Nat /\ L \in Nat /\ f.body \in 4 .. L
          /\ g.entry = o + 1 /\ g.body = o + f.body /\ g.last = o + L
      BY <1>4, MovedNumbers DEF IsMoved
    <2> HIDE DEF L
    <2> QED
      BY <2>1
  <1> QED
    BY <1>5, <1>6 DEF IsFunction, g

(* The code of a function with the calls at its sites led to the places at. *)
LedTo(out, at, d) == d = Retargeted(out, at)

Leads(out, at, d) ==
    /\ IsSeq(d) /\ Len(d) = Len(out.code) /\ Starts(d) = {1}
    /\ \A p \in 1 .. Len(d) :
          /\ d[p].i = out.code[p].i
          /\ IF p \in Sites(out)
             THEN d[p].i = "mov_ri" /\ d[p].d = out.code[p].d /\ d[p].n = at[p]
             ELSE d[p] = out.code[p]

(* Only the sites of its calls are written to.                              *)
LEMMA LedLeads ==
    ASSUME NEW out, FunctionCode(out), NEW at, NEW d, LedTo(out, at, d)
    PROVE  Leads(out, at, d)
  <1> DEFINE c == out.code
  <1>1. IsSeq(c) /\ DOMAIN c = 1 .. Len(c) /\ Len(c) \in Nat
    <2>1. c \in Seq(Range(c))
      BY DEF FunctionCode
    <2> QED
      BY <2>1, SeqIsSeq
  <1>2. \A p \in Sites(out) : p \in 1 .. Len(c) /\ c[p].i = "mov_ri" /\ IsInstruction(c[p])
    BY <1>1 DEF FunctionCode
  <1>3. d = [i \in 1 .. Len(c) |-> IF i \in Sites(out) THEN [c[i] EXCEPT !.n = at[i]] ELSE c[i]]
    BY <1>1 DEF LedTo, Retargeted
  <1>7. Starts(c) = {1}
    BY DEF FunctionCode
  <1> HIDE DEF c
  <1>4. IsSeq(d) /\ Len(d) = Len(c)
    <2>1. d = [i \in 1 .. Len(c) |-> d[i]]
      BY <1>3
    <2> QED
      BY <1>1, <2>1, ListIsSeq
  <1>5. ASSUME NEW p \in Sites(out)
        PROVE  d[p].i = c[p].i /\ d[p].i = "mov_ri" /\ d[p].d = c[p].d /\ d[p].n = at[p]
    <2>1. p \in 1 .. Len(c) /\ IsInstruction(c[p]) /\ c[p].i = "mov_ri"
      BY <1>2
    <2>2. d[p] = [c[p] EXCEPT !.n = at[p]]
      BY <1>3, <2>1
    <2> QED
      BY <2>1, <2>2, FieldWritten
  <1>6. ASSUME NEW p \in 1 .. Len(d), p \notin Sites(out) PROVE d[p] = c[p]
    BY <1>3, <1>4, <1>6
  <1>8. \A p \in 1 .. Len(d) : d[p].i = c[p].i
    BY <1>5, <1>6
  <1>9. Starts(d) = {1}
    BY <1>4, <1>7, <1>8 DEF Starts
  <1> QED
    BY <1>4, <1>5, <1>6, <1>8, <1>9 DEF Leads, c

(* The list s stands in the image from place o + 1 on.                      *)
HoldsAt(im, o, s) ==
    /\ o \in Nat /\ Len(s) \in Nat /\ Len(im) \in Nat /\ o + Len(s) <= Len(im)
    /\ \A q \in 1 .. Len(s) : im[o + q] = s[q]

(* By itself, and led to functions of an image that holds it.               *)
LEMMA LinkedFunction ==
    ASSUME NEW out, FunctionCode(out), NEW at, NEW d, LedTo(out, at, d),
           NEW im, NEW o, HoldsAt(im, o, d),
           o + Len(d) = Len(im) \/ o + Len(d) + 1 \in Starts(im),
           \A p \in Sites(out) : at[p] \in Starts(im)
    PROVE  IsFunction(im, FunctionAt(im, o + 1))
  <1> DEFINE one == [p \in Sites(out) |-> 1]
             c == Retargeted(out, one)
  <1>1. LedTo(out, one, c)
    BY DEF LedTo, Retargeted
  <1>2. IsFunction(c, FunctionAt(c, 1))
    BY DEF FunctionCode
  <1>3. /\ DOMAIN out.code = 1 .. Len(out.code) /\ Len(out.code) \in Nat
        /\ \A p \in Sites(out) : p \in DOMAIN out.code /\ out.code[p].i = "mov_ri"
        /\ \A p \in DOMAIN out.code :
              /\ out.code[p].i = "call" => p - 1 \in Sites(out)
              /\ out.code[p].i \in {"jmp", "jcc"} => out.code[p].n \in Int
    <2>1. out.code \in Seq(Range(out.code))
      BY DEF FunctionCode
    <2>2. DOMAIN out.code = 1 .. Len(out.code) /\ Len(out.code) \in Nat
      BY <2>1
    <2> QED
      BY <2>2 DEF FunctionCode
  <1> HIDE DEF c, one
  <1>4. Leads(out, one, c) /\ Leads(out, at, d)
    BY <1>1, LedLeads
  <1>5. Len(c) = Len(out.code) /\ Len(d) = Len(out.code) /\ IsSeq(c) /\ Starts(c) = {1}
    BY <1>4 DEF Leads
  <1>6. ASSUME NEW p \in 1 .. Len(c)
        PROVE  /\ \/ im[o + p] = c[p]
                  \/ c[p].i = "mov_ri" /\ im[o + p].i = "mov_ri" /\ im[o + p].d = c[p].d
               /\ c[p].i = "call" => im[o + p - 1].n \in Starts(im)
               /\ c[p].i \in {"jmp", "jcc"} => c[p].n \in Int
    <2>1. p \in 1 .. Len(d) /\ p \in DOMAIN out.code
      BY <1>3, <1>5
    <2>2. im[o + p] = d[p] /\ c[p].i = out.code[p].i
      BY <1>4, <2>1 DEF Leads, HoldsAt
    <2>3. \/ im[o + p] = c[p]
          \/ c[p].i = "mov_ri" /\ im[o + p].i = "mov_ri" /\ im[o + p].d = c[p].d
      BY <1>4, <2>1, <2>2 DEF Leads
    <2>4. ASSUME c[p].i = "call" PROVE im[o + p - 1].n \in Starts(im)
      <3>1. p - 1 \in Sites(out)
        BY <1>3, <2>1, <2>2, <2>4
      <3>2. p - 1 \in 1 .. Len(d)
        BY <1>3, <1>5, <3>1
      <3>3. d[p - 1].n = at[p - 1]
        BY <1>4, <3>1, <3>2 DEF Leads
      <3>4. o + (p - 1) = o + p - 1
        BY <2>1 DEF HoldsAt
      <3>5. im[o + (p - 1)] = d[p - 1]
        BY <3>2 DEF HoldsAt
      <3> QED
        BY <3>1, <3>3, <3>4, <3>5
    <2>5. ASSUME c[p].i \in {"jmp", "jcc"} PROVE c[p].n \in Int
      <3>1. p \notin Sites(out) /\ out.code[p].n \in Int
        BY <1>3, <2>1, <2>2, <2>5
      <3>2. c[p] = out.code[p]
        BY <1>4, <3>1 DEF Leads
      <3> QED
        BY <3>1, <3>2
    <2> QED
      BY <2>3, <2>4, <2>5
  <1>7. StandsAt(c, im, o)
    BY <1>5, <1>6 DEF StandsAt, HoldsAt
  <1> QED
    BY <1>2, <1>5, <1>7, FunctionMoves

(* Where the lists joined begin and end in what is joined.                  *)
LEMMA ListsStand ==
    ASSUME NEW n \in Nat, NEW ss, NEW h, Joined(ss, n, h), NEW i \in 1 .. n, Len(ss[i]) > 0
    PROVE  HoldsAt(h[n], Len(h[i - 1]), ss[i]) /\ Len(h[i]) = Len(h[i - 1]) + Len(ss[i])
  <1>1. /\ Len(h[i]) = Len(h[i - 1]) + Len(ss[i])
        /\ Len(h[i - 1]) \in Nat /\ Len(ss[i]) \in Nat
    <2>1. IsJoin(h[i - 1], ss[i], h[i])
      BY JoinedStep
    <2> QED
      BY <2>1 DEF IsJoin
  <1>2. Len(h[n]) \in Nat
    <2>1. n \in 0 .. n
      OBVIOUS
    <2> QED
      BY <2>1 DEF Joined, IsSeq
  <1>3. n \in i .. n
    OBVIOUS
  <1>4. ASSUME NEW q \in 1 .. Len(ss[i])
        PROVE  Len(h[i - 1]) + q \in 1 .. Len(h[n]) /\ h[n][Len(h[i - 1]) + q] = ss[i][q]
    <2>1. IsAt(h[n], Len(h[i - 1]) + q, ss[i][q])
      BY <1>3, JoinedAt
    <2> QED
      BY <2>1 DEF IsAt
  <1>5. Len(h[i - 1]) + Len(ss[i]) <= Len(h[n])
    <2> DEFINE l == Len(ss[i])
               o == Len(h[i - 1])
               m == Len(h[n])
    <2>1. l \in 1 .. Len(ss[i])
      BY <1>1
    <2>2. o + l \in 1 .. m
      BY <1>4, <2>1
    <2> HIDE DEF o, l, m
    <2>3. o + l <= m
      BY <2>2
    <2> QED
      BY <2>3 DEF o, l, m
  <1> QED
    BY <1>1, <1>2, <1>4, <1>5 DEF HoldsAt

(* Each list begins one function, with its first instruction, *)
BeginsOne(ss, n) == \A i \in 1 .. n : Starts(ss[i]) = {1}

(* A function begins where each list does, and nowhere else.                *)
BeginsEach(h, n) ==
    /\ \A i \in 1 .. n : Len(h[i - 1]) + 1 \in Starts(h[n])
    /\ \A p \in Starts(h[n]) : \E i \in 1 .. n : p = Len(h[i - 1]) + 1

(* So it is, if each list begins one.                                        *)
LEMMA LinkedStarts ==
    ASSUME NEW n \in Nat, NEW ss, NEW h, Joined(ss, n, h), BeginsOne(ss, n)
    PROVE  BeginsEach(h, n)
  <1>1. ASSUME NEW i \in 1 .. n PROVE Len(h[i - 1]) + 1 \in Starts(h[n])
    <2>1. 1 \in 1 .. Len(ss[i]) /\ ss[i][1].i = "push_rbp"
      <3>1. 1 \in Starts(ss[i])
        BY DEF BeginsOne
      <3> QED
        BY <3>1 DEF Starts
    <2>2. n \in i .. n
      OBVIOUS
    <2>3. Len(h[i - 1]) + 1 \in 1 .. Len(h[n]) /\ h[n][Len(h[i - 1]) + 1] = ss[i][1]
      <3>1. IsAt(h[n], Len(h[i - 1]) + 1, ss[i][1])
        BY <2>1, <2>2, JoinedAt
      <3> QED
        BY <3>1 DEF IsAt
    <2> QED
      BY <2>1, <2>3 DEF Starts
  <1>2. ASSUME NEW p \in Starts(h[n]) PROVE \E i \in 1 .. n : p = Len(h[i - 1]) + 1
    <2>1. p \in 1 .. Len(h[n]) /\ h[n][p].i = "push_rbp" /\ n \in 0 .. n
      BY DEF Starts
    <2>2. PICK i \in 1 .. n : \E q \in 1 .. Len(ss[i]) : p = Len(h[i - 1]) + q /\ h[n][p] = ss[i][q]
      <3>1. ComesFrom(ss, h, n, p)
        BY <2>1, JoinedFrom
      <3> QED
        BY <3>1 DEF ComesFrom
    <2>3. PICK q \in 1 .. Len(ss[i]) : p = Len(h[i - 1]) + q /\ h[n][p] = ss[i][q]
      BY <2>2
    <2>4. q \in Starts(ss[i])
      BY <2>1, <2>3 DEF Starts
    <2>5. q = 1
      <3>1. Starts(ss[i]) = {1}
        BY DEF BeginsOne
      <3> QED
        BY <2>4, <3>1
    <2> QED
      BY <2>3, <2>5
  <1> QED
    BY <1>1, <1>2 DEF BeginsEach

(* Lists of the same lengths take the same room.                            *)
LEMMA SameRoom ==
    ASSUME NEW n \in Nat, NEW ss, NEW h, Joined(ss, n, h), NEW tt, NEW g, Joined(tt, n, g),
           \A i \in 1 .. n : Len(ss[i]) = Len(tt[i])
    PROVE  \A i \in 0 .. n : Len(h[i]) = Len(g[i])
  <1> DEFINE x == [i \in 0 .. n |-> Len(h[i])]
             y == [i \in 0 .. n |-> Len(g[i])]
  <1>1. x[0] = y[0]
    BY DEF Joined
  <1>2. ASSUME NEW i \in 0 + 1 .. n, x[i - 1] = y[i - 1] PROVE x[i] = y[i]
    <2>1. i \in 1 .. n /\ i \in 0 .. n /\ i - 1 \in 0 .. n
      OBVIOUS
    <2>2. Len(h[i]) = Len(h[i - 1]) + Len(ss[i]) /\ Len(g[i]) = Len(g[i - 1]) + Len(tt[i])
      <3>1. IsJoin(h[i - 1], ss[i], h[i]) /\ IsJoin(g[i - 1], tt[i], g[i])
        BY <2>1, JoinedStep
      <3> QED
        BY <3>1 DEF IsJoin
    <2> QED
      BY <1>2, <2>1, <2>2
  <1>3. AgreeUpTo(x, y, 0, n)
    <2> HIDE DEF x, y
    <2> QED
      BY <1>1, <1>2, Agreement
  <1> QED
    BY <1>3 DEF AgreeUpTo

(* The functions handed over so far. *)
Handed(s) == IsSeq(s) /\ \A i \in 1 .. Len(s) : FunctionCode(s[i])

(* Whatever function is called, the linker takes one that is there.         *)
LEMMA IndexIsThere ==
    ASSUME IsSeq(outs), Len(outs) > 0, NEW node
    PROVE  IndexOf(node) \in 1 .. Len(outs)
  <1> DEFINE n == Len(outs)
             at == {i \in DOMAIN outs : outs[i].node = node}
  <1>1. n \in Nat /\ n > 0 /\ DOMAIN outs = 1 .. n
    BY DEF IsSeq
  <1>2. IndexOf(node) = IF at = {} THEN 1 ELSE Max(at)
    BY DEF IndexOf
  <1>3. at \subseteq 1 .. n
    BY <1>1
  <1> HIDE DEF at, n
  <1>4. CASE at = {}
    BY <1>1, <1>2, <1>4 DEF n
  <1>5. CASE at # {}
    <2>1. at \in SUBSET (0 .. n)
      BY <1>1, <1>3
    <2>2. \E m \in at : \A x \in at : x <= m
      BY <1>1, <1>5, <2>1, GreatestElement
    <2>3. Max(at) \in at
      BY <2>2 DEF Max
    <2> QED
      BY <1>2, <1>3, <1>5, <2>3 DEF n
  <1> QED
    BY <1>4, <1>5

(* The image is code that can be run.                                       *)
LEMMA LinkedIsShaped ==
    ASSUME Handed(outs), Len(outs) > 0, NEW main,
           NEW im, im = FlattenSeq([i \in DOMAIN outs |-> Patched(outs[i])])
    PROVE  Shaped(im, Offset(IndexOf(main)) + 1)
  <1> DEFINE n == Len(outs)
             target(out, at) == (CHOOSE r \in Range(out.relocs) : r.at = at).target
             place(out) == [at \in Sites(out) |-> Offset(IndexOf(target(out, at))) + 1]
             At(i) == place(outs[i])
             ss == [i \in 1 .. n |-> Patched(outs[i])]
             tt == [i \in 1 .. n |-> outs[i].code]
  <1>1. IsSeq(outs) /\ n \in Nat /\ n > 0 /\ DOMAIN outs = 1 .. n
    BY DEF Handed, IsSeq
  <1>2. \A i \in 1 .. n : FunctionCode(outs[i])
    BY DEF Handed
  <1>3. ASSUME NEW i \in 1 .. n PROVE LedTo(outs[i], At(i), ss[i])
    <2> DEFINE out == outs[i]
    <2>1. Patched(out) = [p \in DOMAIN out.code |->
                            IF p \in Sites(out) THEN [out.code[p] EXCEPT !.n = place(out)[p]]
                            ELSE out.code[p]]
      BY DEF Patched, Retargeted
    <2>2. ss[i] = Patched(out)
      OBVIOUS
    <2> HIDE DEF place, out, ss
    <2>3. place(out) = At(i)
      BY DEF out
    <2>4. LedTo(out, place(out), ss[i])
      BY <2>1, <2>2 DEF LedTo, Retargeted
    <2> QED
      BY <2>3, <2>4 DEF out
  <1>4. ASSUME NEW i \in 1 .. n, NEW p \in Sites(outs[i])
        PROVE  \E j \in 1 .. n : At(i)[p] = Offset(j) + 1
    <2> HIDE DEF target
    <2>1. At(i)[p] = Offset(IndexOf(target(outs[i], p))) + 1
      OBVIOUS
    <2>2. IndexOf(target(outs[i], p)) \in 1 .. n
      BY <1>1, IndexIsThere
    <2> QED
      BY <2>1, <2>2
  <1>5. ASSUME NEW i \in 1 .. n
        PROVE  IsSeq(ss[i]) /\ Len(ss[i]) = Len(tt[i]) /\ Starts(ss[i]) = {1} /\ IsSeq(tt[i])
    <2> HIDE DEF At, ss
    <2>1. Leads(outs[i], At(i), ss[i])
      BY <1>2, <1>3, LedLeads
    <2>2. outs[i].code \in Seq(Range(outs[i].code))
      BY <1>2 DEF FunctionCode
    <2>3. IsSeq(outs[i].code)
      BY <2>2, SeqIsSeq
    <2> QED
      BY <2>1, <2>3 DEF Leads
  <1>6. im = FlattenSeq([j \in 1 .. n |-> ss[j]])
    BY <1>1
  <1>7. \A i \in 1 .. n : Offset(i) = Len(FlattenSeq([j \in 1 .. i - 1 |-> tt[j]]))
    <2>1. ASSUME NEW i \in 1 .. n PROVE Offset(i) = Len(FlattenSeq([j \in 1 .. i - 1 |-> tt[j]]))
      <3>1. \A j \in 1 .. i - 1 : j \in 1 .. n
        BY <1>1
      <3>2. [j \in 1 .. i - 1 |-> outs[j].code] = [j \in 1 .. i - 1 |-> tt[j]]
        BY <3>1
      <3> QED
        BY <3>2 DEF Offset
    <2> QED
      BY <2>1
  <1> HIDE DEF At, ss, tt, target, place
  <1>8. PICK h : Joined(ss, n, h)
    BY <1>1, <1>5, JoinedExists
  <1>9. PICK g : Joined(tt, n, g)
    BY <1>1, <1>5, JoinedExists
  <1> HIDE DEF n
  <1>10. im = h[n]
    <2>1. n \in 0 .. n
      BY <1>1
    <2> QED
      BY <1>1, <1>6, <1>8, <2>1, FlattenJoins
  <1>11. ASSUME NEW i \in 1 .. n PROVE Offset(i) = Len(h[i - 1])
    <2>1. i - 1 \in 0 .. n
      BY <1>1
    <2>2. FlattenSeq([j \in 1 .. i - 1 |-> tt[j]]) = g[i - 1]
      BY <1>1, <1>9, <2>1, FlattenJoins
    <2>3. \A j \in 0 .. n : Len(h[j]) = Len(g[j])
      BY <1>1, <1>5, <1>8, <1>9, SameRoom
    <2> QED
      BY <1>7, <2>1, <2>2, <2>3
  <1>12. /\ \A i \in 1 .. n : Offset(i) + 1 \in Starts(im)
         /\ \A p \in Starts(im) : \E i \in 1 .. n : p = Offset(i) + 1
    <2>1. BeginsOne(ss, n)
      BY <1>5 DEF BeginsOne
    <2>2. BeginsEach(h, n)
      BY <1>1, <1>8, <2>1, LinkedStarts
    <2> QED
      BY <1>10, <1>11, <2>2 DEF BeginsEach
  <1>13. ASSUME NEW i \in 1 .. n PROVE IsFunction(im, FunctionAt(im, Offset(i) + 1))
    <2> DEFINE o == Offset(i)
               l == Len(ss[i])
    <2>1. l > 0
      <3>1. 1 \in Starts(ss[i]) /\ l \in Nat
        BY <1>5 DEF IsSeq
      <3>2. 1 \in 1 .. l
        BY <3>1 DEF Starts
      <3> HIDE DEF l
      <3> QED
        BY <3>1, <3>2
    <2>2. HoldsAt(im, o, ss[i]) /\ Len(h[i]) = o + l
      <3>1. HoldsAt(h[n], Len(h[i - 1]), ss[i]) /\ Len(h[i]) = Len(h[i - 1]) + Len(ss[i])
        BY <1>1, <1>8, <2>1, ListsStand
      <3> QED
        BY <1>10, <1>11, <3>1
    <2>3. o + l = Len(im) \/ o + l + 1 \in Starts(im)
      <3>1. CASE i = n
        BY <1>10, <2>2, <3>1
      <3>2. CASE i # n
        <4>1. i + 1 \in 1 .. n /\ (i + 1) - 1 = i
          BY <1>1, <3>2
        <4>2. Offset(i + 1) = o + l
          BY <1>11, <2>2, <4>1
        <4> QED
          BY <1>12, <4>1, <4>2
      <3> QED
        BY <3>1, <3>2
    <2>4. \A p \in Sites(outs[i]) : At(i)[p] \in Starts(im)
      BY <1>4, <1>12
    <2> HIDE DEF o, l
    <2>5. IsFunction(im, FunctionAt(im, o + 1))
      BY <1>2, <1>3, <2>2, <2>3, <2>4, LinkedFunction DEF l
    <2> QED
      BY <2>5 DEF o
  <1>14. IndexOf(main) \in 1 .. n
    BY <1>1, IndexIsThere DEF n
  <1> QED
    BY <1>12, <1>13, <1>14 DEF Shaped

-----------------------------------------------------------------------------
(* What holds of the back end.                                              *)
BackendInv ==
    /\ Handed(outs)
    /\ stage = "encode" => Allocated(prog, Allocation) /\ EncoderInv(prog, Allocation, enc)
    /\ stage \notin {"run", "done", "trapped"} => steps = 0

(* At the start nothing is compiled.                                        *)
LEMMA BackendBegins ==
    ASSUME BackendInit
    PROVE  BackendInv /\ RunInit
  <1>1. Handed(outs)
    <2>1. outs = <<>>
      BY DEF BackendInit
    <2>2. <<>> \in Seq({}) /\ Len(<<>>) = 0
      OBVIOUS
    <2>3. IsSeq(<<>>)
      BY <2>2, SeqIsSeq
    <2> QED
      BY <2>1, <2>2, <2>3 DEF Handed
  <1> QED
    BY <1>1 DEF BackendInit, BackendInv, RunInit, Busy

(* One more function is handed over. *)
LEMMA OneMore ==
    ASSUME NEW s, Handed(s), NEW x, FunctionCode(x)
    PROVE  Handed(Append(s, x))
  <1> DEFINE t == Append(s, x)
  <1>1. /\ IsSeq(s) /\ IsSeq(t) /\ Len(t) = Len(s) + 1 /\ Len(s) \in Nat
        /\ \A i \in 1 .. Len(s) : t[i] = s[i]
        /\ t[Len(s) + 1] = x
    <2>1. IsSeq(s) /\ Len(s) \in Nat
      BY DEF Handed, IsSeq
    <2> QED
      BY <2>1, AppendFacts
  <1> HIDE DEF t
  <1>2. ASSUME NEW i \in 1 .. Len(t) PROVE FunctionCode(t[i])
    <2>1. i \in 1 .. Len(s) \/ i = Len(s) + 1
      BY <1>1
    <2> QED
      BY <1>1, <2>1 DEF Handed
  <1> QED
    BY <1>1, <1>2 DEF Handed, t

(* Every step keeps it, and is one of the run's or none of its business.    *)
LEMMA BackendSteps ==
    ASSUME BackendInv, [BackendNext]_backend_vars
    PROVE  BackendInv' /\ [RunNext]_run_vars
  <1>1. /\ Handed(outs)
        /\ stage = "encode" => Allocated(prog, Allocation) /\ EncoderInv(prog, Allocation, enc)
        /\ stage \notin {"run", "done", "trapped"} => steps = 0
    BY DEF BackendInv
  <1>2. CASE OtherPhase
    <2>1. /\ stage' \notin {"encode", "run", "ready"} /\ stage \notin {"ready", "run"}
          /\ steps = 0 /\ steps' = 0 /\ outs' = outs /\ UNCHANGED <<junk, cpu, steps>>
      BY <1>2 DEF OtherPhase, Busy
    <2>2. Prepare
      BY <2>1 DEF Prepare
    <2> QED
      BY <1>1, <2>1, <2>2 DEF BackendInv, RunNext, Handed
  <1>3. CASE HandOver
    <2>1. /\ stage' \notin {"encode", "run", "ready"} /\ stage \notin {"ready", "run"}
          /\ steps = 0 /\ steps' = 0 /\ UNCHANGED <<junk, cpu, steps>>
      BY <1>3 DEF HandOver, Busy
    <2>2. PICK x : outs' = Append(outs, x) /\ FunctionCode(x)
      BY <1>3 DEF HandOver
    <2>3. Handed(outs')
      BY <1>1, <2>2, OneMore
    <2>4. Prepare
      BY <2>1 DEF Prepare
    <2> QED
      BY <2>1, <2>3, <2>4 DEF BackendInv, RunNext
  <1>4. CASE Allocated(prog, Allocation) /\ BeginEncode /\ UNCHANGED <<prog, allocation>>
    <2>1. /\ stage' = "encode" /\ stage = "allocate" /\ outs' = outs /\ prog' = prog
          /\ Allocation' = Allocation /\ enc' = EncodeStart(prog, Allocation)
          /\ UNCHANGED <<junk, cpu, steps>>
      BY <1>4 DEF BeginEncode, allocation, Allocation, running
    <2>2. EncoderInv(prog, Allocation, enc')
      BY <1>4, <2>1, EncoderBegins
    <2>3. Prepare
      BY <1>1, <2>1 DEF Prepare
    <2>4. Allocated(prog', Allocation') /\ EncoderInv(prog', Allocation', enc')
      BY <1>4, <2>1, <2>2
    <2> QED
      BY <1>1, <2>1, <2>3, <2>4 DEF BackendInv, RunNext
  <1>5. CASE EncodeOne /\ UNCHANGED <<prog, allocation>>
    <2>1. /\ stage' = "encode" /\ stage = "encode" /\ outs' = outs /\ prog' = prog
          /\ Allocation' = Allocation /\ enc' = EncodeNext(enc, prog, Allocation)
          /\ ~Encoded(enc, prog)
          /\ UNCHANGED <<junk, cpu, steps>>
      BY <1>5 DEF EncodeOne, allocation, Allocation, running
    <2>2. EncoderInv(prog, Allocation, enc')
      BY <1>1, <2>1, EncoderGoesOn
    <2>3. Prepare
      BY <1>1, <2>1 DEF Prepare
    <2>4. Allocated(prog', Allocation') /\ EncoderInv(prog', Allocation', enc')
      BY <1>1, <2>1, <2>2
    <2> QED
      BY <1>1, <2>1, <2>3, <2>4 DEF BackendInv, RunNext
  <1>6. CASE stage' \in {"graph", "link"} /\ EndEncode(Last(outs').node)
    <2>1. /\ stage' \notin {"encode", "run", "ready"} /\ stage = "encode" /\ Encoded(enc, prog)
          /\ UNCHANGED <<junk, cpu, steps>>
      BY <1>6 DEF EndEncode, running
    <2>2. PICK x : /\ outs' = Append(outs, x)
                   /\ x.code = Finalize(enc.a) /\ x.relocs = enc.a.relocs
      BY <1>6 DEF EndEncode, Out
    <2>3. FunctionCode(x)
      BY <1>1, <2>1, <2>2, EncoderEnds
    <2>4. Handed(outs')
      BY <1>1, <2>2, <2>3, OneMore
    <2>5. Prepare
      BY <1>1, <2>1 DEF Prepare
    <2> QED
      BY <1>1, <2>1, <2>4, <2>5 DEF BackendInv, RunNext
  <1>7. CASE \E i \in DOMAIN outs : LinkTo(outs[i].node)
    <2>1. PICK i \in DOMAIN outs : LinkTo(outs[i].node)
      BY <1>7
    <2>2. /\ stage' = "ready" /\ stage = "link" /\ outs' = <<>>
          /\ image' = FlattenSeq([j \in DOMAIN outs |-> Patched(outs[j])])
          /\ entry' = Offset(IndexOf(outs[i].node)) + 1
          /\ UNCHANGED <<junk, cpu, steps>>
      BY <2>1 DEF LinkTo, running
    <2>3. Len(outs) > 0
      <3>1. Len(outs) \in Nat /\ DOMAIN outs = 1 .. Len(outs)
        BY <1>1 DEF Handed, IsSeq
      <3> QED
        BY <3>1
    <2>4. Shaped(image', entry')
      BY <1>1, <2>2, <2>3, LinkedIsShaped
    <2>5. Handed(<<>>)
      <3>1. <<>> \in Seq({}) /\ Len(<<>>) = 0
        OBVIOUS
      <3>2. IsSeq(<<>>)
        BY <3>1, SeqIsSeq
      <3> QED
        BY <3>1, <3>2 DEF Handed
    <2>6. Handed(outs')
      BY <2>2, <2>5
    <2>7. Prepare
      BY <1>1, <2>2, <2>4 DEF Prepare
    <2> QED
      BY <1>1, <2>2, <2>6, <2>7 DEF BackendInv, RunNext
  <1>8. CASE (Start \/ Step \/ Return) /\ UNCHANGED <<enc, outs>>
    <2>1. Handed(outs')
      BY <1>1, <1>8
    <2>2. CASE Start
      BY <1>1, <2>1, <2>2 DEF Start, BackendInv, RunNext
    <2>3. CASE Step
      BY <1>1, <2>1, <2>3 DEF Step, BackendInv, RunNext
    <2>4. CASE Return
      BY <1>1, <2>1, <2>4 DEF Return, BackendInv, RunNext
    <2> QED
      BY <1>8, <2>2, <2>3, <2>4
  <1>9. CASE UNCHANGED backend_vars
    <2>1. /\ stage' = stage /\ outs' = outs /\ prog' = prog /\ enc' = enc /\ steps' = steps
          /\ Allocation' = Allocation /\ UNCHANGED run_vars
      BY <1>9 DEF backend_vars, run_vars, running, allocation, Allocation
    <2> QED
      BY <1>1, <2>1 DEF BackendInv
  <1> QED
    BY <1>2, <1>3, <1>4, <1>5, <1>6, <1>7, <1>8, <1>9
    DEF BackendNext, EncodeFunction, LinkAndRun

(* What the encoder writes and the linker puts together is code of the shape
   that a run relies on, however many functions there are, however large, and
   whatever the allocation, as long as every operand has a home. *)
THEOREM BackendRuns == BackendSpec => RunSpec
  <1>1. BackendInit => BackendInv /\ RunInit
    BY BackendBegins
  <1>2. BackendInv /\ [BackendNext]_backend_vars => BackendInv' /\ [RunNext]_run_vars
    BY BackendSteps
  <1> QED
    BY <1>1, <1>2, PTL DEF BackendSpec, RunSpec

(* So whatever is compiled, in whatever way the phases before the encoder   *)
(* came to their result, the code gives its caller's registers and stack    *)
(* back, calls with the stack aligned, and writes to its own frames only.   *)
THEOREM CompiledCodeKeepsItsCallers ==
    BackendSpec => []CallerKept /\ []CallsAligned /\ WritesOwnFrameOnly
  BY BackendRuns, CallingConventionKept, StackAlignedAtCalls, FramesAreKept, PTL
===============================================================================
