---------------------------- MODULE AllocateProofs ----------------------------
(***************************************************************************)
(* Theorems about the linear scan, for any number of virtual registers,    *)
(* any register file and any live intervals; and about allocate() as a     *)
(* whole, for any set of programs.                                         *)
(***************************************************************************)
EXTENDS Allocate, FiniteSetTheorems, Recursion

-----------------------------------------------------------------------------
(* The linear scan alone.                                                   *)

(* What the scan keeps true of the intervals that hold a register now, and *)
(* of those that held one and expired.                                     *)
ActiveInv ==
    /\ \A a \in active : reg[a] \in Regs \ free_reg
    /\ \A r \in Regs \ free_reg : \E a \in active : reg[a] = r
    /\ \A a, b \in active : reg[a] = reg[b] => a = b
    /\ \A u \in Scanned, v \in todo : lo[u] <= lo[v]
    /\ \A u \in Scanned \ active, v \in todo : reg[u] >= 0 => hi[u] < lo[v]

IInv == TypeOK /\ ActiveInv /\ NoRegisterClash /\ OneHome /\ UsedRegistersSaved

(* Before the first interval nothing is held, spilled or marked. *)
LEMMA InitIInv == Init => IInv
<1> SUFFICES ASSUME Init PROVE IInv
  OBVIOUS
<1> USE DEF Init, ScanStart, Scanned, Touched, Regs
<1>1. TypeOK
  BY LinearScanAssumption DEF TypeOK
<1>2. ActiveInv /\ NoRegisterClash /\ OneHome /\ UsedRegistersSaved
  BY LinearScanAssumption
     DEF ActiveInv, NoRegisterClash, OneHome, UsedRegistersSaved
<1> QED
  BY <1>1, <1>2 DEF IInv

(* What all three scanning steps have in common: v is scanned, the intervals *)
(* stay, and what was active and is dropped ended before v starts.           *)
LEMMA ScanFacts ==
    ASSUME IInv, NEW v \in VReg, Next1st(v), todo' = todo \ {v},
           UNCHANGED intervals
    PROVE  /\ v \in Touched /\ v \notin Scanned
           /\ Touched' = Touched
           /\ Scanned' = Scanned \cup {v}
           /\ Kept(v) \subseteq active
           /\ \A a \in active : a \in Kept(v) \/ hi[a] < lo[v]
           /\ \A u \in todo : lo[v] <= lo[u]
<1> USE DEF IInv, TypeOK, Next1st, Kept, Expired, Scanned, Touched, intervals
<1>1. v \in Touched /\ v \notin Scanned /\ Touched' = Touched
  OBVIOUS
<1>2. Scanned' = Scanned \cup {v}
  BY <1>1
<1>3. /\ Kept(v) \subseteq active
      /\ \A a \in active : a \in Kept(v) \/ hi[a] < lo[v]
      /\ \A u \in todo : lo[v] <= lo[u]
  OBVIOUS
<1> QED
  BY <1>1, <1>2, <1>3

(* A register that is free for v is held by no interval overlapping v. *)
LEMMA FreeRegisterIsClear ==
    ASSUME IInv, NEW v \in VReg, Next1st(v), NEW r \in FreeFor(v)
    PROVE  /\ r \in Regs
           /\ \A a \in Kept(v) : reg[a] # r
           /\ \A u \in Scanned : reg[u] = r => hi[u] < lo[v]
<1> USE DEF IInv
<1>1. PICK e \in Expired(v) \cup {v} :
         IF r \in free_reg THEN e = v ELSE e \in Expired(v) /\ reg[e] = r
  BY DEF FreeFor
<1>2. r \in Regs
  BY <1>1 DEF TypeOK, ActiveInv, Expired
<1>3. ASSUME NEW a \in active, reg[a] = r PROVE a \in Expired(v)
  BY <1>1, <1>3 DEF ActiveInv, Expired
<1>4. ASSUME NEW u \in Scanned, reg[u] = r PROVE hi[u] < lo[v]
  <2>1. CASE u \in active
    BY <2>1, <1>4, <1>3 DEF Expired
  <2>2. CASE u \notin active
    <3>1. reg[u] >= 0
      BY <1>4, <1>2, LinearScanAssumption DEF Regs
    <3> QED
      BY <3>1, <2>2, <1>4 DEF ActiveInv, Next1st
  <2> QED
    BY <2>1, <2>2
<1> QED
  BY <1>2, <1>3, <1>4 DEF Kept

(* A register that is not free for v is held by an interval that stays. *)
LEMMA BusyRegisterIsHeld ==
    ASSUME IInv, NEW v \in VReg, NEW q \in Regs \ FreeFor(v)
    PROVE  \E a \in Kept(v) : reg[a] = q
<1>1. PICK a \in active : reg[a] = q
  BY DEF FreeFor, IInv, ActiveInv
<1>2. q >= 0
  BY LinearScanAssumption DEF Regs
<1>3. a \notin Expired(v)
  BY <1>1, <1>2 DEF FreeFor
<1> QED
  BY <1>1, <1>3 DEF Kept

(* Giving v a free register, after expiry, clashes with no active interval. *)
LEMMA TakeFreeStep ==
    ASSUME IInv, NEW v \in VReg, TakeFree(v)
    PROVE  IInv'
<1>1. PICK r \in FreeFor(v) :
        /\ reg' = [reg EXCEPT ![v] = r]
        /\ reg_used' = reg_used \cup {r}
        /\ free_reg' = FreeFor(v) \ {r}
        /\ active' = Kept(v) \cup {v}
  BY DEF TakeFree
<1>2. /\ Next1st(v)
      /\ todo' = todo \ {v}
      /\ UNCHANGED intervals
      /\ lo' = lo /\ hi' = hi /\ spill' = spill /\ num_spills' = num_spills
  BY DEF TakeFree, intervals
<1>3. /\ v \in Touched /\ v \notin Scanned
      /\ Touched' = Touched
      /\ Scanned' = Scanned \cup {v}
      /\ Kept(v) \subseteq active
      /\ \A a \in active : a \in Kept(v) \/ hi[a] < lo[v]
      /\ \A u \in todo : lo[v] <= lo[u]
  BY <1>2, ScanFacts
<1>4. /\ r \in Regs
      /\ \A a \in Kept(v) : reg[a] # r
      /\ \A u \in Scanned : reg[u] = r => hi[u] < lo[v]
  BY <1>2, FreeRegisterIsClear
<1>5. FreeFor(v) \subseteq Regs
  BY DEF FreeFor, IInv, ActiveInv, TypeOK, Expired
<1>6. TypeOK'
  BY <1>1, <1>2, <1>3, <1>4, <1>5 DEF IInv, TypeOK, Regs
<1>7. ActiveInv'
  <2> USE DEF IInv, ActiveInv, TypeOK
  <2>1. \A a \in active' : reg'[a] \in Regs \ free_reg'
    <3>1. ASSUME NEW a \in Kept(v) PROVE reg[a] \notin FreeFor(v)
      BY <3>1, <1>3 DEF FreeFor, Expired, Kept
    <3> QED
      BY <3>1, <1>1, <1>3, <1>4
  <2>2. \A a, b \in active' : reg'[a] = reg'[b] => a = b
    BY <1>1, <1>3, <1>4
  <2>3. \A u \in Scanned', w \in todo' : lo'[u] <= lo'[w]
    BY <1>2, <1>3
  <2>4. \A u \in Scanned' \ active', w \in todo' :
            reg'[u] >= 0 => hi'[u] < lo'[w]
    BY <1>1, <1>2, <1>3 DEF Touched, Scanned
  <2>5. \A q \in Regs \ free_reg' : \E a \in active' : reg'[a] = q
    <3> SUFFICES ASSUME NEW q \in Regs \ free_reg'
                 PROVE  \E a \in active' : reg'[a] = q
      OBVIOUS
    <3>1. CASE q = r
      BY <3>1, <1>1
    <3>2. CASE q # r
      BY <3>2, <1>1, <1>3, BusyRegisterIsHeld
    <3> QED
      BY <3>1, <3>2
  <2> QED
    BY <2>1, <2>2, <2>3, <2>4, <2>5, <1>2 DEF Regs
<1>8. NoRegisterClash'
  BY <1>1, <1>2, <1>3, <1>4 DEF IInv, TypeOK, NoRegisterClash, OneHome, Overlap, Touched, Regs
<1>9. OneHome'
  BY <1>1, <1>2, <1>3, <1>4 DEF IInv, TypeOK, OneHome, Regs
<1>10. UsedRegistersSaved'
  BY <1>1, <1>2 DEF IInv, TypeOK, UsedRegistersSaved
<1> QED
  BY <1>6, <1>7, <1>8, <1>9, <1>10 DEF IInv

(* Spilling the newcomer leaves all registers as they are. *)
LEMMA SpillSelfStep ==
    ASSUME IInv, NEW v \in VReg, SpillSelf(v)
    PROVE  IInv'
<1>1. /\ Next1st(v)
      /\ todo' = todo \ {v}
      /\ UNCHANGED intervals
      /\ lo' = lo /\ hi' = hi /\ reg' = reg /\ reg_used' = reg_used
      /\ spill' = [spill EXCEPT ![v] = num_spills]
      /\ num_spills' = num_spills + 1
      /\ active' = Kept(v)
      /\ free_reg' = {}
  BY DEF SpillSelf, intervals
<1>2. /\ v \in Touched /\ v \notin Scanned
      /\ Touched' = Touched
      /\ Scanned' = Scanned \cup {v}
      /\ Kept(v) \subseteq active
      /\ \A a \in active : a \in Kept(v) \/ hi[a] < lo[v]
      /\ \A u \in todo : lo[v] <= lo[u]
  BY <1>1, ScanFacts
<1>3. TypeOK'
  BY <1>1, <1>2 DEF IInv, TypeOK, Regs
<1>4. ActiveInv'
  <2> USE DEF IInv, ActiveInv, TypeOK
  <2>1. /\ \A a \in active' : reg'[a] \in Regs \ free_reg'
        /\ \A a, b \in active' : reg'[a] = reg'[b] => a = b
    BY <1>1, <1>2
  <2>2. \A u \in Scanned', w \in todo' : lo'[u] <= lo'[w]
    BY <1>1, <1>2
  <2>3. \A u \in Scanned' \ active', w \in todo' :
            reg'[u] >= 0 => hi'[u] < lo'[w]
    <3> SUFFICES ASSUME NEW u \in Scanned' \ active', NEW w \in todo',
                        reg[u] >= 0
                 PROVE  hi[u] < lo[w]
      BY <1>1
    <3>1. CASE u = v
      BY <3>1, <1>2 DEF OneHome
    <3>2. CASE u # v
      BY <3>2, <1>1, <1>2 DEF Touched, Scanned
    <3> QED
      BY <3>1, <3>2
  <2>4. \A q \in Regs \ free_reg' : \E a \in active' : reg'[a] = q
    BY <1>1, BusyRegisterIsHeld DEF SpillSelf
  <2> QED
    BY <2>1, <2>2, <2>3, <2>4, <1>1 DEF Regs
<1>5. NoRegisterClash' /\ UsedRegistersSaved'
  BY <1>1 DEF IInv, NoRegisterClash, UsedRegistersSaved, Overlap
<1>6. OneHome'
  BY <1>1, <1>2 DEF IInv, TypeOK, OneHome
<1> QED
  BY <1>3, <1>4, <1>5, <1>6 DEF IInv

(* The newcomer takes the register of the one interval that gives it up. *)
LEMMA SpillOtherStep ==
    ASSUME IInv, NEW v \in VReg, SpillOther(v)
    PROVE  IInv'
<1>1. PICK c \in Kept(v) :
        /\ reg' = [reg EXCEPT ![v] = reg[c], ![c] = -1]
        /\ reg_used' = reg_used \cup {reg[c]}
        /\ spill' = [spill EXCEPT ![c] = num_spills]
        /\ active' = (Kept(v) \ {c}) \cup {v}
  BY DEF SpillOther
<1>2. /\ Next1st(v)
      /\ todo' = todo \ {v}
      /\ UNCHANGED intervals
      /\ lo' = lo /\ hi' = hi
      /\ num_spills' = num_spills + 1
      /\ free_reg' = {}
  BY DEF SpillOther, intervals
<1>3. /\ v \in Touched /\ v \notin Scanned
      /\ Touched' = Touched
      /\ Scanned' = Scanned \cup {v}
      /\ Kept(v) \subseteq active
      /\ \A a \in active : a \in Kept(v) \/ hi[a] < lo[v]
      /\ \A u \in todo : lo[v] <= lo[u]
  BY <1>2, ScanFacts
<1>4. /\ c \in active /\ c \in Scanned /\ c # v
      /\ reg[c] \in Regs /\ reg[c] >= 0
      /\ \A u \in Scanned \ {c} : reg[u] = reg[c] => hi[u] < lo[v]
  BY <1>2, <1>3 DEF IInv, TypeOK, ActiveInv, Next1st, Regs
<1>5. /\ reg'[v] = reg[c] /\ reg'[c] = -1
      /\ spill'[v] = -1 /\ spill'[c] = num_spills /\ num_spills \in Nat
      /\ \A w \in VReg \ {v, c} : reg'[w] = reg[w] /\ spill'[w] = spill[w]
      /\ Scanned \subseteq VReg /\ active \subseteq Scanned /\ Scanned' \subseteq VReg
  <2>1. c \in VReg /\ c # v /\ Scanned \subseteq VReg /\ active \subseteq Scanned
    BY <1>4 DEF IInv, TypeOK, Scanned, Touched
  <2>2. reg \in [VReg -> Regs \cup {-1}] /\ spill \in [VReg -> Nat \cup {-1}]
    BY DEF IInv, TypeOK
  <2>3. spill[v] = -1
    BY <1>3 DEF IInv, OneHome
  <2> QED
    BY <1>1, <1>3, <2>1, <2>2, <2>3 DEF IInv, TypeOK
<1>6. TypeOK'
  <2> USE DEF IInv, TypeOK
  <2>1. /\ reg' \in [VReg -> Regs \cup {-1}]
        /\ spill' \in [VReg -> Nat \cup {-1}]
    BY <1>1, <1>4
  <2>2. /\ lo' \in [VReg -> 0 .. MaxPos]
        /\ hi' \in [VReg -> -1 .. MaxPos]
        /\ \A w \in Touched' : lo'[w] <= hi'[w]
    BY <1>2, <1>3
  <2>3. /\ todo' \subseteq Touched'
        /\ num_spills' \in Nat
        /\ reg_used' \subseteq Regs
        /\ free_reg' \subseteq Regs
        /\ active' \subseteq Scanned'
    BY <1>1, <1>2, <1>3, <1>4
  <2> QED
    BY <2>1, <2>2, <2>3 DEF Regs
<1>7. ActiveInv'
  <2> USE DEF IInv, ActiveInv, TypeOK
  <2>1. \A a \in active' \ {v} : a \in active /\ a # c /\ reg'[a] = reg[a]
    BY <1>5, <1>1, <1>3
  <2>2. \A a \in active' : reg'[a] \in Regs \ free_reg'
    BY <2>1, <1>5, <1>2, <1>4
  <2>3. \A a, b \in active' : reg'[a] = reg'[b] => a = b
    BY <2>1, <1>5, <1>4
  <2>4. \A u \in Scanned', w \in todo' : lo'[u] <= lo'[w]
    BY <1>2, <1>3
  <2>5. \A u \in Scanned' \ active', w \in todo' :
            reg'[u] >= 0 => hi'[u] < lo'[w]
    BY <1>1, <1>2, <1>3 DEF Touched, Scanned
  <2>6. \A q \in Regs \ free_reg' : \E a \in active' : reg'[a] = q
    <3> SUFFICES ASSUME NEW q \in Regs
                 PROVE  \E a \in active' : reg'[a] = q
      BY <1>2
    <3>1. PICK a \in Kept(v) : reg[a] = q
      BY BusyRegisterIsHeld DEF SpillOther
    <3> QED
      BY <3>1, <1>1, <1>3, <1>5
  <2> QED
    BY <2>2, <2>3, <2>4, <2>5, <2>6 DEF Regs
<1>8. NoRegisterClash'
  BY <1>1, <1>2, <1>3, <1>4 DEF IInv, TypeOK, NoRegisterClash, OneHome, Overlap, Touched, Regs
<1>9. OneHome'
  <2> USE DEF IInv, OneHome
  <2>1. \A w \in Scanned' : (reg'[w] >= 0) # (spill'[w] >= 0)
    BY <1>5, <1>3, <1>4
  <2>2. \A w \in VReg \ Scanned' : reg'[w] = -1 /\ spill'[w] = -1
    BY <1>5, <1>3, <1>4
  <2>3. \A w \in VReg : spill'[w] < num_spills'
    <3>1. \A w \in VReg : spill[w] \in Int
      BY DEF TypeOK
    <3> QED
      BY <3>1, <1>5, <1>2
  <2>4. \A u, w \in VReg : spill'[u] >= 0 /\ spill'[u] = spill'[w] => u = w
    BY <1>5
  <2> QED
    BY <2>1, <2>2, <2>3, <2>4
<1>10. UsedRegistersSaved'
  BY <1>1, <1>2, <1>4 DEF IInv, TypeOK, UsedRegistersSaved
<1> QED
  BY <1>6, <1>7, <1>8, <1>9, <1>10 DEF IInv

(* A step that changes nothing keeps the invariant. *)
LEMMA StutterStep ==
    ASSUME IInv, UNCHANGED vars
    PROVE  IInv'
  BY DEF IInv, TypeOK, ActiveInv, NoRegisterClash, OneHome, UsedRegistersSaved,
         Overlap, Scanned, Touched, Regs, vars

(* The invariant holds throughout, whatever the intervals and the registers. *)
THEOREM Invariance == Spec => []IInv
<1>1. IInv /\ [Next]_vars => IInv'
  <2> SUFFICES ASSUME IInv, [Next]_vars PROVE IInv'
    OBVIOUS
  <2>1. ASSUME NEW v \in VReg, Scan(v) PROVE IInv'
    BY <2>1, TakeFreeStep, SpillSelfStep, SpillOtherStep DEF Scan
  <2> QED
    BY <2>1, StutterStep DEF Next, Terminated
<1> QED
  BY InitIInv, <1>1, PTL DEF Spec

(* allocate(): the tables keep their types. *)
THEOREM TypeCorrect == Spec => []TypeOK
  BY Invariance, PTL DEF IInv

(* allocate(): two vregs whose intervals share an instruction never share a *)
(* register, for every set of intervals and every number of registers.      *)
THEOREM RegistersNeverClash == Spec => []NoRegisterClash
  BY Invariance, PTL DEF IInv

(* allocate(): every scanned vreg lives in one register or one private slot. *)
THEOREM EveryVRegHasOneHome == Spec => []OneHome
  BY Invariance, PTL DEF IInv

(* allocate() and the prologue: a register in use is saved. *)
THEOREM CalleeSavedRegistersKept == Spec => []UsedRegistersSaved
  BY Invariance, PTL DEF IInv

(* When no register is free for v, each is held by an interval that stays,  *)
(* and all that stay are live where v starts.                               *)
LEMMA AllHeld ==
    ASSUME IInv, NEW v \in VReg, Next1st(v), FreeFor(v) = {}
    PROVE  /\ v \in Touched /\ v \notin Kept(v) /\ Kept(v) \subseteq Scanned
           /\ lo[v] \in 0 .. MaxPos
           /\ \A a \in Kept(v) : lo[a] <= lo[v] /\ lo[v] <= hi[a]
           /\ IsFiniteSet(Kept(v))
           /\ NumAlloc <= Cardinality(Kept(v))
<1> DEFINE K == Kept(v)
<1>1. /\ v \in Touched /\ v \notin K /\ K \subseteq Scanned
      /\ lo[v] \in 0 .. MaxPos
      /\ \A a \in K : lo[a] <= lo[v] /\ lo[v] <= hi[a]
  BY DEF IInv, TypeOK, ActiveInv, Next1st, Kept, Expired, Scanned, Touched
<1>2. IsFiniteSet(K)
  BY FS_Subset, LinearScanAssumption, <1>1 DEF Scanned, Touched
<1>3. Cardinality(Regs) = NumAlloc
  BY FS_Interval, LinearScanAssumption DEF Regs
<1>4. Cardinality(Regs) <= Cardinality(K)
  <2> DEFINE f == [a \in K |-> reg[a]]
  <2>1. \A r \in Regs : \E a \in K : f[a] = r
    BY BusyRegisterIsHeld
  <2>2. \A a \in K : f[a] \in Regs
    BY DEF IInv, ActiveInv, Kept
  <2>3. f \in Surjection(K, Regs)
    BY <2>1, <2>2 DEF Surjection
  <2> QED
    BY <2>3, <1>2, FS_Surjection
<1> QED
  BY <1>1, <1>2, <1>3, <1>4

(* A spilling step finds all the registers held by intervals live where v  *)
(* starts, so with v itself one interval too many is live there.           *)
LEMMA FullPressure ==
    ASSUME IInv, NEW v \in VReg, Next1st(v), FreeFor(v) = {}
    PROVE  \E p \in 0 .. MaxPos : Cardinality(LiveAt(Touched, p)) > NumAlloc
<1> DEFINE K == Kept(v)
           L == LiveAt(Touched, lo[v])
<1>1. /\ v \in Touched /\ v \notin K /\ K \subseteq Touched
      /\ lo[v] \in 0 .. MaxPos
      /\ \A a \in K : lo[a] <= lo[v] /\ lo[v] <= hi[a]
      /\ IsFiniteSet(K)
      /\ NumAlloc <= Cardinality(K)
  BY AllHeld DEF Scanned
<1>2. K \cup {v} \subseteq L
  BY <1>1 DEF LiveAt, IInv, TypeOK
<1>3. IsFiniteSet(L)
  BY FS_Subset, LinearScanAssumption DEF LiveAt, Touched
<1>6. Cardinality(K \cup {v}) = Cardinality(K) + 1
  BY <1>1, FS_AddElement
<1>7. Cardinality(K \cup {v}) <= Cardinality(L)
  BY <1>2, <1>3, FS_Subset
<1>8. Cardinality(K) \in Nat /\ Cardinality(L) \in Nat
  BY <1>1, <1>3, FS_CardinalityType
<1> QED
  BY <1>1, <1>6, <1>7, <1>8, LinearScanAssumption

(* allocate(): nothing is spilled while the registers suffice. *)
THEOREM SpillsNeedPressure == Spec => SpillsOnlyUnderPressure
<1>1. IInv /\ [Next]_vars => [SpillUnderPressure]_vars
  <2> SUFFICES ASSUME IInv, [Next]_vars, num_spills' # num_spills
               PROVE  \E p \in 0 .. MaxPos :
                          Cardinality(LiveAt(Touched, p)) > NumAlloc
    BY DEF SpillUnderPressure
  <2>1. PICK v \in VReg : SpillSelf(v) \/ SpillOther(v)
    BY DEF Next, Scan, TakeFree, Terminated, vars
  <2>2. Next1st(v) /\ FreeFor(v) = {}
    BY <2>1 DEF SpillSelf, SpillOther
  <2> QED
    BY <2>2, FullPressure
<1> QED
  BY Invariance, <1>1, PTL DEF Spec, SpillsOnlyUnderPressure

-----------------------------------------------------------------------------
(* Spilling the interval that ends last is optimal.  The count alone is not *)
(* inductive: a rival set of as many spills might relieve the scan later.   *)
(* It is when the spills are compared up to every instruction: however far  *)
(* one looks, no fewer intervals of a rival set have ended than of the      *)
(* scan's, so what the scan spilled stays out of the way at least as long.  *)
Spilled == {v \in Scanned : spill[v] >= 0}

EndBefore(X, p) == {v \in X : hi[v] < p}

EndsFirst(S) == \A p \in 0 .. MaxPos + 1 :
                    Cardinality(EndBefore(Spilled, p)) <= Cardinality(EndBefore(S, p))

SpillsEndLast ==
    /\ num_spills = Cardinality(Spilled)
    /\ \A S \in SUBSET Scanned : Fits(Scanned \ S) => EndsFirst(S)

(* A set of vregs is finite, and its size is a number. *)
LEMMA VRegSets ==
    ASSUME NEW X \in SUBSET VReg
    PROVE  IsFiniteSet(X) /\ Cardinality(X) \in Nat
  BY FS_Subset, FS_CardinalityType, LinearScanAssumption

(* The size of a larger set, of a union, and of a union of disjoint sets. *)
LEMMA Sizes ==
    ASSUME NEW X \in SUBSET VReg, NEW Y \in SUBSET VReg
    PROVE  /\ X \subseteq Y => Cardinality(X) <= Cardinality(Y)
           /\ Cardinality(X \cup Y) <= Cardinality(X) + Cardinality(Y)
           /\ X \cap Y = {} => Cardinality(X \cup Y) = Cardinality(X) + Cardinality(Y)
<1>1. /\ IsFiniteSet(X) /\ IsFiniteSet(Y)
      /\ Cardinality(X) \in Nat /\ Cardinality(Y) \in Nat /\ Cardinality(X \cap Y) \in Nat
  BY VRegSets
<1>2. X \subseteq Y => Cardinality(X) <= Cardinality(Y)
  BY <1>1, FS_Subset
<1>3. Cardinality(X \cup Y) = Cardinality(X) + Cardinality(Y) - Cardinality(X \cap Y)
  BY <1>1, FS_Union
<1>4. X \cap Y = {} => Cardinality(X \cap Y) = 0
  BY FS_EmptySet
<1> QED
  BY <1>1, <1>2, <1>3, <1>4

(* What is left of a set that fits also fits when fewer intervals are there. *)
LEMMA FewerFit ==
    ASSUME NEW X \in SUBSET VReg, NEW Y \in SUBSET X, Fits(X)
    PROVE  Fits(Y)
<1> SUFFICES ASSUME NEW p \in 0 .. MaxPos PROVE Cardinality(LiveAt(Y, p)) <= NumAlloc
  BY DEF Fits
<1>1. LiveAt(Y, p) \subseteq LiveAt(X, p) /\ LiveAt(X, p) \subseteq VReg
  BY DEF LiveAt
<1>2. Cardinality(LiveAt(Y, p)) <= Cardinality(LiveAt(X, p))
  BY <1>1, Sizes
<1>3. Cardinality(LiveAt(X, p)) <= NumAlloc
  BY DEF Fits
<1>4. Cardinality(LiveAt(X, p)) \in Nat /\ Cardinality(LiveAt(Y, p)) \in Nat
  BY <1>1, VRegSets
<1> QED
  BY <1>2, <1>3, <1>4, LinearScanAssumption

(* A rival of the scan with v was a rival of the scan before v. *)
LEMMA RivalBefore ==
    ASSUME IInv, SpillsEndLast, NEW v \in VReg,
           NEW S \in SUBSET (Scanned \cup {v}), Fits((Scanned \cup {v}) \ S)
    PROVE  EndsFirst(S \cap Scanned)
<1>1. Scanned \subseteq VReg
  BY DEF Scanned, Touched
<1>2. Scanned \ (S \cap Scanned) \subseteq (Scanned \cup {v}) \ S
  OBVIOUS
<1>3. Fits(Scanned \ (S \cap Scanned))
  BY <1>1, <1>2, FewerFit
<1> QED
  BY <1>3 DEF SpillsEndLast

(* The heart of it.  When v starts and no register is free, NumAlloc + 1    *)
(* intervals that hold none of the slots are live, and c ends last of them. *)
(* A rival has to spill at least as many of those live here that end before *)
(* p as the scan has, and one more, since it has to make room for v too.    *)
LEMMA RivalSpillsOneMore ==
    ASSUME IInv, SpillsEndLast, NEW v \in VReg, Next1st(v), FreeFor(v) = {},
           NEW c \in Kept(v) \cup {v}, \A a \in Kept(v) \cup {v} : hi[a] <= hi[c],
           NEW S \in SUBSET (Scanned \cup {v}), Fits((Scanned \cup {v}) \ S),
           NEW p \in 0 .. MaxPos + 1, hi[c] < p
    PROVE  Cardinality(EndBefore(Spilled, p)) + 1 <= Cardinality(EndBefore(S, p))
<1> DEFINE x == lo[v]
           H == Kept(v) \cup {v}
           All == Scanned \cup {v}
           M == {s \in Spilled : x <= hi[s] /\ hi[s] < p}
           N == {s \in S : x <= hi[s] /\ hi[s] < p}
           Q == {s \in Spilled : p <= hi[s]}
           R == LiveAt(All \ S, x)
           P1 == EndBefore(Spilled, x)
           P2 == EndBefore(S \cap Scanned, x)
<1>1. /\ v \in Touched /\ v \notin Kept(v) /\ Kept(v) \subseteq Scanned
      /\ x \in 0 .. MaxPos
      /\ \A a \in Kept(v) : lo[a] <= x /\ x <= hi[a]
      /\ IsFiniteSet(Kept(v))
      /\ NumAlloc <= Cardinality(Kept(v))
  BY AllHeld
<1>2. /\ Scanned \subseteq VReg /\ All \subseteq VReg /\ v \notin Scanned
      /\ lo \in [VReg -> 0 .. MaxPos] /\ hi \in [VReg -> -1 .. MaxPos]
      /\ x <= hi[v]
      /\ \A s \in Scanned : lo[s] <= x
      /\ active \subseteq Scanned
      /\ MaxPos \in Nat
  <2>1. v \in todo
    BY DEF Next1st
  <2> QED
    BY <1>1, <2>1, LinearScanAssumption DEF IInv, TypeOK, ActiveInv, Scanned, Touched
<1>3. /\ \A s \in Kept(v) : s \notin Spilled
      /\ \A s \in Scanned : x <= hi[s] => s \in Kept(v) \/ s \in Spilled
  <2>1. ASSUME NEW s \in Kept(v) PROVE s \notin Spilled
    <3>1. s \in Scanned /\ s \in active
      BY <1>1 DEF Kept
    <3>2. reg[s] \in Regs
      BY <3>1 DEF IInv, ActiveInv
    <3>3. reg[s] >= 0
      BY <3>2, LinearScanAssumption DEF Regs
    <3>4. (reg[s] >= 0) # (spill[s] >= 0)
      BY <3>1 DEF IInv, OneHome
    <3> QED
      BY <3>3, <3>4 DEF Spilled
  <2>2. ASSUME NEW s \in Scanned, x <= hi[s], s \notin Kept(v) PROVE s \in Spilled
    <3>1. s \notin active
      BY <1>2, <2>2 DEF Kept, Expired
    <3>2. ~ (reg[s] >= 0)
      <4>1. SUFFICES ASSUME reg[s] >= 0 PROVE FALSE
        OBVIOUS
      <4>2. v \in todo
        BY DEF Next1st
      <4>3. hi[s] < lo[v]
        BY <3>1, <4>1, <4>2 DEF IInv, ActiveInv
      <4> QED
        BY <1>2, <2>2, <4>3
    <3>3. (reg[s] >= 0) # (spill[s] >= 0)
      BY DEF IInv, OneHome
    <3> QED
      BY <3>2, <3>3 DEF Spilled
  <2> QED
    BY <2>1, <2>2
<1>4. /\ H \subseteq VReg /\ M \subseteq VReg /\ N \subseteq VReg /\ Q \subseteq VReg
      /\ R \subseteq VReg /\ P1 \subseteq VReg /\ P2 \subseteq VReg
      /\ Spilled \subseteq Scanned
  BY <1>1, <1>2 DEF Spilled, EndBefore, LiveAt
<1>5. Cardinality(H) >= NumAlloc + 1
  <2>1. Cardinality(H) = Cardinality(Kept(v)) + 1
    BY <1>1, FS_AddElement
  <2>2. Cardinality(Kept(v)) \in Nat
    BY <1>1, FS_CardinalityType
  <2> QED
    BY <1>1, <2>1, <2>2, LinearScanAssumption
<1>6. Cardinality(R) <= NumAlloc
  BY <1>1 DEF Fits
<1>7. H \cup M \cup Q \subseteq R \cup N \cup Q
  <2> SUFFICES ASSUME NEW s \in H \cup M PROVE s \in R \cup N \cup Q
    OBVIOUS
  <2>1. s \in All /\ lo[s] <= x /\ x <= hi[s]
    BY <1>1, <1>2, <1>4
  <2>2. CASE s \notin S
    BY <2>1, <2>2 DEF LiveAt
  <2>3. CASE s \in S
    <3>1. hi[s] \in Int /\ hi[c] \in Int /\ p \in Int
      BY <1>1, <1>2, <1>4
    <3>2. hi[s] < p
      BY <3>1
    <3> QED
      BY <2>1, <2>3, <3>2
  <2> QED
    BY <2>2, <2>3
<1>8. H \cap M = {} /\ (H \cup M) \cap Q = {}
  BY <1>2, <1>3, <1>4
<1>9. EndBefore(Spilled, p) = P1 \cup M /\ P1 \cap M = {}
  BY <1>1, <1>2, <1>4 DEF EndBefore
<1>10. EndBefore(S, p) = P2 \cup N /\ P2 \cap N = {}
  BY <1>1, <1>2 DEF EndBefore
<1>11. Cardinality(P1) <= Cardinality(P2)
  <2>1. EndsFirst(S \cap Scanned)
    BY RivalBefore
  <2>2. x \in 0 .. MaxPos + 1
    BY <1>1, <1>2
  <2> QED
    BY <2>1, <2>2 DEF EndsFirst
<1> HIDE DEF H, M, N, Q, R, P1, P2
<1>12. /\ Cardinality(H) \in Nat /\ Cardinality(M) \in Nat /\ Cardinality(N) \in Nat
       /\ Cardinality(Q) \in Nat /\ Cardinality(R) \in Nat
       /\ Cardinality(P1) \in Nat /\ Cardinality(P2) \in Nat
       /\ Cardinality(R \cup N) \in Nat /\ Cardinality(R \cup N \cup Q) \in Nat
  BY <1>4, VRegSets
<1>13. Cardinality(H \cup M \cup Q) = Cardinality(H) + Cardinality(M) + Cardinality(Q)
  <2>1. Cardinality(H \cup M) = Cardinality(H) + Cardinality(M)
    BY <1>4, <1>8, Sizes
  <2>2. Cardinality((H \cup M) \cup Q) = Cardinality(H \cup M) + Cardinality(Q)
    BY <1>4, <1>8, Sizes
  <2> QED
    BY <2>1, <2>2
<1>14. Cardinality(R \cup N \cup Q) <= Cardinality(R) + Cardinality(N) + Cardinality(Q)
  <2>1. Cardinality(R \cup N) <= Cardinality(R) + Cardinality(N)
    BY <1>4, Sizes
  <2>2. Cardinality((R \cup N) \cup Q) <= Cardinality(R \cup N) + Cardinality(Q)
    BY <1>4, Sizes
  <2> QED
    BY <1>12, <2>1, <2>2
<1>15. Cardinality(H \cup M \cup Q) <= Cardinality(R \cup N \cup Q)
  BY <1>4, <1>7, Sizes
<1>16. Cardinality(M) + 1 <= Cardinality(N)
  BY <1>5, <1>6, <1>12, <1>13, <1>14, <1>15, LinearScanAssumption
<1>17. /\ Cardinality(P1 \cup M) = Cardinality(P1) + Cardinality(M)
       /\ Cardinality(P2 \cup N) = Cardinality(P2) + Cardinality(N)
  BY <1>4, <1>9, <1>10, Sizes
<1> QED
  BY <1>9, <1>10, <1>11, <1>12, <1>16, <1>17

(* A step that spills nothing: the rivals are those of the scan before it. *)
LEMMA NoSpillStep ==
    ASSUME IInv, SpillsEndLast, NEW v \in VReg, TakeFree(v)
    PROVE  SpillsEndLast'
<1>1. /\ Next1st(v) /\ todo' = todo \ {v} /\ UNCHANGED intervals
      /\ lo' = lo /\ hi' = hi /\ spill' = spill /\ num_spills' = num_spills
  BY DEF TakeFree, intervals
<1>2. /\ v \notin Scanned /\ Scanned' = Scanned \cup {v} /\ Scanned \subseteq VReg
  BY <1>1, ScanFacts DEF Scanned, Touched
<1>3. spill[v] = -1
  BY <1>2 DEF IInv, OneHome
<1>4. Spilled' = Spilled
  BY <1>1, <1>2, <1>3 DEF Spilled
<1>5. ASSUME NEW S \in SUBSET (Scanned \cup {v}), Fits((Scanned \cup {v}) \ S),
             NEW p \in 0 .. MaxPos + 1
      PROVE  Cardinality(EndBefore(Spilled, p)) <= Cardinality(EndBefore(S, p))
  <2> DEFINE A == EndBefore(S \cap Scanned, p)
             B == EndBefore(S, p)
  <2>1. Cardinality(EndBefore(Spilled, p)) <= Cardinality(A)
    BY <1>5, RivalBefore DEF EndsFirst
  <2>2. /\ A \subseteq B /\ B \subseteq VReg /\ EndBefore(Spilled, p) \subseteq VReg
    BY <1>2 DEF EndBefore, Spilled
  <2> HIDE DEF A, B
  <2>3. Cardinality(A) <= Cardinality(B)
    BY <2>2, Sizes
  <2>4. /\ Cardinality(A) \in Nat /\ Cardinality(B) \in Nat
        /\ Cardinality(EndBefore(Spilled, p)) \in Nat
    BY <2>2, VRegSets
  <2>5. Cardinality(EndBefore(Spilled, p)) <= Cardinality(B)
    BY <2>1, <2>3, <2>4
  <2> QED
    BY <2>5 DEF B
<1>6. ASSUME NEW S \in SUBSET Scanned', Fits(Scanned \ S)' PROVE EndsFirst(S)'
  <2>1. Fits((Scanned \cup {v}) \ S)
    BY <1>1, <1>2, <1>6 DEF Fits, LiveAt
  <2> QED
    BY <1>1, <1>2, <1>4, <1>5, <2>1 DEF EndsFirst, EndBefore
<1> QED
  BY <1>1, <1>4, <1>6 DEF SpillsEndLast


(* A step that spills c, the last to end of v and those that stay.          *)
LEMMA SpillStep ==
    ASSUME IInv, SpillsEndLast, NEW v \in VReg, Next1st(v), FreeFor(v) = {},
           NEW c \in Kept(v) \cup {v}, \A a \in Kept(v) \cup {v} : hi[a] <= hi[c],
           todo' = todo \ {v}, UNCHANGED intervals,
           spill' = [spill EXCEPT ![c] = num_spills], num_spills' = num_spills + 1
    PROVE  SpillsEndLast'
<1>1. /\ v \notin Scanned /\ Scanned' = Scanned \cup {v} /\ Scanned \subseteq VReg
      /\ lo' = lo /\ hi' = hi
  BY ScanFacts DEF Scanned, Touched, intervals
<1>2. Kept(v) \subseteq active /\ active \subseteq Scanned /\ c \in Scanned \cup {v}
  BY <1>1 DEF Kept, IInv, TypeOK
<1>3. /\ spill[v] = -1 /\ spill \in [VReg -> Nat \cup {-1}] /\ num_spills \in Nat
      /\ hi \in [VReg -> -1 .. MaxPos]
  BY <1>1 DEF IInv, OneHome, TypeOK
<1>4. c \notin Spilled
  <2>1. CASE c = v
    BY <1>1, <2>1 DEF Spilled
  <2>2. CASE c \in Kept(v)
    <3>1. reg[c] >= 0
      BY <2>2, <1>2, LinearScanAssumption DEF IInv, ActiveInv, Regs
    <3> QED
      BY <2>2, <1>2, <3>1 DEF IInv, OneHome, Spilled
  <2> QED
    BY <2>1, <2>2
<1>5. Spilled' = Spilled \cup {c}
  BY <1>1, <1>2, <1>3 DEF Spilled
<1>6. Spilled \subseteq VReg /\ IsFiniteSet(Spilled)
  BY <1>1, VRegSets DEF Spilled
<1>7. num_spills' = Cardinality(Spilled \cup {c})
  BY <1>4, <1>6, FS_AddElement DEF SpillsEndLast
<1>8. ASSUME NEW S \in SUBSET (Scanned \cup {v}), Fits((Scanned \cup {v}) \ S),
             NEW p \in 0 .. MaxPos + 1
      PROVE  Cardinality(EndBefore(Spilled \cup {c}, p)) <= Cardinality(EndBefore(S, p))
  <2> DEFINE A == EndBefore(S \cap Scanned, p)
             B == EndBefore(S, p)
             P == EndBefore(Spilled, p)
  <2>1. Cardinality(P) <= Cardinality(A)
    BY <1>8, RivalBefore DEF EndsFirst
  <2>2. /\ A \subseteq B /\ B \subseteq VReg /\ P \subseteq VReg
    BY <1>1, <1>6 DEF EndBefore
  <2>3. CASE hi[c] < p
    <3>1. Cardinality(P) + 1 <= Cardinality(B)
      BY <1>8, <2>3, RivalSpillsOneMore
    <3>2. EndBefore(Spilled \cup {c}, p) = P \cup {c} /\ c \notin P
      BY <1>4, <2>3 DEF EndBefore
    <3>3. IsFiniteSet(P)
      BY <2>2, VRegSets
    <3> HIDE DEF P
    <3>4. Cardinality(P \cup {c}) = Cardinality(P) + 1
      BY <3>2, <3>3, FS_AddElement
    <3> QED
      BY <3>1, <3>2, <3>4
  <2>4. CASE ~ (hi[c] < p)
    <3>1. EndBefore(Spilled \cup {c}, p) = P
      BY <2>4 DEF EndBefore
    <3> HIDE DEF A, B, P
    <3>2. Cardinality(A) <= Cardinality(B)
      BY <2>2, Sizes
    <3>3. Cardinality(A) \in Nat /\ Cardinality(B) \in Nat /\ Cardinality(P) \in Nat
      BY <2>2, VRegSets
    <3>4. Cardinality(P) <= Cardinality(B)
      BY <2>1, <3>2, <3>3
    <3> QED
      BY <3>1, <3>4 DEF B
  <2> QED
    BY <2>3, <2>4
<1>9. ASSUME NEW S \in SUBSET Scanned', Fits(Scanned \ S)' PROVE EndsFirst(S)'
  <2>1. Fits((Scanned \cup {v}) \ S)
    BY <1>1, <1>9 DEF Fits, LiveAt
  <2> QED
    BY <1>1, <1>5, <1>8, <2>1 DEF EndsFirst, EndBefore
<1> QED
  BY <1>5, <1>7, <1>9 DEF SpillsEndLast

(* The comparison holds from the start, when nothing is scanned. *)
LEMMA InitEndLast == Init => SpillsEndLast
<1> SUFFICES ASSUME Init PROVE SpillsEndLast
  OBVIOUS
<1>1. Scanned = {} /\ Spilled = {} /\ num_spills = 0
  BY DEF Init, ScanStart, Scanned, Spilled
<1>2. \A p \in 0 .. MaxPos + 1 : EndBefore({}, p) = {}
  BY DEF EndBefore
<1>3. EndsFirst({})
  BY <1>1, <1>2, FS_EmptySet DEF EndsFirst
<1> QED
  BY <1>1, <1>3, FS_EmptySet DEF SpillsEndLast

(* Every step keeps it: three ways to place v, or nothing happens. *)
LEMMA NextEndLast == IInv /\ SpillsEndLast /\ [Next]_vars => SpillsEndLast'
<1> SUFFICES ASSUME IInv, SpillsEndLast, [Next]_vars PROVE SpillsEndLast'
  OBVIOUS
<1>1. ASSUME NEW v \in VReg, TakeFree(v) PROVE SpillsEndLast'
  BY <1>1, NoSpillStep
<1>2. ASSUME NEW v \in VReg, SpillSelf(v) PROVE SpillsEndLast'
  <2>1. hi \in [VReg -> -1 .. MaxPos]
    BY DEF IInv, TypeOK
  <2>2. \A a \in Kept(v) \cup {v} : hi[a] <= hi[v]
    BY <1>2, <2>1 DEF SpillSelf
  <2> QED
    BY <1>2, <2>2, SpillStep DEF SpillSelf
<1>3. ASSUME NEW v \in VReg, SpillOther(v) PROVE SpillsEndLast'
  <2>1. PICK c \in Kept(v) :
          /\ hi[c] > hi[v]
          /\ \A a \in Kept(v) : hi[a] <= hi[c]
          /\ spill' = [spill EXCEPT ![c] = num_spills]
    BY <1>3 DEF SpillOther
  <2>2. c \in VReg /\ hi \in [VReg -> -1 .. MaxPos]
    BY DEF Kept, IInv, TypeOK, Scanned, Touched
  <2>3. \A a \in Kept(v) \cup {v} : hi[a] <= hi[c]
    BY <2>1, <2>2
  <2>4. /\ Next1st(v) /\ FreeFor(v) = {} /\ todo' = todo \ {v}
        /\ UNCHANGED intervals /\ num_spills' = num_spills + 1
    BY <1>3 DEF SpillOther
  <2> QED
    BY <2>1, <2>3, <2>4, SpillStep
<1>4. CASE UNCHANGED vars
  BY <1>4 DEF SpillsEndLast, EndsFirst, EndBefore, Fits, LiveAt, Spilled, Scanned,
              Touched, vars
<1> QED
  BY <1>1, <1>2, <1>3, <1>4 DEF Next, Scan, Terminated

(* allocate(): evicting the interval that ends last spills as few vregs as  *)
(* any choice could, for every set of intervals and every register file.    *)
THEOREM ScanIsOptimal == Spec => []FewestSpills
<1>1. TypeOK /\ SpillsEndLast => FewestSpills
  <2> SUFFICES ASSUME TypeOK, SpillsEndLast, NEW S \in SUBSET Scanned,
                      Fits(Scanned \ S)
               PROVE  num_spills <= Cardinality(S)
    BY DEF FewestSpills
  <2>1. \A s \in Scanned : hi[s] < MaxPos + 1
    BY LinearScanAssumption DEF TypeOK, Scanned, Touched
  <2>2. EndBefore(Spilled, MaxPos + 1) = Spilled /\ EndBefore(S, MaxPos + 1) = S
    BY <2>1 DEF EndBefore, Spilled
  <2>3. MaxPos + 1 \in 0 .. MaxPos + 1
    BY LinearScanAssumption
  <2>4. Cardinality(EndBefore(Spilled, MaxPos + 1)) <= Cardinality(EndBefore(S, MaxPos + 1))
    BY <2>3 DEF SpillsEndLast, EndsFirst
  <2> QED
    BY <2>2, <2>4 DEF SpillsEndLast
<1>2. Spec => []SpillsEndLast
  BY Invariance, InitEndLast, NextEndLast, PTL DEF Spec
<1> QED
  BY <1>1, <1>2, TypeCorrect, PTL

-----------------------------------------------------------------------------
(* The blocks of a program, one behind the other. *)
InsnsOf(p) == UNION {Range(p[b]) : b \in DOMAIN p}

(* A program is a nonempty list of nonempty blocks, and no block leads outside it. *)
LEMMA ProgramFacts ==
    ASSUME NEW p \in Programs
    PROVE  /\ Len(p) \in Nat \ {0} /\ DOMAIN p = 1 .. Len(p)
           /\ \A b \in DOMAIN p :
                /\ Len(p[b]) \in Nat \ {0} /\ DOMAIN p[b] = 1 .. Len(p[b])
                /\ p[b] \in Seq(InsnsOf(p))
                /\ Last(p[b]) = p[b][Len(p[b])]
                /\ Successors(p[b]) \subseteq DOMAIN p
<1>1. Len(p) \in Nat \ {0} /\ DOMAIN p = 1 .. Len(p)
  BY ProgramsAssumption
<1>2. ASSUME NEW b \in DOMAIN p
      PROVE  /\ Len(p[b]) \in Nat \ {0} /\ DOMAIN p[b] = 1 .. Len(p[b])
             /\ p[b] \in Seq(InsnsOf(p))
             /\ Last(p[b]) = p[b][Len(p[b])]
             /\ Successors(p[b]) \subseteq DOMAIN p
  <2>1. p[b] # <<>> /\ p[b] \in Seq(Range(p[b])) /\ Successors(p[b]) \subseteq DOMAIN p
    BY ProgramsAssumption
  <2>2. Range(p[b]) \subseteq InsnsOf(p)
    BY DEF InsnsOf
  <2> QED
    BY <2>1, <2>2 DEF Last
<1> QED
  BY <1>1, <1>2

(* Insns, a recursive function over the blocks, appends one block at a time. *)
LEMMA InsnsUnfold ==
    ASSUME NEW p \in Programs
    PROVE  /\ Insns(p, 0) = <<>>
           /\ \A b \in 1 .. Len(p) : Insns(p, b) = Insns(p, b - 1) \o p[b]
           /\ \A b \in 0 .. Len(p) : Insns(p, b) \in Seq(InsnsOf(p))
<1> DEFINE S == Seq(InsnsOf(p))
           step == [x \in Nat \X S |-> IF x[1] + 1 \in DOMAIN p THEN x[2] \o p[x[1] + 1]
                                       ELSE x[2]]
           base == <<>>
<1>0. Len(p) \in Nat \ {0} /\ DOMAIN p = 1 .. Len(p) /\ \A b \in DOMAIN p : p[b] \in S
  BY ProgramFacts
<1>1. base \in S /\ step \in [Nat \X S -> S]
  <2>1. ASSUME NEW x \in Nat \X S, x[1] + 1 \in DOMAIN p PROVE x[2] \o p[x[1] + 1] \in S
    <3>1. x[2] \in S /\ p[x[1] + 1] \in S
      BY <1>0, <2>1
    <3> QED
      BY <3>1
  <2>2. \A x \in Nat \X S : x[2] \in S
    OBVIOUS
  <2> QED
    BY <2>1, <2>2
<1>2. PICK c : Recurses(c, S, base, step)
  <2> HIDE DEF S, step, base
  <2> QED
    BY <1>1, RecursionExists
<1>3. c \in [Nat -> S] /\ c[0] = <<>>
  BY <1>2 DEF Recurses
<1>4. ASSUME NEW b \in 1 .. Len(p) PROVE c[b] = c[b - 1] \o p[b]
  <2>1. b - 1 \in Nat /\ (b - 1) + 1 = b
    BY <1>0
  <2>2. c[b] = step[<<b - 1, c[b - 1]>>]
    BY <1>2, <2>1 DEF Recurses
  <2>3. <<b - 1, c[b - 1]>> \in Nat \X S
    BY <1>3, <2>1
  <2> HIDE DEF S
  <2> QED
    BY <1>0, <2>1, <2>2, <2>3
<1> HIDE DEF S, step, base
<1>5. ASSUME NEW b \in 0 .. Len(p) PROVE Insns(p, b) = c[b]
  <2> DEFINE Recurs(h) == h = [k \in 0 .. b |-> IF k = 0 THEN <<>> ELSE h[k - 1] \o p[k]]
             h == [k \in 0 .. b |-> c[k]]
             upTo == CHOOSE f : Recurs(f)
  <2>1. Recurs(h)
    <3> SUFFICES ASSUME NEW k \in 0 .. b, k # 0 PROVE h[k] = h[k - 1] \o p[k]
      BY <1>3
    <3>1. k \in 1 .. Len(p) /\ k - 1 \in 0 .. b
      BY <1>0
    <3> QED
      BY <1>4, <3>1
  <2>2. Recurs(upTo)
    <3> HIDE DEF Recurs, h
    <3> QED
      BY <2>1
  <2>3. Insns(p, b) = upTo[b]
    BY DEF Insns
  <2> HIDE DEF upTo
  <2>4. AgreeUpTo(upTo, h, 0, b)
    <3>1. upTo[0] = h[0]
      BY <1>0, <1>3, <2>2
    <3>2. ASSUME NEW i \in 0 + 1 .. b, upTo[i - 1] = h[i - 1] PROVE upTo[i] = h[i]
      <4>1. i \in 0 .. b /\ i # 0
        BY <1>0
      <4>2. upTo[i] = upTo[i - 1] \o p[i]
        BY <2>2, <4>1
      <4>3. h[i] = h[i - 1] \o p[i]
        BY <2>1, <4>1
      <4> QED
        BY <3>2, <4>2, <4>3
    <3> HIDE DEF h, Recurs
    <3> DEFINE first == 0
    <3>3. first \in Nat /\ b \in Nat /\ upTo[first] = h[first]
      BY <1>0, <3>1
    <3>4. \A i \in first + 1 .. b : upTo[i - 1] = h[i - 1] => upTo[i] = h[i]
      BY <3>2
    <3> HIDE DEF first
    <3>5. AgreeUpTo(upTo, h, first, b)
      BY <3>3, <3>4, Agreement
    <3> QED
      BY <3>5 DEF first
  <2> QED
    BY <1>0, <2>3, <2>4 DEF AgreeUpTo
<1>6. ASSUME NEW b \in 1 .. Len(p) PROVE Insns(p, b) = Insns(p, b - 1) \o p[b]
  <2>1. b \in 0 .. Len(p) /\ b - 1 \in 0 .. Len(p)
    BY <1>0
  <2> QED
    BY <1>4, <1>5, <2>1
<1>7. 0 \in 0 .. Len(p) /\ \A b \in 0 .. Len(p) : b \in Nat
  BY <1>0
<1> QED
  BY <1>3, <1>5, <1>6, <1>7 DEF S

(* What one more block adds. *)
LEMMA BlockAdded ==
    ASSUME NEW p \in Programs, NEW b \in 1 .. Len(p)
    PROVE  /\ BlockLo(p, b) \in Nat /\ BlockHi(p, b) \in Nat
           /\ BlockLo(p, b) = BlockHi(p, b - 1)
           /\ BlockHi(p, b) = BlockLo(p, b) + Len(p[b])
           /\ \A i \in 1 .. BlockLo(p, b) : Insns(p, b)[i] = Insns(p, b - 1)[i]
           /\ \A j \in DOMAIN p[b] : Insns(p, b)[BlockLo(p, b) + j] = p[b][j]
<1> DEFINE S == InsnsOf(p)
           u == Insns(p, b - 1)
           w == p[b]
<1>1. b \in DOMAIN p /\ b \in 0 .. Len(p) /\ b - 1 \in 0 .. Len(p)
  BY ProgramFacts
<1>2. u \in Seq(S) /\ w \in Seq(S) /\ Insns(p, b) = u \o w
  BY <1>1, InsnsUnfold, ProgramFacts
<1>3. BlockLo(p, b) = Len(u) /\ BlockHi(p, b) = Len(Insns(p, b))
      /\ BlockHi(p, b - 1) = Len(u)
  BY DEF BlockLo, BlockHi
<1> HIDE DEF S, u, w
<1>4. /\ Len(u \o w) = Len(u) + Len(w) /\ Len(u) \in Nat /\ Len(w) \in Nat
      /\ \A i \in 1 .. Len(u) : (u \o w)[i] = u[i]
      /\ \A j \in 1 .. Len(w) : (u \o w)[Len(u) + j] = w[j]
      /\ DOMAIN w = 1 .. Len(w)
  BY <1>2
<1>5. /\ Len(Insns(p, b)) = Len(u) + Len(w)
      /\ \A i \in 1 .. Len(u) : Insns(p, b)[i] = u[i]
      /\ \A j \in DOMAIN w : Insns(p, b)[Len(u) + j] = w[j]
  BY <1>2, <1>4
<1>6. /\ BlockLo(p, b) \in Nat /\ BlockHi(p, b) \in Nat
      /\ BlockLo(p, b) = BlockHi(p, b - 1)
      /\ BlockHi(p, b) = BlockLo(p, b) + Len(w)
      /\ \A i \in 1 .. BlockLo(p, b) : Insns(p, b)[i] = u[i]
      /\ \A j \in DOMAIN w : Insns(p, b)[BlockLo(p, b) + j] = w[j]
  BY <1>3, <1>4, <1>5
<1> QED
  BY <1>6 DEF u, w

(* The instructions of fewer blocks begin those of more. *)
Begins(p, b, n) ==
    /\ BlockHi(p, b) <= BlockHi(p, n)
    /\ \A i \in 1 .. BlockHi(p, b) : Insns(p, n)[i] = Insns(p, b)[i]

InBlock(p, b, i) == i \in BlockLo(p, b) + 1 .. BlockHi(p, b)

(* The blocks lie in the code one behind the other, and leave no gap. *)
LEMMA BlocksLined ==
    ASSUME NEW p \in Programs
    PROVE  /\ \A b \in 0 .. Len(p) : BlockHi(p, b) \in Nat
           /\ \A n \in 0 .. Len(p) : \A b \in 0 .. n : Begins(p, b, n)
           /\ \A n \in 0 .. Len(p) : \A i \in 1 .. BlockHi(p, n) :
                \E b \in 1 .. n : InBlock(p, b, i)
<1> DEFINE Lined(n) == /\ \A b \in 0 .. n : Begins(p, b, n)
                       /\ \A i \in 1 .. BlockHi(p, n) : \E b \in 1 .. n : InBlock(p, b, i)
           T == {n \in Nat : n <= Len(p) => Lined(n)}
<1>1. Len(p) \in Nat \ {0}
  BY ProgramFacts
<1>2. \A b \in 0 .. Len(p) : BlockHi(p, b) \in Nat
  BY InsnsUnfold DEF BlockHi
<1>3. 0 \in T
  <2>1. BlockHi(p, 0) = 0
    <3>1. Insns(p, 0) = <<>>
      BY InsnsUnfold
    <3> QED
      BY <3>1 DEF BlockHi
  <2>2. Begins(p, 0, 0)
    BY <2>1 DEF Begins
  <2> QED
    BY <2>1, <2>2
<1>4. ASSUME NEW n \in Nat, n \in T PROVE n + 1 \in T
  <2> SUFFICES ASSUME n + 1 <= Len(p) PROVE Lined(n + 1)
    OBVIOUS
  <2> DEFINE m == n + 1
  <2>1. m \in 1 .. Len(p) /\ m - 1 = n /\ n \in 0 .. Len(p) /\ Lined(n)
    BY <1>1, <1>4
  <2>2. /\ BlockLo(p, m) = BlockHi(p, n)
        /\ BlockHi(p, n) \in Nat /\ BlockHi(p, m) \in Nat
        /\ BlockHi(p, m) = BlockLo(p, m) + Len(p[m])
        /\ \A i \in 1 .. BlockLo(p, m) : Insns(p, m)[i] = Insns(p, n)[i]
    <3> HIDE DEF m
    <3> QED
      BY <2>1, BlockAdded
  <2>3. Len(p[m]) \in Nat
    BY <2>1, ProgramFacts
  <2> HIDE DEF m
  <2>4. ASSUME NEW b \in 0 .. m PROVE Begins(p, b, m)
    <3>1. CASE b = m
      BY <3>1, <2>2 DEF Begins
    <3>2. CASE b # m
      <4>1. b \in 0 .. n /\ BlockHi(p, b) \in Nat
        BY <3>2, <2>1, <1>1, <1>2
      <4>2. Begins(p, b, n)
        BY <4>1, <2>1
      <4> QED
        BY <4>1, <4>2, <2>2, <2>3 DEF Begins
    <3> QED
      BY <3>1, <3>2
  <2>5. ASSUME NEW i \in 1 .. BlockHi(p, m) PROVE \E b \in 1 .. m : InBlock(p, b, i)
    <3>1. CASE i <= BlockHi(p, n)
      <4>1. PICK b \in 1 .. n : InBlock(p, b, i)
        BY <2>1, <2>2, <3>1
      <4>2. b \in 1 .. m
        BY <2>1
      <4> QED
        BY <4>1, <4>2
    <3>2. CASE ~ (i <= BlockHi(p, n))
      <4>1. InBlock(p, m, i)
        BY <3>2, <2>2 DEF InBlock
      <4> QED
        BY <2>1, <4>1
    <3> QED
      BY <3>1, <3>2
  <2> QED
    BY <2>4, <2>5 DEF m
<1>5. Nat \subseteq T
  <2> HIDE DEF T
  <2> QED
    BY <1>3, <1>4, SetInduction
<1>6. \A n \in 0 .. Len(p) : Lined(n)
  BY <1>1, <1>5
<1> QED
  BY <1>2, <1>6

(* Where the blocks lie in the code, and that each instruction is in one. *)
At(p, b, j) == BlockLo(p, b) + j

(* Where the instructions of each block stand in the code of the function. *)
LEMMA CodeLayout ==
    ASSUME NEW p \in Programs
    PROVE  /\ Len(Code(p)) \in Nat /\ DOMAIN Code(p) = 1 .. Len(Code(p))
           /\ \A b \in DOMAIN p :
                /\ BlockLo(p, b) \in Nat /\ BlockHi(p, b) \in Nat
                /\ BlockHi(p, b) = BlockLo(p, b) + Len(p[b])
                /\ BlockHi(p, b) <= Len(Code(p))
                /\ \A j \in DOMAIN p[b] : /\ At(p, b, j) \in DOMAIN Code(p)
                                          /\ Code(p)[At(p, b, j)] = p[b][j]
           /\ \A b, c \in DOMAIN p : b < c => BlockHi(p, b) <= BlockLo(p, c)
           /\ \A i \in DOMAIN Code(p) : \E b \in DOMAIN p : InBlock(p, b, i)
<1> DEFINE L == Len(p)
<1>1. L \in Nat \ {0} /\ DOMAIN p = 1 .. L
  BY ProgramFacts
<1>2. /\ Len(Code(p)) \in Nat /\ DOMAIN Code(p) = 1 .. Len(Code(p))
      /\ Len(Code(p)) = BlockHi(p, L) /\ Code(p) = Insns(p, L)
  <2>1. Code(p) \in Seq(InsnsOf(p))
    <3>1. L \in 0 .. L
      BY <1>1
    <3> QED
      BY <3>1, InsnsUnfold DEF Code
  <2> QED
    BY <2>1 DEF Code, BlockHi
<1> HIDE DEF L
<1>3. L \in 0 .. L /\ Len(p) = L
  BY <1>1 DEF L
<1>4. ASSUME NEW b \in DOMAIN p
      PROVE  /\ BlockLo(p, b) \in Nat /\ BlockHi(p, b) \in Nat
             /\ BlockHi(p, b) = BlockLo(p, b) + Len(p[b])
             /\ BlockHi(p, b) <= Len(Code(p))
             /\ \A j \in DOMAIN p[b] : /\ At(p, b, j) \in DOMAIN Code(p)
                                       /\ Code(p)[At(p, b, j)] = p[b][j]
  <2>1. b \in 1 .. Len(p) /\ b \in 0 .. L
    BY <1>1, <1>3
  <2>2. /\ BlockLo(p, b) \in Nat /\ BlockHi(p, b) \in Nat
        /\ BlockHi(p, b) = BlockLo(p, b) + Len(p[b])
        /\ \A j \in DOMAIN p[b] : Insns(p, b)[BlockLo(p, b) + j] = p[b][j]
    BY <2>1, BlockAdded
  <2>3. Begins(p, b, L)
    BY <2>1, <1>3, BlocksLined
  <2>4. Len(p[b]) \in Nat /\ DOMAIN p[b] = 1 .. Len(p[b])
    BY ProgramFacts
  <2>5. BlockHi(p, b) <= Len(Code(p))
    BY <2>3, <1>2 DEF Begins
  <2>6. ASSUME NEW j \in DOMAIN p[b]
        PROVE  /\ At(p, b, j) \in DOMAIN Code(p)
               /\ Code(p)[At(p, b, j)] = p[b][j]
    <3>1. At(p, b, j) \in 1 .. BlockHi(p, b) /\ At(p, b, j) \in 1 .. Len(Code(p))
      BY <2>2, <2>4, <2>5, <1>2 DEF At
    <3>2. Insns(p, L)[At(p, b, j)] = Insns(p, b)[At(p, b, j)]
      BY <3>1, <2>3 DEF Begins
    <3> QED
      BY <3>1, <3>2, <2>2, <1>2 DEF At
  <2> QED
    BY <2>2, <2>5, <2>6
<1>5. ASSUME NEW b \in DOMAIN p, NEW c \in DOMAIN p, b < c
      PROVE  BlockHi(p, b) <= BlockLo(p, c)
  <2>1. c \in 1 .. Len(p) /\ c - 1 \in 0 .. Len(p) /\ b \in 0 .. c - 1
    BY <1>1, <1>3, <1>5
  <2>2. Begins(p, b, c - 1)
    BY <2>1, BlocksLined
  <2>3. BlockLo(p, c) = BlockHi(p, c - 1)
    BY <2>1, BlockAdded
  <2> QED
    BY <2>2, <2>3 DEF Begins
<1>6. ASSUME NEW i \in DOMAIN Code(p) PROVE \E b \in DOMAIN p : InBlock(p, b, i)
  <2>1. i \in 1 .. BlockHi(p, L)
    BY <1>2
  <2>2. \E b \in 1 .. L : InBlock(p, b, i)
    BY <2>1, <1>3, BlocksLined
  <2> QED
    BY <2>2, <1>1
<1> QED
  BY <1>2, <1>4, <1>5, <1>6

-----------------------------------------------------------------------------
(* Which instruction can follow which: the next one of the same block, or   *)
(* the first of a block the terminator jumps to.                            *)
FlowsTo(p, b, i, j) ==
    \/ InBlock(p, b, i) /\ InBlock(p, b, j) /\ j = i + 1
    \/ /\ i = BlockHi(p, b)
       /\ \E s \in Successors(p[b]) : j = BlockLo(p, s) + 1

(* Flow, a union over the blocks, holds a pair exactly if some block makes it. *)
LEMMA FlowFacts ==
    ASSUME NEW p \in Programs
    PROVE  /\ \A e \in Flow(p) : /\ e = <<e[1], e[2]>>
                                 /\ e[1] \in DOMAIN Code(p) /\ e[2] \in DOMAIN Code(p)
           /\ \A i, j : <<i, j>> \in Flow(p) <=> \E b \in DOMAIN p : FlowsTo(p, b, i, j)
<1>1. ASSUME NEW b \in DOMAIN p
      PROVE  /\ BlockLo(p, b) \in Nat /\ BlockHi(p, b) \in Nat
             /\ BlockLo(p, b) < BlockHi(p, b) /\ BlockHi(p, b) <= Len(Code(p))
             /\ Successors(p[b]) \subseteq DOMAIN p
  <2>1. Len(p[b]) \in Nat \ {0} /\ Successors(p[b]) \subseteq DOMAIN p
    BY ProgramFacts
  <2>2. /\ BlockLo(p, b) \in Nat /\ BlockHi(p, b) \in Nat
        /\ BlockHi(p, b) = BlockLo(p, b) + Len(p[b])
        /\ BlockHi(p, b) <= Len(Code(p))
    BY CodeLayout
  <2> QED
    BY <2>1, <2>2
<1>2. ASSUME NEW b \in DOMAIN p, NEW i, NEW j
      PROVE  <<i, j>> \in Following(p, b) <=> FlowsTo(p, b, i, j)
  <2> DEFINE low == BlockLo(p, b)
             high == BlockHi(p, b)
  <2>1. low \in Nat /\ high \in Nat /\ low < high
    BY <1>1
  <2> HIDE DEF low, high
  <2>2. i \in low + 1 .. high - 1 /\ j = i + 1
           <=> i \in low + 1 .. high /\ j \in low + 1 .. high /\ j = i + 1
    BY <2>1
  <2>3. <<i, j>> \in {<<k, k + 1>> : k \in low + 1 .. high - 1}
           <=> i \in low + 1 .. high - 1 /\ j = i + 1
    OBVIOUS
  <2>4. <<i, j>> \in {<<high, BlockLo(p, s) + 1>> : s \in Successors(p[b])}
           <=> i = high /\ \E s \in Successors(p[b]) : j = BlockLo(p, s) + 1
    OBVIOUS
  <2> QED
    BY <2>2, <2>3, <2>4 DEF Following, FlowsTo, InBlock, low, high
<1>3. ASSUME NEW e \in Flow(p)
      PROVE  /\ e = <<e[1], e[2]>>
             /\ e[1] \in DOMAIN Code(p) /\ e[2] \in DOMAIN Code(p)
  <2>1. PICK b \in DOMAIN p : e \in Following(p, b)
    BY DEF Flow
  <2>2. e = <<e[1], e[2]>>
    BY <2>1 DEF Following
  <2>3. FlowsTo(p, b, e[1], e[2])
    BY <1>2, <2>1, <2>2
  <2>4. DOMAIN Code(p) = 1 .. Len(Code(p)) /\ Len(Code(p)) \in Nat
    BY CodeLayout
  <2>5. ASSUME NEW c \in DOMAIN p, NEW k, InBlock(p, c, k) PROVE k \in DOMAIN Code(p)
    BY <1>1, <2>4, <2>5 DEF InBlock
  <2>6. ASSUME NEW c \in DOMAIN p
        PROVE  InBlock(p, c, BlockHi(p, c)) /\ InBlock(p, c, BlockLo(p, c) + 1)
    BY <1>1 DEF InBlock
  <2> QED
    BY <1>1, <2>2, <2>3, <2>5, <2>6 DEF FlowsTo
<1>4. \A i, j : <<i, j>> \in Flow(p) <=> \E b \in DOMAIN p : FlowsTo(p, b, i, j)
  BY <1>2 DEF Flow
<1> QED
  BY <1>3, <1>4

(* What the reference calls live before an instruction is the least set     *)
(* that holds where v is read and is closed under looking ahead.            *)
Reads(p, v) == {i \in DOMAIN Code(p) : v \in Uses(Code(p)[i])}

Behind(p, v, A) ==
    A \cup {e[1] : e \in {f \in Flow(p) : Def(Code(p)[f[1]]) # v /\ f[2] \in A}}

Ahead(p, v) == ReadAhead(Code(p), Flow(p), v)

(* One step of the walk backwards adds what flows into the set without
   writing v. *)
LEMMA BehindFacts ==
    ASSUME NEW p \in Programs, NEW v, NEW A \in SUBSET DOMAIN Code(p)
    PROVE  /\ Behind(p, v, A) \in SUBSET DOMAIN Code(p)
           /\ A \subseteq Behind(p, v, A)
           /\ \A i : i \in Behind(p, v, A) <=>
                \/ i \in A
                \/ Def(Code(p)[i]) # v /\ \E j \in A : <<i, j>> \in Flow(p)
<1>1. \A e \in Flow(p) : e = <<e[1], e[2]>> /\ e[1] \in DOMAIN Code(p)
  BY FlowFacts
<1>2. ASSUME NEW i
      PROVE i \in Behind(p, v, A) <=>
                \/ i \in A
                \/ Def(Code(p)[i]) # v /\ \E j \in A : <<i, j>> \in Flow(p)
  <2>1. ASSUME i \in Behind(p, v, A), i \notin A
        PROVE  Def(Code(p)[i]) # v /\ \E j \in A : <<i, j>> \in Flow(p)
    <3>1. PICK e \in Flow(p) : i = e[1] /\ Def(Code(p)[e[1]]) # v /\ e[2] \in A
      BY <2>1 DEF Behind
    <3> QED
      BY <3>1, <1>1
  <2>2. ASSUME Def(Code(p)[i]) # v, NEW j \in A, <<i, j>> \in Flow(p)
        PROVE  i \in Behind(p, v, A)
    <3> DEFINE e == <<i, j>>
    <3>1. e \in {f \in Flow(p) : Def(Code(p)[f[1]]) # v /\ f[2] \in A} /\ e[1] = i
      BY <2>2
    <3> HIDE DEF e
    <3> QED
      BY <3>1 DEF Behind
  <2>3. i \in A => i \in Behind(p, v, A)
    BY DEF Behind
  <2> QED
    BY <2>1, <2>2, <2>3
<1> QED
  BY <1>1, <1>2 DEF Behind

(* Ahead, a recursive function, is the last of a chain of such steps. *)
LEMMA AheadUnfold ==
    ASSUME NEW p \in Programs, NEW v
    PROVE  \E c \in [Nat -> SUBSET DOMAIN Code(p)] :
              /\ c[0] = Reads(p, v)
              /\ \A n \in Nat : c[n + 1] = Behind(p, v, c[n])
              /\ Ahead(p, v) = c[Len(Code(p))]
<1> DEFINE D == DOMAIN Code(p)
           S == SUBSET D
           from == Reads(p, v)
           step == [s \in Nat \X S |-> Behind(p, v, s[2])]
<1>1. from \in S /\ step \in [Nat \X S -> S]
  <2>1. ASSUME NEW s \in Nat \X S PROVE Behind(p, v, s[2]) \in S
    BY BehindFacts
  <2>2. from \in S
    BY DEF Reads
  <2> HIDE DEF S
  <2> QED
    BY <2>1, <2>2
<1>2. PICK c : Recurses(c, S, from, step)
  <2> HIDE DEF S, step, from
  <2> QED
    BY <1>1, RecursionExists
<1>3. /\ c \in [Nat -> S] /\ c[0] = from
      /\ \A n \in Nat : c[n + 1] = Behind(p, v, c[n])
  <2>1. c \in [Nat -> S] /\ c[0] = from /\ \A n \in Nat : c[n + 1] = step[<<n, c[n]>>]
    BY <1>2 DEF Recurses
  <2>2. ASSUME NEW n \in Nat PROVE step[<<n, c[n]>>] = Behind(p, v, c[n])
    <3>1. <<n, c[n]>> \in Nat \X S /\ <<n, c[n]>>[2] = c[n]
      BY <2>1
    <3> HIDE DEF S
    <3> QED
      BY <3>1
  <2> HIDE DEF step
  <2> QED
    BY <2>1, <2>2
<1> DEFINE Recurs(h) == h = [k \in Nat |-> IF k = 0 THEN from ELSE Behind(p, v, h[k - 1])]
<1> HIDE DEF from
<1>4. Recurs(c)
  <2>1. ASSUME NEW k \in Nat, k # 0 PROVE c[k] = Behind(p, v, c[k - 1])
    <3>1. k - 1 \in Nat /\ (k - 1) + 1 = k
      BY <2>1
    <3> QED
      BY <1>3, <3>1
  <2> QED
    BY <1>3, <2>1
<1> DEFINE within == CHOOSE h : Recurs(h)
<1>5. Recurs(within)
  <2> HIDE DEF Recurs
  <2> QED
    BY <1>4
<1>6. Ahead(p, v) = within[Len(Code(p))]
  BY DEF Ahead, ReadAhead, Behind, Reads, from
<1>7. ASSUME NEW n \in Nat PROVE within[n] = c[n]
  <2> DEFINE T == {k \in Nat : within[k] = c[k]}
  <2>1. 0 \in T
    BY <1>3, <1>5
  <2>2. ASSUME NEW k \in Nat, k \in T PROVE k + 1 \in T
    <3>1. within[k] = c[k] /\ k + 1 \in Nat /\ k + 1 # 0 /\ (k + 1) - 1 = k
      BY <2>2
    <3>2. within[k + 1] = Behind(p, v, within[k])
      BY <1>5, <3>1
    <3> QED
      BY <1>3, <3>1, <3>2
  <2> HIDE DEF T
  <2>3. Nat \subseteq T
    BY <2>1, <2>2, SetInduction
  <2> QED
    BY <2>3 DEF T
<1>8. Len(Code(p)) \in Nat
  BY CodeLayout
<1> HIDE DEF within
<1> QED
  BY <1>3, <1>6, <1>7, <1>8 DEF from

(* The chain is as long as the code, so it has stopped growing: Ahead holds the
   reads of v and is closed under the walk. *)
LEMMA AheadIsClosed ==
    ASSUME NEW p \in Programs, NEW v
    PROVE  /\ Ahead(p, v) \subseteq DOMAIN Code(p)
           /\ Reads(p, v) \subseteq Ahead(p, v)
           /\ Behind(p, v, Ahead(p, v)) = Ahead(p, v)
<1>1. PICK c \in [Nat -> SUBSET DOMAIN Code(p)] :
              /\ c[0] = Reads(p, v)
              /\ \A n \in Nat : c[n + 1] = Behind(p, v, c[n])
              /\ Ahead(p, v) = c[Len(Code(p))]
  BY AheadUnfold
<1> DEFINE N == DOMAIN Code(p)
           k == Len(Code(p))
<1>2. k \in Nat /\ N = 1 .. k
  BY CodeLayout
<1>3. IsFiniteSet(N) /\ Cardinality(N) = k
  <2>1. 1 \in Int /\ k \in Int /\ (1 > k => k = 0) /\ k - 1 + 1 = k
    BY <1>2
  <2> HIDE DEF k, N
  <2>2. IsFiniteSet(1 .. k) /\ Cardinality(1 .. k) = IF 1 > k THEN 0 ELSE k - 1 + 1
    BY <2>1, FS_Interval
  <2> QED
    BY <1>2, <2>1, <2>2
<1>4. ASSUME NEW n \in Nat PROVE c[n] \subseteq c[n + 1]
  <2>1. c[n] \in SUBSET DOMAIN Code(p) /\ c[n + 1] = Behind(p, v, c[n])
    BY <1>1
  <2> QED
    BY <2>1, BehindFacts
<1>5. ASSUME NEW n \in Nat, c[n + 1] = c[n] PROVE c[n + 2] = c[n + 1]
  <2>1. n + 1 \in Nat /\ (n + 1) + 1 = n + 2
    OBVIOUS
  <2>2. c[(n + 1) + 1] = Behind(p, v, c[n + 1])
    BY <1>1, <2>1
  <2> QED
    BY <1>1, <1>5, <2>1, <2>2
<1> HIDE DEF k
<1>6. c[k + 1] = c[k]
  <2>1. c \in [Nat -> SUBSET N] /\ IsFiniteSet(N) /\ Cardinality(N) <= k
    BY <1>2, <1>3
  <2> HIDE DEF N
  <2> QED
    BY <1>2, <1>4, <1>5, <2>1, GrowthStops
<1>7. Reads(p, v) \subseteq c[k]
  <2> DEFINE T == {n \in Nat : Reads(p, v) \subseteq c[n]}
  <2>1. 0 \in T /\ \A n \in Nat : n \in T => n + 1 \in T
    BY <1>1, <1>4
  <2> HIDE DEF T
  <2>2. k \in T
    BY <1>2, <2>1, SetInduction
  <2> QED
    BY <2>2 DEF T
<1>8. c[k + 1] = Behind(p, v, c[k]) /\ Ahead(p, v) = c[k] /\ c[k] \subseteq N
  BY <1>1, <1>2 DEF k
<1> QED
  BY <1>6, <1>7, <1>8

(* Every closed set that holds the reads of v holds Ahead. *)
LEMMA AheadIsLeast ==
    ASSUME NEW p \in Programs, NEW v, NEW X \in SUBSET DOMAIN Code(p),
           Reads(p, v) \subseteq X, Behind(p, v, X) = X
    PROVE  Ahead(p, v) \subseteq X
<1>1. PICK c \in [Nat -> SUBSET DOMAIN Code(p)] :
              /\ c[0] = Reads(p, v)
              /\ \A n \in Nat : c[n + 1] = Behind(p, v, c[n])
              /\ Ahead(p, v) = c[Len(Code(p))]
  BY AheadUnfold
<1> DEFINE T == {n \in Nat : c[n] \subseteq X}
<1>2. 0 \in T /\ \A n \in Nat : n \in T => n + 1 \in T
  <2>1. ASSUME NEW n \in Nat, n \in T PROVE n + 1 \in T
    <3>1. c[n] \subseteq X /\ c[n] \in SUBSET DOMAIN Code(p)
      BY <2>1
    <3>2. Behind(p, v, c[n]) \subseteq Behind(p, v, X)
      BY <3>1, BehindFacts
    <3> QED
      BY <1>1, <3>2
  <2> QED
    BY <1>1, <2>1
<1> HIDE DEF T
<1>3. Len(Code(p)) \in T
  BY <1>2, SetInduction, CodeLayout
<1> QED
  BY <1>1, <1>3 DEF T

(* The same, by block and place in the block. *)
LEMMA Places ==
    ASSUME NEW p \in Programs
    PROVE  /\ \A b \in DOMAIN p : \A j \in DOMAIN p[b] :
                /\ InBlock(p, b, At(p, b, j)) /\ At(p, b, j) \in DOMAIN Code(p)
                /\ Code(p)[At(p, b, j)] = p[b][j]
                /\ \A c \in DOMAIN p : InBlock(p, c, At(p, b, j)) => c = b
           /\ \A b \in DOMAIN p : /\ At(p, b, 1) = BlockLo(p, b) + 1
                                  /\ At(p, b, Len(p[b])) = BlockHi(p, b)
           /\ \A b \in DOMAIN p : \A i : InBlock(p, b, i) =>
                \E j \in DOMAIN p[b] : i = At(p, b, j)
           /\ \A i \in DOMAIN Code(p) :
                \E b \in DOMAIN p : \E j \in DOMAIN p[b] : i = At(p, b, j)
<1>1. ASSUME NEW b \in DOMAIN p
      PROVE  /\ BlockLo(p, b) \in Nat /\ BlockHi(p, b) \in Nat
             /\ BlockHi(p, b) = BlockLo(p, b) + Len(p[b])
             /\ Len(p[b]) \in Nat /\ DOMAIN p[b] = 1 .. Len(p[b])
             /\ b \in Int
  <2>1. b \in Int /\ Len(p[b]) \in Nat /\ DOMAIN p[b] = 1 .. Len(p[b])
    BY ProgramFacts
  <2> QED
    BY <2>1, CodeLayout
<1>2. ASSUME NEW b \in DOMAIN p, NEW j \in DOMAIN p[b]
      PROVE  /\ InBlock(p, b, At(p, b, j)) /\ At(p, b, j) \in DOMAIN Code(p)
             /\ Code(p)[At(p, b, j)] = p[b][j]
             /\ \A c \in DOMAIN p : InBlock(p, c, At(p, b, j)) => c = b
  <2>1. InBlock(p, b, At(p, b, j))
    BY <1>1 DEF InBlock, At
  <2>2. ASSUME NEW c \in DOMAIN p, InBlock(p, c, At(p, b, j)), c # b PROVE FALSE
    <3>1. c < b \/ b < c
      BY <1>1, <2>2
    <3>2. BlockHi(p, c) <= BlockLo(p, b) \/ BlockHi(p, b) <= BlockLo(p, c)
      BY <3>1, CodeLayout
    <3> QED
      BY <1>1, <2>1, <2>2, <3>2 DEF InBlock
  <2> QED
    BY <2>1, <2>2, CodeLayout
<1>3. ASSUME NEW b \in DOMAIN p
      PROVE  At(p, b, 1) = BlockLo(p, b) + 1 /\ At(p, b, Len(p[b])) = BlockHi(p, b)
  BY <1>1 DEF At
<1>4. ASSUME NEW b \in DOMAIN p, NEW i, InBlock(p, b, i)
      PROVE  \E j \in DOMAIN p[b] : i = At(p, b, j)
  <2> DEFINE j == i - BlockLo(p, b)
  <2>1. j \in DOMAIN p[b] /\ i = BlockLo(p, b) + j
    BY <1>1, <1>4 DEF InBlock
  <2> QED
    BY <2>1 DEF At
<1>5. ASSUME NEW i \in DOMAIN Code(p)
      PROVE  \E b \in DOMAIN p : \E j \in DOMAIN p[b] : i = At(p, b, j)
  <2>1. PICK b \in DOMAIN p : InBlock(p, b, i)
    BY CodeLayout
  <2> QED
    BY <2>1, <1>4
<1> QED
  BY <1>2, <1>3, <1>4, <1>5

Goes(p, b, j, i) ==
    \/ j < Len(p[b]) /\ i = At(p, b, j + 1)
    \/ j = Len(p[b]) /\ \E s \in Successors(p[b]) : i = At(p, s, 1)

(* What follows the j-th instruction of a block: the next of the block, or the
   first of a successor behind the last. *)
LEMMA FlowOfPlace ==
    ASSUME NEW p \in Programs, NEW b \in DOMAIN p, NEW j \in DOMAIN p[b], NEW i
    PROVE  <<At(p, b, j), i>> \in Flow(p) <=> Goes(p, b, j, i)
<1>1. /\ BlockLo(p, b) \in Nat /\ BlockHi(p, b) \in Nat
      /\ BlockHi(p, b) = BlockLo(p, b) + Len(p[b])
      /\ Len(p[b]) \in Nat \ {0} /\ DOMAIN p[b] = 1 .. Len(p[b])
      /\ Successors(p[b]) \subseteq DOMAIN p
      /\ At(p, b, j) = BlockLo(p, b) + j
      /\ At(p, b, j + 1) = BlockLo(p, b) + (j + 1)
      /\ \A s \in Successors(p[b]) : At(p, s, 1) = BlockLo(p, s) + 1
  BY ProgramFacts, CodeLayout DEF At
<1>2. <<At(p, b, j), i>> \in Flow(p)
        <=> \E c \in DOMAIN p : FlowsTo(p, c, At(p, b, j), i)
  BY FlowFacts
<1>3. ASSUME NEW c \in DOMAIN p, FlowsTo(p, c, At(p, b, j), i) PROVE c = b
  <2>1. InBlock(p, c, BlockHi(p, c))
    <3>1. /\ BlockLo(p, c) \in Nat /\ BlockHi(p, c) = BlockLo(p, c) + Len(p[c])
          /\ Len(p[c]) \in Nat \ {0}
      BY ProgramFacts, CodeLayout
    <3> QED
      BY <3>1 DEF InBlock
  <2>2. InBlock(p, c, At(p, b, j))
    BY <1>3, <2>1 DEF FlowsTo
  <2> QED
    BY <2>2, Places
<1>4. FlowsTo(p, b, At(p, b, j), i) <=> Goes(p, b, j, i)
  <2>1. j \in 1 .. Len(p[b])
    BY <1>1
  <2> HIDE DEF At
  <2>2. At(p, b, j) = BlockHi(p, b) <=> j = Len(p[b])
    BY <1>1, <2>1
  <2>3. ASSUME i = At(p, b, j) + 1
        PROVE  /\ i = At(p, b, j + 1)
               /\ InBlock(p, b, i) <=> j < Len(p[b])
    BY <1>1, <2>1, <2>3 DEF InBlock
  <2>4. i = At(p, b, j + 1) <=> i = At(p, b, j) + 1
    BY <1>1, <2>1
  <2>5. InBlock(p, b, At(p, b, j))
    BY Places
  <2>6. (\E s \in Successors(p[b]) : i = BlockLo(p, s) + 1)
          <=> \E s \in Successors(p[b]) : i = At(p, s, 1)
    BY <1>1
  <2> QED
    BY <2>2, <2>3, <2>4, <2>5, <2>6 DEF FlowsTo, Goes
<1> QED
  BY <1>2, <1>3, <1>4

-----------------------------------------------------------------------------
(* What is truly live into and out of a block. *)
TrueIn(p, b) == {v \in VReg : At(p, b, 1) \in Ahead(p, v)}

TrueOut(p, b) == UNION {TrueIn(p, s) : s \in Successors(p[b])}

(* Truly live after the instruction numbered i. *)
LiveAfter(p, v, i) == \E j \in Ahead(p, v) : <<i, j>> \in Flow(p)

(* A vreg is wanted behind the last instruction of a block exactly if it is
   live out of the block. *)
LEMMA OutOfLast ==
    ASSUME NEW p \in Programs, NEW b \in DOMAIN p, NEW v \in VReg
    PROVE  LiveAfter(p, v, BlockHi(p, b)) <=> v \in TrueOut(p, b)
<1>1. Len(p[b]) \in DOMAIN p[b] /\ At(p, b, Len(p[b])) = BlockHi(p, b) /\ Len(p[b]) \in Nat
  BY ProgramFacts, Places
<1>2. \A i : <<BlockHi(p, b), i>> \in Flow(p) <=>
         \E s \in Successors(p[b]) : i = At(p, s, 1)
  <2>1. \A i : Goes(p, b, Len(p[b]), i) <=> \E s \in Successors(p[b]) : i = At(p, s, 1)
    BY <1>1 DEF Goes
  <2> QED
    BY <2>1, <1>1, FlowOfPlace
<1>3. v \in TrueOut(p, b) <=> \E s \in Successors(p[b]) : At(p, s, 1) \in Ahead(p, v)
  BY DEF TrueOut, TrueIn
<1>4. LiveAfter(p, v, BlockHi(p, b))
        <=> \E s \in Successors(p[b]) : At(p, s, 1) \in Ahead(p, v)
  BY <1>2 DEF LiveAfter
<1> QED
  BY <1>3, <1>4

(* The fields of the table of true liveness, each by its definition. *)
LEMMA TruthFacts ==
    ASSUME NEW p \in Programs
    PROVE  /\ Truth[p].in = [b \in DOMAIN p |-> TrueIn(p, b)]
           /\ Truth[p].out = [b \in DOMAIN p |-> TrueOut(p, b)]
           /\ Truth[p].lo = LoOf(p, Truth[p].in, Truth[p].out)
           /\ Truth[p].hi = HiOf(p, Truth[p].in, Truth[p].out)
           /\ \A v, i : <<v, i>> \in Truth[p].after <=> v \in VReg /\ LiveAfter(p, v, i)
<1> DEFINE before == UNION {{v} \X ReadAhead(Code(p), Flow(p), v) : v \in VReg}
           after == {<<x[1][1], x[2][1]>> :
                       x \in {y \in before \X Flow(p) : y[1][2] = y[2][2]}}
           in == [b \in DOMAIN p |->
                     {v \in VReg : <<v, BlockLo(p, b) + 1>> \in before}]
           out == [b \in DOMAIN p |->
                      {v \in VReg : <<v, BlockHi(p, b)>> \in after}]
<1>1. Truth[p] = [after |-> after, in |-> in, out |-> out,
                  lo |-> LoOf(p, in, out), hi |-> HiOf(p, in, out)]
  BY DEF Truth, TrueLiveness
<1>2. \A v, i : <<v, i>> \in before <=> v \in VReg /\ i \in Ahead(p, v)
  BY DEF Ahead
<1>3. ASSUME NEW v, NEW i
      PROVE  <<v, i>> \in after <=> v \in VReg /\ LiveAfter(p, v, i)
  <2> HIDE DEF before
  <2>1. ASSUME <<v, i>> \in after PROVE v \in VReg /\ LiveAfter(p, v, i)
    <3>1. PICK a \in before, e \in Flow(p) : a[2] = e[2] /\ v = a[1] /\ i = e[1]
      BY <2>1
    <3>2. e = <<e[1], e[2]>>
      BY FlowFacts
    <3>3. a = <<a[1], a[2]>>
      BY DEF before
    <3>4. <<v, e[2]>> \in before /\ <<i, e[2]>> \in Flow(p)
      BY <3>1, <3>2, <3>3
    <3> QED
      BY <3>4, <1>2 DEF LiveAfter
  <2>2. ASSUME v \in VReg, LiveAfter(p, v, i) PROVE <<v, i>> \in after
    <3>1. PICK j \in Ahead(p, v) : <<i, j>> \in Flow(p)
      BY <2>2 DEF LiveAfter
    <3>2. <<v, j>> \in before
      BY <1>2, <2>2
    <3> DEFINE x == <<<<v, j>>, <<i, j>>>>
    <3>3. x \in {y \in before \X Flow(p) : y[1][2] = y[2][2]}
          /\ x[1][1] = v /\ x[2][1] = i
      BY <3>1, <3>2
    <3> HIDE DEF x
    <3> QED
      BY <3>3
  <2> QED
    BY <2>1, <2>2
<1> HIDE DEF before, after
<1>4. in = [b \in DOMAIN p |-> TrueIn(p, b)]
  <2>1. ASSUME NEW b \in DOMAIN p
        PROVE  {v \in VReg : <<v, BlockLo(p, b) + 1>> \in before} = TrueIn(p, b)
    BY <1>2 DEF TrueIn, At
  <2> QED
    BY <2>1
<1>5. out = [b \in DOMAIN p |-> TrueOut(p, b)]
  <2>1. ASSUME NEW b \in DOMAIN p
        PROVE  {v \in VReg : <<v, BlockHi(p, b)>> \in after} = TrueOut(p, b)
    <3>1. TrueOut(p, b) \subseteq VReg
      BY DEF TrueOut, TrueIn
    <3> QED
      BY <3>1, <1>3, OutOfLast
  <2> QED
    BY <2>1
<1> HIDE DEF in, out
<1> QED
  BY <1>1, <1>3, <1>4, <1>5

(* Read from place j of a block on before it is written there, or not       *)
(* written there at all and live out of the block, when `out` is.           *)
LocalLive(p, b, out, v, j) ==
    \/ \E k \in j .. Len(p[b]) : /\ v \in Uses(p[b][k])
                                 /\ \A m \in j .. k - 1 : Def(p[b][m]) # v
    \/ v \in out /\ \A m \in j .. Len(p[b]) : Def(p[b][m]) # v

(* Liveness inside a block, one instruction further back. *)
LEMMA LocalStep ==
    ASSUME NEW p \in Programs, NEW b \in DOMAIN p, NEW out, NEW v,
           NEW j \in DOMAIN p[b]
    PROVE  LocalLive(p, b, out, v, j) <=>
              \/ v \in Uses(p[b][j])
              \/ /\ Def(p[b][j]) # v
                 /\ IF j < Len(p[b]) THEN LocalLive(p, b, out, v, j + 1) ELSE v \in out
<1> DEFINE len == Len(p[b])
           U(k) == v \in Uses(p[b][k])
           D(k) == Def(p[b][k]) = v
<1>1. len \in Nat /\ j \in 1 .. len
  BY ProgramFacts
<1>2. \A i : LocalLive(p, b, out, v, i) <=>
          \/ \E k \in i .. len : U(k) /\ \A m \in i .. k - 1 : ~ D(m)
          \/ v \in out /\ \A m \in i .. len : ~ D(m)
  BY DEF LocalLive
<1> HIDE DEF len, U, D
<1>3. CASE j < len
  <2>1. ASSUME NEW k \in j .. len, k # j
        PROVE  (\A m \in j .. k - 1 : ~ D(m)) <=> ~ D(j) /\ \A m \in j + 1 .. k - 1 : ~ D(m)
    BY <1>1, <1>3, <2>1
  <2>2. (\A m \in j .. len : ~ D(m)) <=> ~ D(j) /\ \A m \in j + 1 .. len : ~ D(m)
    BY <1>1, <1>3
  <2>3. \A m \in j .. j - 1 : ~ D(m)
    BY <1>1
  <2>4. \A k : k \in j .. len <=> k = j \/ k \in j + 1 .. len
    BY <1>1, <1>3
  <2>5. \A k \in j + 1 .. len : k # j
    BY <1>1
  <2>6. (\E k \in j .. len : U(k) /\ \A m \in j .. k - 1 : ~ D(m))
          <=> U(j) \/ (~ D(j) /\ \E k \in j + 1 .. len : U(k) /\ \A m \in j + 1 .. k - 1 : ~ D(m))
    BY <2>1, <2>3, <2>4, <2>5
  <2> QED
    BY <1>2, <1>3, <2>2, <2>6 DEF len, U, D
<1>4. CASE ~ (j < len)
  <2>1. j = len
    BY <1>1, <1>4
  <2>2. \A k : k \in j .. len <=> k = j
    BY <1>1, <2>1
  <2>3. \A m \in j .. j - 1 : ~ D(m)
    BY <1>1
  <2> QED
    BY <1>2, <1>4, <2>2, <2>3 DEF len, U, D
<1> QED
  BY <1>3, <1>4

(* Whatever is live at the first place of a block is in its `in` set. *)
LEMMA LocalFirst ==
    ASSUME NEW p \in Programs, NEW b \in DOMAIN p, NEW out, NEW v \in VReg
    PROVE  LocalLive(p, b, out, v, 1) <=> v \in Gen(p[b]) \cup (out \ Kill(p[b]))
<1> DEFINE len == Len(p[b])
<1>1. DOMAIN p[b] = 1 .. len /\ v # VNONE
  BY ProgramFacts, AllocateAssumption DEF VNONE
<1>2. v \in Kill(p[b]) <=> \E m \in 1 .. len : Def(p[b][m]) = v
  BY <1>1 DEF Kill
<1>3. v \in Gen(p[b]) <=>
        \E k \in 1 .. len : v \in Uses(p[b][k]) /\ \A m \in 1 .. k - 1 : Def(p[b][m]) # v
  BY <1>1 DEF Gen
<1> QED
  BY <1>2, <1>3 DEF LocalLive

(* Going back within a block from a place v is live at. *)
LEMMA BackUp ==
    ASSUME NEW p \in Programs, NEW b \in DOMAIN p, NEW v, NEW k \in DOMAIN p[b],
           At(p, b, k) \in Ahead(p, v), NEW j \in 1 .. k,
           \A m \in j .. k - 1 : Def(p[b][m]) # v
    PROVE  At(p, b, j) \in Ahead(p, v)
<1> DEFINE T == {n \in Nat : k - n >= j => At(p, b, k - n) \in Ahead(p, v)}
<1>1. Len(p[b]) \in Nat /\ DOMAIN p[b] = 1 .. Len(p[b]) /\ k \in 1 .. Len(p[b])
  BY ProgramFacts
<1>2. 0 \in T
  <2>1. k - 0 = k
    BY <1>1
  <2> QED
    BY <2>1
<1>3. ASSUME NEW n \in Nat, n \in T PROVE n + 1 \in T
  <2> SUFFICES ASSUME k - (n + 1) >= j PROVE At(p, b, k - (n + 1)) \in Ahead(p, v)
    OBVIOUS
  <2> DEFINE i == k - (n + 1)
  <2>1. /\ i \in 1 .. Len(p[b]) /\ i \in j .. k - 1 /\ i < Len(p[b])
        /\ i + 1 = k - n /\ k - n >= j
    BY <1>1
  <2> HIDE DEF i
  <2>2. At(p, b, i + 1) \in Ahead(p, v) /\ Def(p[b][i]) # v
    BY <1>3, <2>1
  <2>3. i \in DOMAIN p[b]
    BY <1>1, <2>1
  <2>4. Goes(p, b, i, At(p, b, i + 1))
    BY <2>1 DEF Goes
  <2>5. <<At(p, b, i), At(p, b, i + 1)>> \in Flow(p)
    BY <2>3, <2>4, FlowOfPlace
  <2>6. Def(Code(p)[At(p, b, i)]) # v
    BY <2>2, <2>3, Places
  <2>7. Ahead(p, v) \in SUBSET DOMAIN Code(p) /\ Behind(p, v, Ahead(p, v)) = Ahead(p, v)
    BY AheadIsClosed
  <2>8. At(p, b, i) \in Ahead(p, v)
    BY <2>2, <2>5, <2>6, <2>7, BehindFacts
  <2> QED
    BY <2>8 DEF i
<1>4. k - j \in T
  <2> HIDE DEF T
  <2>1. k - j \in Nat
    BY <1>1
  <2> QED
    BY <1>2, <1>3, <2>1, SetInduction
<1>5. k - (k - j) = j
  BY <1>1
<1> QED
  BY <1>4, <1>5, <1>1

(* A block's equation gives no more than what is truly live. *)
LEMMA BlockIsTrue ==
    ASSUME NEW p \in Programs, NEW b \in DOMAIN p, NEW out \in SUBSET TrueOut(p, b)
    PROVE  Gen(p[b]) \cup (out \ Kill(p[b])) \subseteq TrueIn(p, b)
<1> SUFFICES ASSUME NEW v \in Gen(p[b]) \cup (out \ Kill(p[b]))
             PROVE  v \in TrueIn(p, b)
  OBVIOUS
<1>1. v \in VReg
  BY DEF Gen, TrueOut, TrueIn
<1>2. LocalLive(p, b, out, v, 1)
  BY <1>1, LocalFirst
<1>3. Len(p[b]) \in Nat \ {0} /\ DOMAIN p[b] = 1 .. Len(p[b])
  BY ProgramFacts
<1>4. Ahead(p, v) \in SUBSET DOMAIN Code(p) /\ Reads(p, v) \subseteq Ahead(p, v)
      /\ Behind(p, v, Ahead(p, v)) = Ahead(p, v)
  BY AheadIsClosed
<1>5. PICK k \in DOMAIN p[b] : /\ At(p, b, k) \in Ahead(p, v)
                               /\ \A m \in 1 .. k - 1 : Def(p[b][m]) # v
  <2>1. CASE \E k \in 1 .. Len(p[b]) : /\ v \in Uses(p[b][k])
                                       /\ \A m \in 1 .. k - 1 : Def(p[b][m]) # v
    <3>1. PICK k \in DOMAIN p[b] : /\ v \in Uses(p[b][k])
                                   /\ \A m \in 1 .. k - 1 : Def(p[b][m]) # v
      BY <2>1, <1>3
    <3>2. At(p, b, k) \in Reads(p, v)
      BY <3>1, Places DEF Reads
    <3> QED
      BY <1>4, <3>1, <3>2
  <2>2. CASE v \in out /\ \A m \in 1 .. Len(p[b]) : Def(p[b][m]) # v
    <3> DEFINE k == Len(p[b])
    <3>1. k \in DOMAIN p[b] /\ At(p, b, k) = BlockHi(p, b) /\ Def(p[b][k]) # v
      BY <1>3, <2>2, Places
    <3>2. LiveAfter(p, v, BlockHi(p, b))
      BY <1>1, <2>2, OutOfLast
    <3>3. Def(Code(p)[At(p, b, k)]) # v
      BY <3>1, Places
    <3>4. At(p, b, k) \in Ahead(p, v)
      BY <1>4, <3>1, <3>2, <3>3, BehindFacts DEF LiveAfter
    <3>5. \A m \in 1 .. k - 1 : Def(p[b][m]) # v
      BY <1>3, <2>2
    <3> QED
      BY <3>1, <3>4, <3>5
  <2> QED
    BY <1>2, <2>1, <2>2 DEF LocalLive
<1>6. 1 \in 1 .. k
  BY <1>3
<1>7. At(p, b, 1) \in Ahead(p, v)
  BY <1>5, <1>6, BackUp
<1> QED
  BY <1>1, <1>7 DEF TrueIn

(* Sets that satisfy every block's equations. *)
OutOf(p, in, b) == UNION {in[s] : s \in Successors(p[b])}

InOf(p, out, b) == Gen(p[b]) \cup (out[b] \ Kill(p[b]))

SolvesAt(p, in, out, b) == out[b] = OutOf(p, in, b) /\ in[b] = InOf(p, out, b)

Solves(p, in, out) == \A b \in DOMAIN p : SolvesAt(p, in, out, b)

(* Wherever a vreg is truly live, such sets make it so. *)
LEMMA SolutionHoldsAhead ==
    ASSUME NEW p \in Programs, NEW in, NEW out, Solves(p, in, out), NEW v \in VReg,
           NEW b \in DOMAIN p, NEW k \in DOMAIN p[b], At(p, b, k) \in Ahead(p, v)
    PROVE  LocalLive(p, b, out[b], v, k)
<1> DEFINE X == {i \in DOMAIN Code(p) : \E c \in DOMAIN p : \E j \in DOMAIN p[c] :
                    i = At(p, c, j) /\ LocalLive(p, c, out[c], v, j)}
<1>2. ASSUME NEW c \in DOMAIN p, NEW j \in DOMAIN p[c]
      PROVE  At(p, c, j) \in X <=> LocalLive(p, c, out[c], v, j)
  <2>1. ASSUME NEW d \in DOMAIN p, NEW i \in DOMAIN p[d], At(p, c, j) = At(p, d, i)
        PROVE  d = c /\ i = j
    <3>1. InBlock(p, d, At(p, d, i)) /\ d = c
      BY <2>1, Places
    <3>2. DOMAIN p[c] = 1 .. Len(p[c]) /\ DOMAIN p[d] = 1 .. Len(p[d])
      BY ProgramFacts
    <3>3. BlockLo(p, c) \in Nat
      BY CodeLayout
    <3>4. i \in Nat /\ j \in Nat
      BY <3>2
    <3> QED
      BY <2>1, <3>1, <3>3, <3>4 DEF At
  <2>2. At(p, c, j) \in DOMAIN Code(p)
    BY Places
  <2> QED
    BY <2>1, <2>2
<1>3. \A i \in DOMAIN Code(p) : \E c \in DOMAIN p : \E j \in DOMAIN p[c] : i = At(p, c, j)
  BY Places
<1>4. X \in SUBSET DOMAIN Code(p)
  OBVIOUS
<1> HIDE DEF X
<1>5. Reads(p, v) \subseteq X
  <2> SUFFICES ASSUME NEW i \in Reads(p, v) PROVE i \in X
    OBVIOUS
  <2>1. i \in DOMAIN Code(p) /\ v \in Uses(Code(p)[i])
    BY DEF Reads
  <2>2. PICK c \in DOMAIN p : \E j \in DOMAIN p[c] : i = At(p, c, j)
    BY <1>3, <2>1
  <2>3. PICK j \in DOMAIN p[c] : i = At(p, c, j)
    BY <2>2
  <2>4. v \in Uses(p[c][j])
    BY <2>1, <2>3, Places
  <2> QED
    BY <1>2, <2>3, <2>4, LocalStep
<1>6. ASSUME NEW i \in Behind(p, v, X), i \notin X PROVE FALSE
  <2>1. /\ Def(Code(p)[i]) # v
        /\ \E n \in X : <<i, n>> \in Flow(p)
    BY <1>4, <1>6, BehindFacts
  <2>2. PICK n \in X : <<i, n>> \in Flow(p)
    BY <2>1
  <2>3. i \in DOMAIN Code(p)
    BY <1>4, BehindFacts
  <2>4. PICK c \in DOMAIN p : \E j \in DOMAIN p[c] : i = At(p, c, j)
    BY <1>3, <2>3
  <2>5. PICK j \in DOMAIN p[c] : i = At(p, c, j)
    BY <2>4
  <2>6. Def(p[c][j]) # v
    BY <2>1, <2>5, Places
  <2>7. Goes(p, c, j, n)
    BY <2>2, <2>5, FlowOfPlace
  <2>8. Len(p[c]) \in Nat /\ DOMAIN p[c] = 1 .. Len(p[c]) /\ j \in 1 .. Len(p[c])
    BY ProgramFacts
  <2>9. CASE j < Len(p[c])
    <3>1. n = At(p, c, j + 1) /\ j + 1 \in DOMAIN p[c]
      BY <2>7, <2>8, <2>9 DEF Goes
    <3>2. LocalLive(p, c, out[c], v, j + 1)
      BY <1>2, <3>1
    <3>3. LocalLive(p, c, out[c], v, j)
      BY <2>6, <2>9, <3>2, LocalStep
    <3> QED
      BY <1>2, <1>6, <2>5, <3>3
  <2>10. CASE ~ (j < Len(p[c]))
    <3>1. PICK s \in Successors(p[c]) : n = At(p, s, 1)
      BY <2>7, <2>10 DEF Goes
    <3>2. s \in DOMAIN p /\ 1 \in DOMAIN p[s]
      BY ProgramFacts
    <3>3. LocalLive(p, s, out[s], v, 1)
      BY <1>2, <3>1, <3>2
    <3>4. v \in in[s]
      BY <3>2, <3>3, LocalFirst DEF Solves, SolvesAt, InOf
    <3>5. v \in out[c]
      BY <3>4 DEF Solves, SolvesAt, OutOf
    <3>6. LocalLive(p, c, out[c], v, j)
      BY <2>6, <2>10, <3>5, LocalStep
    <3> QED
      BY <1>2, <1>6, <2>5, <3>6
  <2> QED
    BY <2>9, <2>10
<1>7. Behind(p, v, X) = X
  BY <1>4, <1>6, BehindFacts
<1>8. At(p, b, k) \in X
  BY <1>4, <1>5, <1>7, AheadIsLeast
<1> QED
  BY <1>2, <1>8

(* They hold all that is truly live. *)
LEMMA SolutionHoldsTruth ==
    ASSUME NEW p \in Programs, NEW in, NEW out, Solves(p, in, out),
           NEW b \in DOMAIN p
    PROVE  TrueIn(p, b) \subseteq in[b]
<1> SUFFICES ASSUME NEW v \in TrueIn(p, b) PROVE v \in in[b]
  OBVIOUS
<1>1. v \in VReg /\ At(p, b, 1) \in Ahead(p, v)
  BY DEF TrueIn
<1>2. 1 \in DOMAIN p[b]
  BY ProgramFacts
<1>3. LocalLive(p, b, out[b], v, 1)
  BY <1>1, <1>2, SolutionHoldsAhead
<1> QED
  BY <1>1, <1>3, LocalFirst DEF Solves, SolvesAt, InOf

-----------------------------------------------------------------------------
(* The intervals hold every number touched, and are what the scan expects. *)
LEMMA TouchedBounds ==
    ASSUME NEW p \in Programs, NEW in, NEW out, NEW v
    PROVE  TouchedAt(p, in, out, v) \in SUBSET (0 .. MaxPos)
<1>1. /\ Len(Code(p)) \in Nat /\ DOMAIN Code(p) = 1 .. Len(Code(p))
      /\ Len(Code(p)) <= MaxPos /\ MaxPos \in Nat
  BY CodeLayout, ProgramsAssumption, LinearScanAssumption
<1>2. ASSUME NEW b \in DOMAIN p
      PROVE  BlockLo(p, b) \in 0 .. MaxPos /\ BlockHi(p, b) \in 0 .. MaxPos
  <2>1. /\ BlockLo(p, b) \in Nat /\ BlockHi(p, b) \in Nat
        /\ BlockHi(p, b) = BlockLo(p, b) + Len(p[b])
        /\ BlockHi(p, b) <= Len(Code(p)) /\ Len(p[b]) \in Nat
    BY CodeLayout, ProgramFacts
  <2> QED
    BY <1>1, <2>1
<1>3. ASSUME NEW i \in DOMAIN Code(p) PROVE i - 1 \in 0 .. MaxPos
  BY <1>1
<1> QED
  BY <1>2, <1>3 DEF TouchedAt

(* The interval of a vreg covers every position it was touched at, and the one
   of a vreg never touched is empty. *)
LEMMA IntervalFacts ==
    ASSUME NEW p \in Programs, NEW in, NEW out, NEW v \in VReg
    PROVE  /\ LoOf(p, in, out)[v] \in 0 .. MaxPos
           /\ HiOf(p, in, out)[v] \in -1 .. MaxPos
           /\ \A t \in TouchedAt(p, in, out, v) :
                LoOf(p, in, out)[v] <= t /\ t <= HiOf(p, in, out)[v]
           /\ HiOf(p, in, out)[v] >= 0 => LoOf(p, in, out)[v] <= HiOf(p, in, out)[v]
           /\ ~ (HiOf(p, in, out)[v] >= 0) => LoOf(p, in, out)[v] = MaxPos
<1> DEFINE T == TouchedAt(p, in, out, v)
           low == LoOf(p, in, out)[v]
           high == HiOf(p, in, out)[v]
<1>1. T \in SUBSET (0 .. MaxPos) /\ MaxPos \in Nat
  BY TouchedBounds, LinearScanAssumption
<1>2. low = Min({MaxPos} \cup T) /\ high = Max({-1} \cup T)
  BY DEF LoOf, HiOf
<1> HIDE DEF T, low, high
<1>3. low \in {MaxPos} \cup T /\ \A t \in {MaxPos} \cup T : low <= t
  <2>1. {MaxPos} \cup T \in SUBSET Nat /\ {MaxPos} \cup T # {}
    BY <1>1
  <2>2. \E m \in {MaxPos} \cup T : \A t \in {MaxPos} \cup T : m <= t
    BY <2>1, LeastElement
  <2> QED
    BY <1>2, <2>2 DEF Min
<1>4. high \in {-1} \cup T /\ \A t \in {-1} \cup T : t <= high
  <2>1. \E m \in {-1} \cup T : \A t \in {-1} \cup T : t <= m
    <3>1. CASE T = {}
      BY <3>1
    <3>2. CASE T # {}
      <4>1. PICK m \in T : \A t \in T : t <= m
        BY <1>1, <3>2, GreatestElement
      <4>2. -1 <= m
        BY <1>1
      <4> QED
        BY <4>1, <4>2
    <3> QED
      BY <3>1, <3>2
  <2> QED
    BY <1>2, <2>1 DEF Max
<1>5. low \in 0 .. MaxPos /\ high \in -1 .. MaxPos
  BY <1>1, <1>3, <1>4
<1>6. \A t \in T : low <= t /\ t <= high
  BY <1>3, <1>4
<1>7. high >= 0 => low <= high
  <2> SUFFICES ASSUME high >= 0 PROVE low <= high
    OBVIOUS
  <2>1. high \in T
    BY <1>4
  <2> QED
    BY <1>3, <2>1
<1>8. ~ (high >= 0) => low = MaxPos
  <2> SUFFICES ASSUME ~ (high >= 0) PROVE low = MaxPos
    OBVIOUS
  <2>1. T = {}
    <3> SUFFICES ASSUME NEW t \in T PROVE FALSE
      OBVIOUS
    <3>1. t <= high /\ t \in 0 .. MaxPos
      BY <1>1, <1>6
    <3> QED
      BY <1>5, <3>1
  <2> QED
    BY <1>3, <2>1
<1> QED
  BY <1>5, <1>6, <1>7, <1>8 DEF T, low, high

-----------------------------------------------------------------------------
(* The sets hold nothing that is not live, and only grow. *)
NeverTooMuch ==
    \A b \in DOMAIN prog : /\ live_in[b] \subseteq TrueIn(prog, b)
                           /\ live_out[b] \subseteq TrueOut(prog, b)

OnlyGrow ==
    \A b \in DOMAIN prog : /\ live_out[b] \subseteq OutOf(prog, live_in, b)
                           /\ live_in[b] \subseteq InOf(prog, live_out, b)

(* The blocks a sweep has visited so far without a change satisfy their     *)
(* equations; after the last sweep all do.                                  *)
Swept ==
    /\ phase = "liveness" /\ ~ changed =>
          \A b \in DOMAIN prog : b > block => SolvesAt(prog, live_in, live_out, b)
    /\ phase # "liveness" => Solves(prog, live_in, live_out)

(* Nothing is scanned before the intervals are built from the final sets. *)
Stage ==
    IF phase = "scan"
    THEN /\ lo = LoOf(prog, live_in, live_out)
         /\ hi = HiOf(prog, live_in, live_out)
    ELSE Init /\ lo = [v \in VReg |-> MaxPos] /\ hi = [v \in VReg |-> -1]

FlowTypes ==
    /\ prog \in Programs
    /\ phase \in {"liveness", "intervals", "scan"}
    /\ block \in 0 .. Len(prog)
    /\ changed \in BOOLEAN
    /\ live_in \in [DOMAIN prog -> SUBSET VReg]
    /\ live_out \in [DOMAIN prog -> SUBSET VReg]

SweepIInv == FlowTypes /\ NeverTooMuch /\ OnlyGrow /\ Swept

AllocIInv == SweepIInv /\ Stage /\ IInv

(* The invariant holds before the first sweep. *)
LEMMA AllocInitIInv == AllocInit => AllocIInv
<1> SUFFICES ASSUME AllocInit PROVE AllocIInv
  OBVIOUS
<1>1. prog \in Programs /\ phase = "liveness" /\ block = Len(prog) /\ changed = FALSE
  BY DEF AllocInit
<1>2. DOMAIN prog = 1 .. Len(prog) /\ Len(prog) \in Nat \ {0}
  BY <1>1, ProgramFacts
<1>3. \A b \in DOMAIN prog : live_in[b] = {} /\ live_out[b] = {}
  BY DEF AllocInit
<1>4. FlowTypes
  <2>1. /\ live_in \in [DOMAIN prog -> SUBSET VReg]
        /\ live_out \in [DOMAIN prog -> SUBSET VReg]
    BY DEF AllocInit
  <2>2. block \in 0 .. Len(prog)
    BY <1>1, <1>2
  <2>3. changed \in BOOLEAN /\ phase \in {"liveness", "intervals", "scan"}
    BY <1>1
  <2> QED
    BY <1>1, <2>1, <2>2, <2>3 DEF FlowTypes
<1>5. NeverTooMuch /\ OnlyGrow
  BY <1>3 DEF NeverTooMuch, OnlyGrow
<1>6. Swept
  BY <1>1, <1>2 DEF Swept
<1>7. Stage
  <2>1. MaxPos \in 0 .. MaxPos /\ -1 \in -1 .. MaxPos
    BY LinearScanAssumption
  <2>2. Init
    BY <2>1 DEF AllocInit, Init, ScanStart, Touched
  <2> QED
    BY <1>1, <2>2 DEF AllocInit, Stage
<1>8. IInv
  BY <1>1, <1>7, InitIInv DEF Stage
<1> QED
  BY <1>4, <1>5, <1>6, <1>7, <1>8 DEF AllocIInv, SweepIInv

(* A set that holds another of the same size is that set. *)
LEMMA SameSize ==
    ASSUME NEW A, NEW B \in SUBSET VReg, A \subseteq B, Cardinality(B) = Cardinality(A)
    PROVE  A = B
<1>1. IsFiniteSet(B)
  BY LinearScanAssumption, FS_Subset
<1> QED
  BY <1>1, FS_Subset

(* Visiting a block keeps what is known of the sweeps. *)
LEMMA VisitBlockStep ==
    ASSUME SweepIInv, VisitBlock
    PROVE  SweepIInv'
<1> DEFINE B == DOMAIN prog
           out == OutOf(prog, live_in, block)
           in == Gen(prog[block]) \cup (out \ Kill(prog[block]))
<1>1. /\ phase = "liveness" /\ block > 0
      /\ changed' = \/ changed
                    \/ Cardinality(out) # Cardinality(live_out[block])
                    \/ Cardinality(in) # Cardinality(live_in[block])
      /\ live_out' = [live_out EXCEPT ![block] = out]
      /\ live_in' = [live_in EXCEPT ![block] = in]
      /\ block' = block - 1
      /\ prog' = prog /\ phase' = phase
  BY DEF VisitBlock, OutOf
<1>2. /\ prog \in Programs /\ block \in 0 .. Len(prog) /\ changed \in BOOLEAN
      /\ live_in \in [B -> SUBSET VReg] /\ live_out \in [B -> SUBSET VReg]
  BY DEF SweepIInv, FlowTypes
<1>3. B = 1 .. Len(prog) /\ block \in B /\ Successors(prog[block]) \subseteq B
  <2>1. Len(prog) \in Nat /\ B = 1 .. Len(prog)
    BY <1>2, ProgramFacts
  <2>2. block \in B
    BY <1>1, <1>2, <2>1
  <2> QED
    BY <1>2, <2>1, <2>2, ProgramFacts
<1>4. out \in SUBSET VReg /\ in \in SUBSET VReg
  <2>1. out \in SUBSET VReg
    BY <1>2, <1>3 DEF OutOf
  <2> QED
    BY <2>1 DEF Gen
<1>5. out \in SUBSET TrueOut(prog, block) /\ in \subseteq TrueIn(prog, block)
  <2>1. out \in SUBSET TrueOut(prog, block)
    BY <1>3 DEF OutOf, TrueOut, SweepIInv, NeverTooMuch
  <2> HIDE DEF out
  <2> QED
    BY <1>2, <1>3, <2>1, BlockIsTrue
<1>6. live_out[block] \subseteq out /\ live_in[block] \subseteq in
  <2>1. /\ live_out[block] \subseteq out
        /\ live_in[block] \subseteq InOf(prog, live_out, block)
    BY <1>3 DEF SweepIInv, OnlyGrow
  <2> QED
    BY <2>1 DEF InOf
<1> HIDE DEF out, in
<1>7. FlowTypes'
  BY <1>1, <1>2, <1>3, <1>4 DEF FlowTypes
<1>8. \A b \in B : /\ live_out'[b] = (IF b = block THEN out ELSE live_out[b])
                   /\ live_in'[b] = (IF b = block THEN in ELSE live_in[b])
                   /\ live_in[b] \subseteq live_in'[b]
  BY <1>1, <1>2, <1>3, <1>6
<1>9. NeverTooMuch'
  BY <1>1, <1>5, <1>8 DEF NeverTooMuch, SweepIInv
<1>10. OnlyGrow'
  <2> SUFFICES ASSUME NEW b \in B
               PROVE  /\ live_out'[b] \subseteq OutOf(prog, live_in', b)
                      /\ live_in'[b] \subseteq InOf(prog, live_out', b)
    BY <1>1 DEF OnlyGrow
  <2>1. OutOf(prog, live_in, b) \subseteq OutOf(prog, live_in', b)
    BY <1>2, <1>8, ProgramFacts DEF OutOf
  <2>2. CASE b = block
    BY <1>8, <2>1, <2>2 DEF out, in, InOf
  <2>3. CASE b # block
    <3>1. live_out'[b] = live_out[b] /\ live_in'[b] = live_in[b]
      BY <1>8, <2>3
    <3>2. /\ live_out[b] \subseteq OutOf(prog, live_in, b)
          /\ live_in[b] \subseteq InOf(prog, live_out, b)
      BY DEF SweepIInv, OnlyGrow
    <3> QED
      BY <2>1, <3>1, <3>2 DEF InOf
  <2> QED
    BY <2>2, <2>3
<1>11. Swept'
  <2>1. ASSUME ~ changed', NEW b \in B, b > block'
        PROVE  SolvesAt(prog, live_in', live_out', b)
    <3>1. /\ ~ changed
          /\ Cardinality(out) = Cardinality(live_out[block])
          /\ Cardinality(in) = Cardinality(live_in[block])
      BY <1>1, <2>1
    <3>2. out = live_out[block] /\ in = live_in[block]
      BY <1>4, <1>6, <3>1, SameSize
    <3>3. live_out' = live_out /\ live_in' = live_in
      BY <1>1, <1>2, <1>3, <3>2
    <3>4. CASE b = block
      BY <3>2, <3>3, <3>4 DEF SolvesAt, InOf, out, in
    <3>5. CASE b # block
      <4>1. b > block
        BY <1>1, <1>2, <1>3, <2>1, <3>5
      <4> QED
        BY <1>1, <3>1, <3>3, <4>1 DEF SweepIInv, Swept
    <3> QED
      BY <3>4, <3>5
  <2> QED
    BY <1>1, <2>1 DEF Swept
<1> QED
  BY <1>7, <1>9, <1>10, <1>11 DEF SweepIInv

(* The test of changed keeps what is known of the sweeps. *)
LEMMA NextSweepStep ==
    ASSUME SweepIInv, NextSweep
    PROVE  SweepIInv'
<1>1. /\ phase = "liveness" /\ block = 0
      /\ prog' = prog /\ live_in' = live_in /\ live_out' = live_out
      /\ IF changed THEN block' = Len(prog) /\ changed' = FALSE /\ phase' = phase
                    ELSE phase' = "intervals" /\ block' = block /\ changed' = changed
  BY DEF NextSweep
<1>2. Len(prog) \in Nat \ {0} /\ DOMAIN prog = 1 .. Len(prog)
  BY ProgramFacts DEF SweepIInv, FlowTypes
<1>3. FlowTypes'
  <2>1. block' \in 0 .. Len(prog)
    BY <1>1, <1>2
  <2>2. changed' \in BOOLEAN /\ phase' \in {"liveness", "intervals", "scan"}
    BY <1>1 DEF SweepIInv, FlowTypes
  <2> QED
    BY <1>1, <2>1, <2>2 DEF SweepIInv, FlowTypes
<1>4. NeverTooMuch' /\ OnlyGrow'
  BY <1>1 DEF SweepIInv, NeverTooMuch, OnlyGrow
<1>5. Swept'
  <2>1. CASE changed
    BY <1>1, <1>2, <2>1 DEF Swept
  <2>2. CASE ~ changed
    <3>1. \A b \in DOMAIN prog : SolvesAt(prog, live_in, live_out, b)
      <4>1. \A b \in DOMAIN prog : b > block
        BY <1>1, <1>2
      <4> QED
        BY <1>1, <2>2, <4>1 DEF SweepIInv, Swept
    <3> QED
      BY <1>1, <2>2, <3>1 DEF Swept, Solves
  <2> QED
    BY <2>1, <2>2
<1> QED
  BY <1>3, <1>4, <1>5 DEF SweepIInv

(* Steps that leave the live sets alone keep what is known of the sweeps. *)
LEMMA SweepStutter ==
    ASSUME SweepIInv, prog' = prog, live_in' = live_in, live_out' = live_out,
           block' = block, changed' = changed,
           phase' = phase \/ (phase = "intervals" /\ phase' = "scan")
    PROVE  SweepIInv'
<1>1. FlowTypes'
  BY DEF SweepIInv, FlowTypes
<1>2. NeverTooMuch' /\ OnlyGrow'
  BY DEF SweepIInv, NeverTooMuch, OnlyGrow
<1>3. Swept'
  BY DEF SweepIInv, Swept
<1> QED
  BY <1>1, <1>2, <1>3 DEF SweepIInv

(* The intervals built from the final live sets start the scan in its
   invariant. *)
LEMMA BuildIntervalsStep ==
    ASSUME AllocIInv, BuildIntervals
    PROVE  AllocIInv'
<1>1. /\ phase = "intervals" /\ phase' = "scan"
      /\ lo' = LoOf(prog, live_in, live_out)
      /\ hi' = HiOf(prog, live_in, live_out)
      /\ todo' = {v \in VReg : hi'[v] >= 0}
      /\ prog' = prog /\ block' = block /\ changed' = changed
      /\ live_in' = live_in /\ live_out' = live_out
      /\ alloc' = alloc /\ free_reg' = free_reg /\ active' = active
  BY DEF BuildIntervals
<1>2. SweepIInv'
  BY <1>1, SweepStutter DEF AllocIInv
<1>3. Stage'
  BY <1>1 DEF Stage
<1>4. prog \in Programs
  BY DEF AllocIInv, SweepIInv, FlowTypes
<1>5. \A v \in VReg : /\ lo'[v] \in 0 .. MaxPos /\ hi'[v] \in -1 .. MaxPos
                      /\ hi'[v] >= 0 => lo'[v] <= hi'[v]
                      /\ ~ (hi'[v] >= 0) => lo'[v] = MaxPos
  BY <1>1, <1>4, IntervalFacts
<1>6. lo' \in [VReg -> 0 .. MaxPos] /\ hi' \in [VReg -> -1 .. MaxPos]
  <2>1. lo' = [v \in VReg |-> lo'[v]] /\ hi' = [v \in VReg |-> hi'[v]]
    BY <1>1 DEF LoOf, HiOf
  <2> QED
    BY <1>5, <2>1
<1>7. Init
  BY <1>1 DEF AllocIInv, Stage
<1>8. Init'
  <2>1. ScanStart'
    BY <1>1, <1>7 DEF Init, ScanStart, Touched, alloc
  <2> QED
    BY <1>5, <1>6, <2>1 DEF Init, Touched
<1>9. IInv'
  <2>1. (Init => IInv)'
    BY InitIInv, PTL
  <2> QED
    BY <1>8, <2>1
<1> QED
  BY <1>2, <1>3, <1>9 DEF AllocIInv

(* A step of the scan keeps the invariant of LinearScan, whose variables are the
   same here. *)
LEMMA ScanKeepsIInv ==
    ASSUME IInv, NEW v \in VReg, Scan(v)
    PROVE  IInv'
  BY TakeFreeStep, SpillSelfStep, SpillOtherStep DEF Scan

(* The invariant of the sweeps and the scan, whatever the programs. *)
THEOREM AllocInvariance == AllocSpec => []AllocIInv
<1>1. AllocIInv /\ [AllocNext]_allocVars => AllocIInv'
  <2> SUFFICES ASSUME AllocIInv, [AllocNext]_allocVars PROVE AllocIInv'
    OBVIOUS
  <2>1. ASSUME UNCHANGED vars, phase # "scan", phase' # "scan", SweepIInv'
        PROVE  AllocIInv'
    <3>1. IInv'
      BY <2>1, StutterStep DEF AllocIInv
    <3>2. Stage'
      BY <2>1 DEF AllocIInv, Stage, Init, ScanStart, Touched, Regs, vars
    <3> QED
      BY <2>1, <3>1, <3>2 DEF AllocIInv
  <2>2. CASE VisitBlock
    <3>1. phase = "liveness" /\ phase' = phase /\ UNCHANGED vars
      BY <2>2 DEF VisitBlock, vars
    <3> QED
      BY <2>1, <2>2, <3>1, VisitBlockStep DEF AllocIInv
  <2>3. CASE NextSweep
    <3>1. phase = "liveness" /\ phase' # "scan" /\ UNCHANGED vars
      BY <2>3 DEF NextSweep, vars
    <3> QED
      BY <2>1, <2>3, <3>1, NextSweepStep DEF AllocIInv
  <2>4. CASE BuildIntervals
    BY <2>4, BuildIntervalsStep
  <2>5. CASE ScanOne \/ Returned \/ UNCHANGED allocVars
    <3>1. UNCHANGED flow
      BY <2>5 DEF ScanOne, Returned, allocVars
    <3>2. SweepIInv'
      BY <3>1, SweepStutter DEF flow, AllocIInv
    <3>3. CASE ScanOne
      <4>1. PICK v \in VReg : Scan(v)
        BY <3>3 DEF ScanOne
      <4>2. phase = "scan" /\ IInv'
        BY <3>3, <4>1, ScanKeepsIInv DEF ScanOne, AllocIInv
      <4>3. lo' = lo /\ hi' = hi
        BY <4>1 DEF Scan, TakeFree, SpillSelf, SpillOther, intervals
      <4> QED
        BY <3>1, <3>2, <4>2, <4>3 DEF AllocIInv, Stage, flow
    <3>4. CASE UNCHANGED vars
      <4>1. IInv'
        BY <3>4, StutterStep DEF AllocIInv
      <4>2. Stage'
        BY <3>1, <3>4 DEF AllocIInv, Stage, Init, ScanStart, Touched, Regs, vars, flow
      <4> QED
        BY <3>2, <4>1, <4>2 DEF AllocIInv
    <3> QED
      BY <2>5, <3>3, <3>4 DEF Returned, Terminated, allocVars
  <2> QED
    BY <2>2, <2>3, <2>4, <2>5 DEF AllocNext
<1> QED
  BY AllocInitIInv, <1>1, PTL DEF AllocSpec

-----------------------------------------------------------------------------
(* allocate(): its tables keep their types. *)
THEOREM AllocTypeCorrect == AllocSpec => []AllocTypeOK
<1>1. AllocIInv => AllocTypeOK
  BY DEF AllocIInv, SweepIInv, FlowTypes, IInv, AllocTypeOK
<1> QED
  BY AllocInvariance, <1>1, PTL

(* The sweeps of allocate() stop at the liveness that the flow between the  *)
(* instructions defines, for any control flow graph: nothing is missing     *)
(* because they stopped early, and nothing is too much.                     *)
LEMMA SweptIsExact ==
    ASSUME AllocIInv, phase # "liveness"
    PROVE  live_in = Truth[prog].in /\ live_out = Truth[prog].out
<1>1. /\ prog \in Programs /\ Solves(prog, live_in, live_out)
      /\ live_in \in [DOMAIN prog -> SUBSET VReg]
      /\ live_out \in [DOMAIN prog -> SUBSET VReg]
  BY DEF AllocIInv, SweepIInv, FlowTypes, Swept
<1>2. ASSUME NEW b \in DOMAIN prog PROVE live_in[b] = TrueIn(prog, b)
  <2>1. TrueIn(prog, b) \subseteq live_in[b]
    BY <1>1, SolutionHoldsTruth
  <2> QED
    BY <2>1 DEF AllocIInv, SweepIInv, NeverTooMuch
<1>3. ASSUME NEW b \in DOMAIN prog PROVE live_out[b] = TrueOut(prog, b)
  <2>1. Successors(prog[b]) \subseteq DOMAIN prog
    BY <1>1, ProgramFacts
  <2>2. live_out[b] = UNION {live_in[s] : s \in Successors(prog[b])}
    BY <1>1 DEF Solves, SolvesAt, OutOf
  <2> QED
    BY <1>2, <2>1, <2>2 DEF TrueOut
<1>4. /\ Truth[prog].in = [b \in DOMAIN prog |-> TrueIn(prog, b)]
      /\ Truth[prog].out = [b \in DOMAIN prog |-> TrueOut(prog, b)]
  BY <1>1, TruthFacts
<1> QED
  BY <1>1, <1>2, <1>3, <1>4

(* The live sets the sweeps of allocate() end with are the true ones: what is
   live into a block is exactly what some way from its start reads before it
   writes it (the fixpoint is the least one, though sets only ever grow). *)
THEOREM SweepsAreExact == AllocSpec => []LivenessExact
<1>1. AllocIInv => LivenessExact
  BY SweptIsExact DEF LivenessExact
<1> QED
  BY AllocInvariance, <1>1, PTL

(* The interval of a vreg live after an instruction that does not write it, *)
(* or read by it, holds the instruction's number.                           *)
Holds(v, t) == lo[v] <= t /\ t <= hi[v]

(* A vreg is held at every position its interval was built from. *)
LEMMA TouchedIsHeld ==
    ASSUME AllocIInv, phase = "scan", NEW v \in VReg,
           NEW t \in TouchedAt(prog, live_in, live_out, v)
    PROVE  Holds(v, t)
<1>1. /\ prog \in Programs /\ lo = LoOf(prog, live_in, live_out)
      /\ hi = HiOf(prog, live_in, live_out)
  BY DEF AllocIInv, SweepIInv, FlowTypes, Stage
<1> QED
  BY <1>1, IntervalFacts DEF Holds

(* A vreg is held where an instruction names it. *)
LEMMA NamedIsHeld ==
    ASSUME AllocIInv, phase = "scan", NEW i \in DOMAIN Code(prog), NEW v \in VReg,
           v \in Uses(Code(prog)[i]) \/ v = Def(Code(prog)[i])
    PROVE  Holds(v, i - 1)
<1>1. i - 1 \in TouchedAt(prog, live_in, live_out, v)
  BY DEF TouchedAt
<1> QED
  BY <1>1, TouchedIsHeld

(* A vreg is held in front of every instruction from which it is read on. *)
LEMMA LiveIsHeld ==
    ASSUME AllocIInv, phase = "scan", NEW i \in DOMAIN Code(prog), NEW v \in VReg,
           i \in Ahead(prog, v)
    PROVE  Holds(v, i - 1)
<1>1. /\ prog \in Programs /\ Solves(prog, live_in, live_out)
      /\ live_in = Truth[prog].in /\ hi \in [VReg -> -1 .. MaxPos]
      /\ lo \in [VReg -> 0 .. MaxPos]
  <2>1. live_in = Truth[prog].in
    BY SweptIsExact
  <2> QED
    BY <2>1 DEF AllocIInv, SweepIInv, FlowTypes, Swept, IInv, TypeOK
<1>2. PICK b \in DOMAIN prog : \E j \in DOMAIN prog[b] : i = At(prog, b, j)
  BY <1>1, Places
<1>3. PICK j \in DOMAIN prog[b] : i = At(prog, b, j)
  BY <1>2
<1> DEFINE len == Len(prog[b])
           low == BlockLo(prog, b)
<1>4. DOMAIN prog[b] = 1 .. len /\ len \in Nat \ {0} /\ low \in Nat
      /\ BlockHi(prog, b) = low + len
  BY <1>1, ProgramFacts, CodeLayout
<1>5. \A m : At(prog, b, m) = low + m
  BY DEF At
<1>6. ASSUME NEW m \in DOMAIN prog[b] PROVE /\ At(prog, b, m) \in DOMAIN Code(prog)
                                            /\ Code(prog)[At(prog, b, m)] = prog[b][m]
  BY <1>1, Places
<1> HIDE DEF len, low
<1>7. lo[v] <= i - 1
  <2>1. CASE \A m \in 1 .. j - 1 : Def(prog[b][m]) # v
    <3>1. 1 \in 1 .. j
      BY <1>4
    <3>2. At(prog, b, 1) \in Ahead(prog, v)
      BY <1>1, <1>3, <2>1, <3>1, BackUp
    <3>3. v \in live_in[b]
      <4>1. v \in TrueIn(prog, b)
        BY <3>2 DEF TrueIn
      <4>2. Truth[prog].in = [c \in DOMAIN prog |-> TrueIn(prog, c)]
        BY <1>1, TruthFacts
      <4> QED
        BY <1>1, <4>1, <4>2
    <3>4. low \in TouchedAt(prog, live_in, live_out, v)
      BY <3>3 DEF TouchedAt, low
    <3>5. lo[v] <= low
      BY <3>4, TouchedIsHeld DEF Holds
    <3> QED
      BY <1>1, <1>3, <1>4, <1>5, <3>5
  <2>2. CASE \E m \in 1 .. j - 1 : Def(prog[b][m]) = v
    <3>1. PICK m \in 1 .. j - 1 : Def(prog[b][m]) = v
      BY <2>2
    <3>2. m \in DOMAIN prog[b] /\ m < j /\ m \in Nat
      BY <1>4
    <3>3. Holds(v, At(prog, b, m) - 1)
      BY <1>6, <3>1, <3>2, NamedIsHeld
    <3>4. lo[v] <= (low + m) - 1
      BY <1>5, <3>3 DEF Holds
    <3> QED
      BY <1>1, <1>3, <1>4, <1>5, <3>2, <3>4
  <2> QED
    BY <2>1, <2>2
<1>8. i - 1 <= hi[v]
  <2>1. LocalLive(prog, b, live_out[b], v, j)
    BY <1>1, <1>3, SolutionHoldsAhead
  <2>2. CASE v \in live_out[b]
    <3>1. BlockHi(prog, b) \in TouchedAt(prog, live_in, live_out, v)
      BY <2>2 DEF TouchedAt
    <3>2. BlockHi(prog, b) <= hi[v]
      BY <3>1, TouchedIsHeld DEF Holds
    <3> QED
      BY <1>1, <1>3, <1>4, <1>5, <3>2
  <2>3. CASE \E k \in j .. len : v \in Uses(prog[b][k])
    <3>1. PICK k \in j .. len : v \in Uses(prog[b][k])
      BY <2>3
    <3>2. k \in DOMAIN prog[b] /\ j <= k /\ k \in Nat
      BY <1>4
    <3>3. Holds(v, At(prog, b, k) - 1)
      BY <1>6, <3>1, <3>2, NamedIsHeld
    <3>4. (low + k) - 1 <= hi[v]
      BY <1>5, <3>3 DEF Holds
    <3> QED
      BY <1>1, <1>3, <1>4, <1>5, <3>2, <3>4
  <2> QED
    BY <2>1, <2>2, <2>3 DEF LocalLive, len
<1> QED
  BY <1>7, <1>8 DEF Holds

(* Two vregs whose intervals share an instruction have different homes, once *)
(* both are placed.                                                          *)
LEMMA HeldApart ==
    ASSUME IInv, todo = {}, NEW u \in VReg, NEW v \in VReg, u # v,
           NEW t \in 0 .. MaxPos, Holds(u, t), Holds(v, t)
    PROVE  ~ SameHome(u, v)
<1>1. Overlap(u, v)
  <2>1. /\ lo[u] \in 0 .. MaxPos /\ lo[v] \in 0 .. MaxPos
        /\ hi[u] \in -1 .. MaxPos /\ hi[v] \in -1 .. MaxPos /\ MaxPos \in Nat
    BY LinearScanAssumption DEF IInv, TypeOK
  <2> QED
    BY <2>1 DEF Overlap, Holds
<1>2. ~ (reg[u] >= 0 /\ reg[u] = reg[v])
  BY <1>1 DEF IInv, NoRegisterClash
<1>3. ~ (spill[u] >= 0 /\ spill[u] = spill[v])
  BY DEF IInv, OneHome
<1> QED
  BY <1>2, <1>3 DEF SameHome

(* No instruction of the finished allocation overwrites a home whose value  *)
(* is still wanted, whatever the program.                                   *)
THEOREM LiveValuesAreKept == AllocSpec => []NoLiveValueOverwritten
<1>1. AllocIInv => NoLiveValueOverwritten
  <2> SUFFICES ASSUME AllocIInv, phase = "scan", todo = {},
                      NEW i \in DOMAIN Code(prog), Def(Code(prog)[i]) # VNONE,
                      NEW v \in VReg \ {Def(Code(prog)[i])},
                      <<v, i>> \in Truth[prog].after \/ v \in Uses(Code(prog)[i])
               PROVE  ~ SameHome(v, Def(Code(prog)[i]))
    BY DEF NoLiveValueOverwritten
  <2> DEFINE d == Def(Code(prog)[i])
  <2>1. prog \in Programs /\ IInv
    BY DEF AllocIInv, SweepIInv, FlowTypes
  <2>2. PICK b \in DOMAIN prog : \E j \in DOMAIN prog[b] : i = At(prog, b, j)
    BY <2>1, Places
  <2>3. PICK j \in DOMAIN prog[b] : i = At(prog, b, j)
    BY <2>2
  <2>4. d \in VReg
    <3>1. d = Def(prog[b][j])
      BY <2>1, <2>3, Places
    <3>2. Def(prog[b][j]) \in VReg \cup {VNONE}
      BY <2>1, ProgramsAssumption
    <3> QED
      BY <3>1, <3>2
  <2>5. Holds(d, i - 1)
    BY <2>4, NamedIsHeld
  <2>6. Holds(v, i - 1)
    <3>1. CASE v \in Uses(Code(prog)[i])
      BY <3>1, NamedIsHeld
    <3>2. CASE <<v, i>> \in Truth[prog].after
      <4>1. LiveAfter(prog, v, i)
        BY <2>1, <3>2, TruthFacts
      <4>2. Ahead(prog, v) \in SUBSET DOMAIN Code(prog)
            /\ Behind(prog, v, Ahead(prog, v)) = Ahead(prog, v)
        BY <2>1, AheadIsClosed
      <4>3. Def(Code(prog)[i]) # v
        OBVIOUS
      <4>4. i \in Ahead(prog, v)
        BY <2>1, <4>1, <4>2, <4>3, BehindFacts DEF LiveAfter
      <4> QED
        BY <4>4, LiveIsHeld
    <3> QED
      BY <3>1, <3>2
  <2>7. i - 1 \in 0 .. MaxPos
    <3>1. i - 1 \in TouchedAt(prog, live_in, live_out, d)
      BY DEF TouchedAt
    <3> QED
      BY <2>1, <3>1, TouchedBounds
  <2> QED
    BY <2>1, <2>4, <2>5, <2>6, <2>7, HeldApart
<1> QED
  BY AllocInvariance, <1>1, PTL

-----------------------------------------------------------------------------
(* What the scan starts from is what true liveness gives. *)
ScanTodo ==
    IF phase = "scan" THEN todo ELSE {v \in VReg : Truth[prog].hi[v] >= 0}

(* The true intervals are intervals: the abstract scan may start from them. *)
LEMMA PromisedIntervals ==
    ASSUME NEW p \in Programs
    PROVE  /\ Truth[p].lo \in [VReg -> 0 .. MaxPos]
           /\ Truth[p].hi \in [VReg -> -1 .. MaxPos]
           /\ \A v \in VReg : /\ Truth[p].hi[v] >= 0 => Truth[p].lo[v] <= Truth[p].hi[v]
                              /\ ~ (Truth[p].hi[v] >= 0) => Truth[p].lo[v] = MaxPos
<1> DEFINE in == Truth[p].in
           out == Truth[p].out
<1>1. Truth[p].lo = LoOf(p, in, out) /\ Truth[p].hi = HiOf(p, in, out)
  BY TruthFacts
<1> HIDE DEF in, out
<1>2. \A v \in VReg : /\ LoOf(p, in, out)[v] \in 0 .. MaxPos
                      /\ HiOf(p, in, out)[v] \in -1 .. MaxPos
                      /\ HiOf(p, in, out)[v] >= 0 => LoOf(p, in, out)[v] <= HiOf(p, in, out)[v]
                      /\ ~ (HiOf(p, in, out)[v] >= 0) => LoOf(p, in, out)[v] = MaxPos
  BY IntervalFacts
<1>3. LoOf(p, in, out) \in [VReg -> 0 .. MaxPos]
  BY <1>2 DEF LoOf
<1>4. HiOf(p, in, out) \in [VReg -> -1 .. MaxPos]
  BY <1>2 DEF HiOf
<1> QED
  BY <1>1, <1>2, <1>3, <1>4

(* The initial states of allocate() are initial states of the abstract scan. *)
LEMMA PromiseInit == AllocInit => Promise!Init
<1> SUFFICES ASSUME AllocInit PROVE Promise!Init
  OBVIOUS
<1>1. prog \in Programs /\ phase = "liveness" /\ ScanStart
  BY DEF AllocInit
<1> DEFINE low == Truth[prog].lo
           high == Truth[prog].hi
<1>2. /\ low \in [VReg -> 0 .. MaxPos] /\ high \in [VReg -> -1 .. MaxPos]
      /\ \A v \in VReg : /\ high[v] >= 0 => low[v] <= high[v]
                         /\ ~ (high[v] >= 0) => low[v] = MaxPos
  BY <1>1, PromisedIntervals
<1>3. Promise!Regs = Regs
  BY DEF Promise!Regs, Regs
<1>4. Promise!ScanStart
  BY <1>1, <1>3 DEF Promise!ScanStart, ScanStart, Promise!Touched
<1> QED
  BY <1>2, <1>4 DEF Promise!Init, Promise!Touched

(* Once the scan is on, the variables are those of the promise. *)
LEMMA PromisedScan ==
    AllocIInv /\ phase = "scan" =>
        Truth[prog].lo = lo /\ Truth[prog].hi = hi /\ ScanTodo = todo
<1> SUFFICES ASSUME AllocIInv, phase = "scan"
             PROVE  Truth[prog].lo = lo /\ Truth[prog].hi = hi /\ ScanTodo = todo
  OBVIOUS
<1>1. prog \in Programs /\ lo = LoOf(prog, live_in, live_out)
      /\ hi = HiOf(prog, live_in, live_out)
  BY DEF AllocIInv, SweepIInv, FlowTypes, Stage
<1>2. live_in = Truth[prog].in /\ live_out = Truth[prog].out
  BY SweptIsExact
<1> QED
  BY <1>1, <1>2, TruthFacts DEF ScanTodo

(* Every step of allocate() is a step of the abstract scan or none. *)
LEMMA PromiseStep ==
    ASSUME AllocIInv, AllocIInv', [AllocNext]_allocVars
    PROVE  [Promise!Next]_(Promise!vars)
<1> DEFINE Same == /\ Truth[prog'].lo = Truth[prog].lo /\ Truth[prog'].hi = Truth[prog].hi
                   /\ ScanTodo' = ScanTodo
                   /\ UNCHANGED <<reg, spill, num_spills, reg_used, free_reg, active>>
<1>1. Same => UNCHANGED Promise!vars
  BY DEF Promise!vars, ScanTodo
<1>2. prog' = prog
  BY DEF AllocNext, VisitBlock, NextSweep, BuildIntervals, ScanOne, Returned, flow, allocVars
<1>3. ASSUME phase # "scan", phase' # "scan", UNCHANGED vars PROVE Same
  BY <1>2, <1>3 DEF ScanTodo, vars
<1>4. CASE VisitBlock
  <2>1. phase # "scan" /\ phase' # "scan" /\ UNCHANGED vars
    BY <1>4 DEF VisitBlock
  <2> HIDE DEF Same
  <2> QED
    BY <2>1, <1>1, <1>3
<1>5. CASE NextSweep
  <2>1. phase # "scan" /\ phase' # "scan" /\ UNCHANGED vars
    BY <1>5 DEF NextSweep
  <2> HIDE DEF Same
  <2> QED
    BY <2>1, <1>1, <1>3
<1>6. CASE BuildIntervals
  <2>1. /\ phase # "scan" /\ phase' = "scan"
        /\ todo' = {v \in VReg : hi'[v] >= 0}
        /\ UNCHANGED <<alloc, free_reg, active>>
    BY <1>6 DEF BuildIntervals
  <2>2. Truth[prog'].hi = hi'
    <3>1. (AllocIInv /\ phase = "scan" =>
            Truth[prog].lo = lo /\ Truth[prog].hi = hi /\ ScanTodo = todo)'
      BY PromisedScan, PTL
    <3> QED
      BY <2>1, <3>1
  <2>3. Same
    BY <1>2, <2>1, <2>2 DEF ScanTodo, alloc
  <2> HIDE DEF Same
  <2> QED
    BY <2>3, <1>1
<1>7. CASE ScanOne \/ Returned \/ UNCHANGED allocVars
  <2>1. phase' = phase /\ UNCHANGED flow
    BY <1>7 DEF ScanOne, Returned, allocVars, flow
  <2>2. CASE ~ ScanOne
    <3>1. UNCHANGED vars
      BY <1>7, <2>2 DEF Returned, Terminated, allocVars
    <3>2. Same
      BY <1>2, <2>1, <3>1 DEF ScanTodo, vars
    <3> HIDE DEF Same
    <3> QED
      BY <1>1, <3>2
  <2>3. CASE ScanOne
    <3>1. PICK v \in VReg : Scan(v)
      BY <2>3 DEF ScanOne
    <3>2. phase = "scan" /\ phase' = "scan" /\ lo' = lo /\ hi' = hi
      BY <2>1, <2>3, <3>1 DEF ScanOne, Scan, TakeFree, SpillSelf, SpillOther, intervals
    <3>3. Truth[prog].lo = lo /\ Truth[prog].hi = hi
      BY <3>2, PromisedScan
    <3>4. /\ Promise!Expired(v) = Expired(v) /\ Promise!Kept(v) = Kept(v)
          /\ Promise!FreeFor(v) = FreeFor(v)
          /\ Promise!Next1st(v) <=> Next1st(v)
      BY <3>2, <3>3 DEF Promise!Expired, Expired, Promise!Kept, Kept, Promise!FreeFor,
                       FreeFor, Promise!Next1st, Next1st
    <3>5. UNCHANGED <<Truth[prog].lo, Truth[prog].hi>>
      BY <1>2
    <3>6. Promise!Scan(v)
      <4>1. CASE TakeFree(v)
        BY <3>2, <3>4, <3>5, <4>1 DEF TakeFree, Promise!Scan, Promise!TakeFree, Promise!intervals
      <4>2. CASE SpillSelf(v)
        BY <3>2, <3>3, <3>4, <3>5, <4>2
           DEF SpillSelf, Promise!Scan, Promise!SpillSelf, Promise!intervals
      <4>3. CASE SpillOther(v)
        BY <3>2, <3>3, <3>4, <3>5, <4>3
           DEF SpillOther, Promise!Scan, Promise!SpillOther, Promise!intervals
      <4> QED
        BY <3>1, <4>1, <4>2, <4>3 DEF Scan
    <3> QED
      BY <3>6 DEF Promise!Next
  <2> QED
    BY <2>2, <2>3
<1> QED
  BY <1>4, <1>5, <1>6, <1>7 DEF AllocNext

(* allocate() implements a linear scan over the intervals that true liveness *)
(* gives.                                                                    *)
THEOREM AllocateScansTrueIntervals == AllocSpec => ScansTrueIntervals
<1>1. AllocIInv /\ AllocIInv' /\ [AllocNext]_allocVars => [Promise!Next]_(Promise!vars)
  BY PromiseStep
<1> QED
  BY PromiseInit, <1>1, AllocInvariance, PTL
     DEF AllocSpec, ScansTrueIntervals, Promise!Spec
==============================================================================
