------------------------------ MODULE LinearScan ------------------------------
(***************************************************************************)
(* The linear-scan half of allocate() in backend2.cpp: given one closed    *)
(* live interval lo[v] .. hi[v] per virtual register, hand out the         *)
(* callee-saved registers and the spill slots.                             *)
(*                                                                         *)
(* One step is one iteration of the loop over `order`.  The intervals are  *)
(* arbitrary here; Allocate computes them from a program and implements    *)
(* this module.  std::sort leaves the order of equal keys open, so among   *)
(* the vregs of least lo any may come next, and among the active intervals *)
(* of largest hi any may be the spill candidate.                           *)
(***************************************************************************)
EXTENDS Integers, FiniteSets

CONSTANTS VReg,      \* the virtual registers of one function
          NumAlloc,  \* kNumAlloc, the number of allocatable registers
          MaxPos     \* the last instruction number an interval can touch

ASSUME LinearScanAssumption ==
    /\ IsFiniteSet(VReg)
    /\ NumAlloc \in Nat
    /\ MaxPos \in Nat

VARIABLES lo, hi,          \* the live intervals; hi[v] = -1: v is never touched
          todo,            \* the part of `order` not scanned yet
          reg, spill,      \* Alloc::reg and Alloc::spill
          num_spills,      \* Alloc::num_spills
          reg_used,        \* Alloc::reg_used, as the set of registers marked
          free_reg,        \* as the set of free registers
          active           \* intervals that hold a register now

intervals == <<lo, hi>>
alloc == <<reg, spill, num_spills, reg_used>>
vars == <<lo, hi, todo, reg, spill, num_spills, reg_used, free_reg, active>>

Regs == 0 .. NumAlloc - 1

Touched == {v \in VReg : hi[v] >= 0}
Scanned == Touched \ todo

TypeOK ==
    /\ lo \in [VReg -> 0 .. MaxPos]
    /\ hi \in [VReg -> -1 .. MaxPos]
    /\ \A v \in Touched : lo[v] <= hi[v]
    /\ todo \subseteq Touched
    /\ reg \in [VReg -> Regs \cup {-1}]
    /\ spill \in [VReg -> Nat \cup {-1}]
    /\ num_spills \in Nat
    /\ reg_used \subseteq Regs
    /\ free_reg \subseteq Regs
    /\ active \subseteq Scanned

-----------------------------------------------------------------------------
(* Mutant: free_reg is one entry too long. *)
ScanStartExtraReg ==
    /\ todo = Touched
    /\ reg = [v \in VReg |-> -1]
    /\ spill = [v \in VReg |-> -1]
    /\ num_spills = 0
    /\ reg_used = {}
    /\ free_reg = 0 .. NumAlloc
    /\ active = {}

(* What the scan starts from: nothing placed and every register free. *)
ScanStart ==
    /\ todo = Touched
    /\ reg = [v \in VReg |-> -1]
    /\ spill = [v \in VReg |-> -1]
    /\ num_spills = 0
    /\ reg_used = {}
    /\ free_reg = Regs
    /\ active = {}

Init ==
    /\ lo \in [VReg -> 0 .. MaxPos]
    /\ hi \in [VReg -> -1 .. MaxPos]
    /\ \A v \in Touched : lo[v] <= hi[v]
    /\ \A v \in VReg \ Touched : lo[v] = MaxPos   \* INT_MAX in the code
    /\ ScanStart

(* Mutant: an interval expires in the instruction that still reads it. *)
ExpiredTooEarly(v) == {a \in active : hi[a] <= lo[v]}

(* Mutant: nothing ever expires. *)
ExpiredNever(v) == {}

(* The intervals the expiry step drops from `active` before placing v. *)
Expired(v) == {a \in active : hi[a] < lo[v]}

Kept(v) == active \ Expired(v)

FreeFor(v) == free_reg \cup {reg[a] : a \in {e \in Expired(v) : reg[e] >= 0}}

Next1st(v) == v \in todo /\ \A u \in todo : lo[v] <= lo[u]

(* Mutant: the register is handed out but not marked for the prologue. *)
TakeFreeUnmarked(v) ==
    /\ Next1st(v)
    /\ \E r \in FreeFor(v) :
        /\ \A q \in FreeFor(v) : r <= q
        /\ reg' = [reg EXCEPT ![v] = r]
        /\ free_reg' = FreeFor(v) \ {r}
        /\ active' = Kept(v) \cup {v}
    /\ todo' = todo \ {v}
    /\ UNCHANGED <<intervals, spill, num_spills, reg_used>>

(* A register is free: v takes the one of least index. *)
TakeFree(v) ==
    /\ Next1st(v)
    /\ \E r \in FreeFor(v) :
        /\ \A q \in FreeFor(v) : r <= q
        /\ reg' = [reg EXCEPT ![v] = r]
        /\ reg_used' = reg_used \cup {r}
        /\ free_reg' = FreeFor(v) \ {r}
        /\ active' = Kept(v) \cup {v}
    /\ todo' = todo \ {v}
    /\ UNCHANGED <<intervals, spill, num_spills>>

(* Mutant: v is spilled whenever no register is free, whatever it costs. *)
SpillSelfAlways(v) ==
    /\ Next1st(v)
    /\ FreeFor(v) = {}
    /\ spill' = [spill EXCEPT ![v] = num_spills]
    /\ num_spills' = num_spills + 1
    /\ active' = Kept(v)
    /\ free_reg' = {}
    /\ todo' = todo \ {v}
    /\ UNCHANGED <<intervals, reg, reg_used>>

(* No register is free and no active interval ends after v: v is spilled. *)
SpillSelf(v) ==
    /\ Next1st(v)
    /\ FreeFor(v) = {}
    /\ \A a \in Kept(v) : hi[a] <= hi[v]
    /\ spill' = [spill EXCEPT ![v] = num_spills]
    /\ num_spills' = num_spills + 1
    /\ active' = Kept(v)
    /\ free_reg' = {}
    /\ todo' = todo \ {v}
    /\ UNCHANGED <<intervals, reg, reg_used>>

(* Mutant: the spilled interval keeps naming the register it lost. *)
SpillOtherKeepsReg(v) ==
    /\ Next1st(v)
    /\ FreeFor(v) = {}
    /\ \E c \in Kept(v) :
        /\ hi[c] > hi[v]
        /\ \A a \in Kept(v) : hi[a] <= hi[c]
        /\ reg' = [reg EXCEPT ![v] = reg[c]]
        /\ reg_used' = reg_used \cup {reg[c]}
        /\ spill' = [spill EXCEPT ![c] = num_spills]
        /\ active' = (Kept(v) \ {c}) \cup {v}
    /\ num_spills' = num_spills + 1
    /\ free_reg' = {}
    /\ todo' = todo \ {v}
    /\ UNCHANGED intervals

(* No register is free and some active interval ends after v: the one that *)
(* ends last moves to a spill slot for its whole life, v takes its place.  *)
SpillOther(v) ==
    /\ Next1st(v)
    /\ FreeFor(v) = {}
    /\ \E c \in Kept(v) :
        /\ hi[c] > hi[v]
        /\ \A a \in Kept(v) : hi[a] <= hi[c]
        /\ reg' = [reg EXCEPT ![v] = reg[c], ![c] = -1]
        /\ reg_used' = reg_used \cup {reg[c]}
        /\ spill' = [spill EXCEPT ![c] = num_spills]
        /\ active' = (Kept(v) \ {c}) \cup {v}
    /\ num_spills' = num_spills + 1
    /\ free_reg' = {}
    /\ todo' = todo \ {v}
    /\ UNCHANGED intervals

Terminated == todo = {} /\ UNCHANGED vars

Scan(v) == TakeFree(v) \/ SpillSelf(v) \/ SpillOther(v)

Next == (\E v \in VReg : Scan(v)) \/ Terminated

Spec == Init /\ [][Next]_vars

-----------------------------------------------------------------------------
Overlap(u, v) == lo[u] <= hi[v] /\ lo[v] <= hi[u]

(* Two intervals that share an instruction never share a register.  Closed  *)
(* intervals: an operand read by the instruction that defines v overlaps v, *)
(* which is what bin2 relies on when it computes into v's register          *)
(* ("b is never in t: both live").                                          *)
NoRegisterClash ==
    \A u, v \in VReg :
        u # v /\ reg[u] >= 0 /\ reg[u] = reg[v] => ~Overlap(u, v)

(* Every scanned vreg has exactly one home, even after it was thrown out of *)
(* its register by a later interval; no two share a spill slot and every    *)
(* slot lies below num_spills, so the frame the encoder sizes contains it.  *)
OneHome ==
    /\ \A v \in Scanned : (reg[v] >= 0) # (spill[v] >= 0)
    /\ \A v \in VReg \ Scanned : reg[v] = -1 /\ spill[v] = -1
    /\ \A v \in VReg : spill[v] < num_spills
    /\ \A u, v \in VReg : spill[u] >= 0 /\ spill[u] = spill[v] => u = v

(* Every register some vreg lives in is marked, so that the prologue saves  *)
(* the caller's value of it and the epilogue brings it back.                *)
UsedRegistersSaved == \A v \in VReg : reg[v] >= 0 => reg[v] \in reg_used

LiveAt(X, p) == {v \in X : lo[v] <= p /\ p <= hi[v]}

Fits(X) == \A p \in 0 .. MaxPos : Cardinality(LiveAt(X, p)) <= NumAlloc

(* A step spills only where more intervals overlap than there are registers. *)
SpillUnderPressure ==
    num_spills' # num_spills =>
        \E p \in 0 .. MaxPos : Cardinality(LiveAt(Touched, p)) > NumAlloc

SpillsOnlyUnderPressure == [][SpillUnderPressure]_vars

(* Spilling the interval that ends last is optimal: no smaller set of       *)
(* spilled vregs would let the scanned intervals fit the registers.         *)
FewestSpills ==
    \A S \in SUBSET Scanned : Fits(Scanned \ S) => num_spills <= Cardinality(S)
=============================================================================
