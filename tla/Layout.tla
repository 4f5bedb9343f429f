-------------------------------- MODULE Layout --------------------------------
(***************************************************************************)
(* Where both code generators put things, in bytes: the parts of a stack   *)
(* frame, and the functions of a module in one block of memory.            *)
(*                                                                         *)
(*   rbp + 16 + 8*i     the i-th argument of this function, i >= 4         *)
(*   rbp + 16 ..        the 32 bytes its caller left for it                *)
(*   rbp, rbp + 8       the caller's rbp, and where to return              *)
(*   below rbp          saved registers, then spill slots                  *)
(*   rsp + 32 + 8*i     the arguments of the functions it calls, i + 4     *)
(*   rsp ..             32 bytes for the function it calls                 *)
(***************************************************************************)
EXTENDS Integers

(* Mutant: keeps eight bytes only aligned. *)
Align8(n) == ((n + 7) \div 8) * 8

(* (n + 15) & ~15 *)
Align16(n) == ((n + 15) \div 16) * 16

SaveDisp(i) == -8 * (i + 1)

(* Mutant: the spill slots start where the saved registers do. *)
SpillDispOverSaves(num_saved, slot) == -8 * (slot + 1)

SpillDisp(num_saved, slot) == -8 * (num_saved + slot + 1)

(* The offset from rsp, at the call, of argument i >= 4, and the offset     *)
(* from the callee's own rbp at which it looks for it.                      *)
OutDisp(i) == 32 + 8 * (i - 4)
InDisp(i) == 16 + 8 * i

(* Mutant: no room for saved registers and spill slots. *)
FrameSizeNoSlots(slots, stack_args) == Align16(32 + stack_args * 8)

FrameSize(slots, stack_args) == Align16(slots * 8 + 32 + stack_args * 8)

(* The bytes of a cell, and those a function leaves for its callee. *)
CellAt(addr) == addr .. addr + 7
Shadow(rsp) == rsp .. rsp + 31

-----------------------------------------------------------------------------
(* Frames: the counts of saved registers, spill slots and stack arguments,  *)
(* and where the frame begins.                                              *)
SavedCells(f) == {f.rbp + SaveDisp(i) : i \in 0 .. f.saved - 1}
SpillCells(f) == {f.rbp + SpillDisp(f.saved, s) : s \in 0 .. f.spills - 1}
Rsp(f) == f.rbp - FrameSize(f.saved + f.spills, f.args)
OutCells(f) == {Rsp(f) + OutDisp(i) : i \in 4 .. f.args + 3}
===============================================================================
