--------------------------------- MODULE Run ---------------------------------
(***************************************************************************)
(* JitModule::call(): the processor runs the code of a module, handed over *)
(* by whoever compiled it, until it returns to the caller.                 *)
(*                                                                         *)
(* All that is asked of the code is its shape: it consists of functions    *)
(* that begin with the prologue, end in epilogues, and between the two     *)
(* jump, call and write as both code generators take care to.  RunSpec is  *)
(* a run of any code of that shape.                                        *)
(***************************************************************************)
EXTENDS Machine

CONSTANTS Junk,         \* what unwritten registers and stack may hold
          StepBound     \* instructions a run may take

VARIABLES stage,    \* "ready" once there is code, then "run" and "done" or
                    \* "trapped"
          image,    \* the machine code of the module
          entry,    \* where the function begins that is called
          input,    \* [args, mem] of the run
          junk,     \* what was never written holds in it
          cpu,      \* the processor
          steps,    \* the instructions it has executed
          answer    \* [v, mem] once done

running == <<input, junk, cpu, steps, answer>>
run_vars == <<stage, image, entry, running>>

-----------------------------------------------------------------------------
(* The shape of code.  A function f is [entry, body, last, frame, saves]:   *)
(* where it begins, where its prologue ends and where it ends itself, the   *)
(* size of its frame, and the registers it saves, in order.                 *)
Starts(code) == {p \in 1 .. Len(code) : code[p].i = "push_rbp"}

SavesRegister(in) == in.i = "store" /\ in.s \in CalleeSaved

FunctionAt(code, e) ==
    LET ends == {p \in e + 3 .. Len(code) : ~SavesRegister(code[p])}
        body == Min(ends \cup {Len(code) + 1})
    IN  [entry |-> e, body |-> body,
         last |-> Min({p \in Starts(code) : p > e} \cup {Len(code) + 1}) - 1,
         frame |-> code[e + 2].n,
         saves |-> [i \in 1 .. body - e - 3 |-> code[e + 2 + i].s]]

NumSaves(f) == f.body - f.entry - 3

(* The registers its body may write. *)
Free(f) == Scratch \cup {f.saves[i] : i \in 1 .. NumSaves(f)}

HasPrologue(code, f) ==
    /\ f.frame \in Nat /\ f.frame % 16 = 0 /\ 8 * NumSaves(f) <= f.frame
    /\ code[f.entry].i = "push_rbp" /\ code[f.entry + 1].i = "mov_rbp_rsp"
    /\ code[f.entry + 2].i = "sub_rsp" /\ code[f.entry + 2].n = f.frame
    /\ \A i \in 1 .. NumSaves(f) :
          LET in == code[f.entry + 2 + i]
          IN  SavesRegister(in) /\ in.s = f.saves[i] /\ in.n = SaveDisp(i - 1)

(* The return at q ends an epilogue, entered at its first instruction. *)
HasEpilogue(code, f, q) ==
    /\ f.body <= q - 2 - NumSaves(f)
    /\ \A i \in 1 .. NumSaves(f) :
          LET in == code[q - 3 - NumSaves(f) + i]
          IN  in.i = "load" /\ in.d = f.saves[i] /\ in.n = SaveDisp(i - 1)
    /\ code[q - 2].i = "mov_rsp_rbp" /\ code[q - 1].i = "pop_rbp"

BodyOf(f) == f.body .. f.last

Open(code, f, p) ==
    /\ p \in BodyOf(f) /\ code[p].i # "call"
    /\ \A q \in BodyOf(f) : code[q].i = "ret" => p \notin q - 1 - NumSaves(f) .. q

(* Instructions that write registers only, and which. *)
RegisterOps == {"mov_ri", "mov_rr", "load", "alu", "alu_rm", "alu_ri", "movsx", "cmovcc",
                "mov_from_mem"}
UnaryOps == {"neg", "not", "idiv", "cqo", "Shl", "AShr", "LShr"}

WritesRegisters(f, in) ==
    \/ in.i \in RegisterOps /\ in.d \in Free(f)
    \/ in.i = "unary" /\ in.k \in UnaryOps /\ in.d \in Free(f)
    \/ in.i \in {"test_rr", "setcc", "mov_to_mem"}

(* It stores to its slots, below what it saved, or to the arguments of the  *)
(* functions it calls.                                                      *)
WritesFrame(f, in) ==
    \/ in.i = "store" /\ in.n \in -f.frame .. SaveDisp(NumSaves(f))
    \/ in.i = "store_rsp" /\ in.n \in 0 .. f.frame + SaveDisp(NumSaves(f))

Goes(code, f, p) ==
    \/ code[p].i \in {"jmp", "jcc"} /\ Open(code, f, p + code[p].n)
    \/ /\ code[p].i = "call" /\ p > f.body
       /\ code[p - 1].i = "mov_ri" /\ code[p - 1].d = "RAX" /\ code[p - 1].n \in Starts(code)

Leaves(code, f, p) ==
    \/ code[p].i = "mov_rsp_rbp" /\ p + 2 \in BodyOf(f) /\ code[p + 2].i = "ret"
    \/ code[p].i = "pop_rbp" /\ p + 1 \in BodyOf(f) /\ code[p + 1].i = "ret"
    \/ code[p].i = "ret" /\ HasEpilogue(code, f, p)

HasBody(code, f) ==
    \A p \in BodyOf(f) :
        /\ WritesRegisters(f, code[p]) \/ WritesFrame(f, code[p])
           \/ Goes(code, f, p) \/ Leaves(code, f, p)
        /\ code[p].i \notin {"jmp", "ret"} => p < f.last

IsFunction(code, f) ==
    /\ f.entry \in Nat \ {0} /\ f.body \in Nat /\ f.last \in Nat
    /\ f.entry + 3 <= f.body /\ f.body <= f.last
    /\ HasPrologue(code, f) /\ HasBody(code, f)

Shaped(code, e) ==
    /\ e \in Starts(code)
    /\ \A d \in Starts(code) : IsFunction(code, FunctionAt(code, d))

-----------------------------------------------------------------------------
(* Whoever compiles takes any steps, and calls only code of that shape.     *)
Prepare ==
    /\ stage \notin {"ready", "run"} /\ steps = 0
    /\ stage' # "run" /\ (stage' = "ready" => Shaped(image', entry'))
    /\ UNCHANGED <<junk, cpu, steps>>

(* JitModule::call *)
Start ==
    /\ stage = "ready"
    /\ stage' = "run"
    /\ junk' \in Junk
    /\ cpu' = EnterCode(entry, input'.args, input'.mem, junk')
    /\ UNCHANGED <<image, entry, steps, answer>>

Step ==
    /\ stage = "run" /\ cpu.pc # Halt /\ steps < StepBound
    /\ steps' = steps + 1
    /\ cpu' = Execute(cpu, image[cpu.pc], junk)
    /\ stage' = IF cpu'.trap THEN "trapped" ELSE "run"
    /\ UNCHANGED <<image, entry, input, junk, answer>>

Return ==
    /\ stage = "run" /\ cpu.pc = Halt
    /\ stage' = "done"
    /\ answer' = [v |-> cpu.regs["RAX"], mem |-> cpu.mem]
    /\ UNCHANGED <<image, entry, input, junk, cpu, steps>>

RunInit == stage \notin {"ready", "run"} /\ steps = 0

RunNext == Prepare \/ Start \/ Step \/ Return

(* A run of any code of the shape: the compiler and both its code           *)
(* generators implement it, so what they hand over has that shape.          *)
RunSpec == RunInit /\ [][RunNext]_run_vars

-----------------------------------------------------------------------------
(* On return the registers a callee must keep and the stack pointer are as  *)
(* the caller left them.                                                    *)
CallerKept ==
    stage = "done" /\ steps > 0 =>
        /\ \A r \in CalleeSaved : cpu.regs[r] = junk
        /\ cpu.rsp = CallerRsp /\ cpu.rbp = 0

(* The stack is aligned wherever a function is called. *)
CallsAligned ==
    stage = "run" /\ cpu.pc # Halt /\ image[cpu.pc].i = "call" => cpu.rsp % 16 = 0

(* A function changes its own frame only: above rsp, and below the          *)
(* caller's rbp it saved.                                                   *)
OwnFrameOnly ==
    stage = "run" =>
        \A x \in DOMAIN cpu'.stk :
            \/ x \in DOMAIN cpu.stk /\ cpu'.stk[x] = cpu.stk[x]
            \/ cpu'.rsp = x /\ x < cpu.rsp
            \/ cpu'.rsp <= x /\ x < cpu.rbp

WritesOwnFrameOnly == [][OwnFrameOnly]_run_vars
===============================================================================
