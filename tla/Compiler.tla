------------------------------- MODULE Compiler -------------------------------
(***************************************************************************)
(* The compiler as helixc runs it: a program is read into a graph, which   *)
(* is verified or not, optimized or not, and run by one of three engines:  *)
(* the interpreter, the code of the simple generator, or the code of the   *)
(* optimizing one, whose register allocation is the state machine of       *)
(* Allocate.                                                               *)
(*                                                                         *)
(* One step is one phase of the compiler for one function, one step of     *)
(* allocate(), one instruction encoded, or one executed by the processor.  *)
(***************************************************************************)
EXTENDS Source, SimpleGen, Inline, WellFormed, Backend

CONSTANTS Suites,       \* by name: [sources, engines, levels, inputs, checked], with
                        \*   sources   programs, sequences of functions,
                        \*   engines   which of "interp", "simple", "ra" run them,
                        \*   levels    how deep calls may be inlined; 0 is not at all,
                        \*   inputs    [args, mem]: arguments of the last function,
                        \*             and what memory holds before the run,
                        \*   checked   whether graphs are verified, as helixc
                        \*             and debug builds of the generators do
          RunFuel,      \* the fuel the interpreter gets
          Rounds0,      \* rounds of its loops a program may take in all
          VReg, NumAlloc, MaxPos   \* as in LinearScan

VARIABLES suite, src,   \* the program, and the suite it is from
          engine, level,
          world     \* the graph

(* The stages before "ready": "source", "parsed", "optimize", "graph",      *)
(* "allocate", "encode", "link"; the ends of others than Run's: "rejected"  *)
(* by the parser or the verifier, "refused" by a later phase,               *)
(* "out_of_fuel".                                                           *)

(* The variables of allocate() that the encoder does not read. *)
VARIABLES lo, hi, todo, free_reg, active, phase, block, changed, live_in, live_out

RA == INSTANCE Allocate WITH Programs <- {}

allocating == <<lo, hi, todo, allocation, free_reg, active,
                prog, phase, block, changed, live_in, live_out>>
compiled == <<world, outs, enc, image, entry>>
setup == <<suite, src, engine, level>>
vars == <<setup, stage, compiled, running, allocating>>

MainOf(w) == Last(w.module_funcs)

(* helixc -O: functions the one that is run does not reach are dropped. *)
Reached(w) == KeepFuncs(w, ReachableFunctions(w, {MainOf(w)})).w

Optimized(w, depth) == Reached(OptimizeModule(w, depth))

Sources == UNION {Suites[n].sources : n \in DOMAIN Suites}

(* Programs are parsed before they are run; TLC evaluates this once. *)
Parsed == [p \in Sources |-> ParseModule(Tokens(p))]

Verified(w) == Suites[suite].checked => VerifyModule(w)

Interpreted(w, in) == EvalFunc(w, MainOf(w), in.args, in.mem, RunFuel)

Nothing == [v |-> 0, mem |-> <<>>]

Init ==
    /\ suite \in DOMAIN Suites
    /\ src \in Suites[suite].sources
    /\ engine \in Suites[suite].engines
    /\ level \in Suites[suite].levels
    /\ stage = "source"
    /\ world = EmptyWorld /\ outs = <<>> /\ enc = <<>> /\ image = <<>> /\ entry = 0
    /\ input = [args |-> <<>>, mem |-> <<>>] /\ junk = 0
    /\ cpu = EnterCode(0, <<>>, <<>>, 0)
    /\ steps = 0 /\ answer = Nothing
    /\ prog = <<>> /\ phase = "scan" /\ block = 0 /\ changed = FALSE
    /\ live_in = <<>> /\ live_out = <<>>
    /\ lo = [v \in VReg |-> MaxPos] /\ hi = [v \in VReg |-> -1]
    /\ RA!ScanStart

GraphRead(s) ==
    /\ stage' = IF s.failed THEN "rejected" ELSE "parsed"
    /\ world' = IF s.failed THEN world ELSE s.w

(* The source is read, or an error is reported. *)
ReadSource ==
    /\ stage = "source"
    /\ GraphRead(Parsed[src])
    /\ UNCHANGED <<setup, outs, enc, image, entry, running, allocating>>

VerifyGraph ==
    /\ stage = "parsed"
    /\ stage' = IF ~Verified(world) THEN "rejected"
                ELSE IF level > 0 THEN "optimize" ELSE "graph"
    /\ UNCHANGED <<setup, compiled, running, allocating>>

(* The optimized graph must still verify. *)
OptimizeGraph ==
    /\ stage = "optimize"
    /\ world' = Optimized(world, level)
    /\ stage' = IF Verified(world') THEN "graph" ELSE "refused"
    /\ UNCHANGED <<setup, outs, enc, image, entry, running, allocating>>

Ran(run) ==
    /\ stage' = IF run.fault THEN "trapped" ELSE IF run.out_of_fuel THEN "out_of_fuel" ELSE "done"
    /\ answer' = [v |-> run.v, mem |-> run.mem]

(* eval_func() *)
Interpret ==
    /\ stage = "graph" /\ engine = "interp"
    /\ input' \in Suites[suite].inputs
    /\ Ran(Interpreted(world, input'))
    /\ UNCHANGED <<setup, compiled, junk, cpu, steps, allocating>>

(* The next function of the module that has no code yet. *)
Pending == world.module_funcs[Len(outs) + 1]

AllDone(stages) == IF Len(outs') = Len(world.module_funcs) THEN "link" ELSE stages

Generated(gen) ==
    /\ outs' = IF gen.failed THEN outs ELSE Append(outs, Out(Pending, gen))
    /\ stage' = IF gen.failed THEN "refused" ELSE AllDone("graph")

(* jit_compile(): one function of the module. *)
GenerateSimple ==
    /\ stage = "graph" /\ engine = "simple"
    /\ Generated(GenerateFunc(world, Pending))
    /\ UNCHANGED <<setup, world, enc, image, entry, running, allocating>>

(* allocate() is called on the VCode p, or, with none, it has returned. *)
BeginAllocate(p, at) ==
    /\ prog' = p /\ phase' = at /\ block' = Len(p) /\ changed' = FALSE
    /\ live_in' = [b \in DOMAIN p |-> {}] /\ live_out' = live_in'
    /\ lo' = [v \in VReg |-> MaxPos] /\ hi' = [v \in VReg |-> -1]
    /\ todo' = {} /\ free_reg' = RA!Regs /\ active' = {}
    /\ reg' = [v \in VReg |-> -1] /\ spill' = reg'
    /\ num_spills' = 0 /\ reg_used' = {}

BlocksLowered(low) ==
    /\ stage' = IF low.failed THEN "refused" ELSE "allocate"
    /\ BeginAllocate(low.code, "liveness")

(* jit_compile_ra(): one function is lowered, and its allocation begins. *)
LowerNext ==
    /\ stage = "graph" /\ engine = "ra"
    /\ BlocksLowered(LowerFunc(world, Pending))
    /\ UNCHANGED <<setup, world, outs, enc, image, entry, running>>

Allocate ==
    /\ stage = "allocate"
    /\ RA!VisitBlock \/ RA!NextSweep \/ RA!BuildIntervals \/ RA!ScanOne
    /\ UNCHANGED <<setup, stage, compiled, running>>

EncodePending ==
    /\ \/ phase = "scan" /\ todo = {} /\ BeginEncode
       \/ EncodeOne
    /\ UNCHANGED <<setup, world, allocating>>

FinishEncode ==
    /\ EndEncode(Pending)
    /\ stage' = AllDone("graph")
    /\ BeginAllocate(<<>>, "scan")
    /\ UNCHANGED <<setup, world>>

(* The function that is run is the last of the source. *)
Link ==
    /\ LinkTo(MainOf(world))
    /\ world' = EmptyWorld
    /\ UNCHANGED <<setup, allocating>>

(* The code is called with an input of the suite, and runs. *)
CallCode ==
    /\ input' \in Suites[suite].inputs
    /\ Start
    /\ UNCHANGED <<setup, world, outs, enc, allocating>>

RunCode ==
    /\ Step \/ Return
    /\ UNCHANGED <<setup, world, outs, enc, allocating>>

Compile ==
    \/ ReadSource \/ VerifyGraph \/ OptimizeGraph
    \/ GenerateSimple \/ LowerNext \/ Allocate \/ EncodePending \/ FinishEncode \/ Link

Execution == Interpret \/ CallCode \/ RunCode

(* The run is over, or it is taken to run on. *)
Over ==
    /\ stage \in {"done", "rejected", "refused", "trapped", "out_of_fuel"} \/ steps = StepBound
    /\ UNCHANGED vars

Next == Compile \/ Execution \/ Over

Spec == Init /\ [][Next]_vars

-----------------------------------------------------------------------------
(* What the source means for the input at hand.  Source gives a meaning to  *)
(* programs of 64-bit integers.                                             *)
Meant == Meaning(src, input.args, input.mem, Rounds0)
Ints == \A i \in DOMAIN src : \A j \in DOMAIN src[i].types : src[i].types[j] = "KwIntTy"

(* A program that ends returns what its source means and leaves memory as   *)
(* its source says: through parser, schedule, lowering, allocation,         *)
(* encoding and linking, whatever unwritten registers and stack hold.       *)
Answers(m) == m.ends => answer = [v |-> m.v, mem |-> m.mem]

MeansSource == stage = "done" /\ Ints => Answers(Meant)

(* No division traps, no address is accessed that the source does not      *)
(* access, and the run ends, if the source's does.                          *)
EndsWell == Ints /\ (stage \in {"trapped", "out_of_fuel"} \/ steps = StepBound) => ~Meant.ends

(* Where a program has values of a narrow type, what it means is what the   *)
(* interpreter makes of the graph as it was read, and all code gives that.  *)
Reference == Interpreted(Parsed[src].w, input)

AnswersAs(r) == r.out_of_fuel \/ answer = [v |-> r.v, mem |-> r.mem]

AgreesWithInterpreter == stage = "done" /\ ~Ints => AnswersAs(Reference)

(* What the parser reads and the verifier accepts is compiled, if neither   *)
(* its functions nor its calls have more than eight parameters, all that    *)
(* the generators take: inlining leaves a graph that still verifies.        *)
AcceptedIsCompiled == stage # "refused"

(* Every function the code calls has code when the calls are patched: what  *)
(* is dropped after inlining was called from nowhere that is left.  A call  *)
(* of a function without code would be patched to call the first one.       *)
CallsNameFunctions ==
    stage = "link" =>
        \A i \in DOMAIN outs : \A r \in Range(outs[i].relocs) :
            \E j \in DOMAIN outs : outs[j].node = r.target
===============================================================================
