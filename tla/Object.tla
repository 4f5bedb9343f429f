-------------------------------- MODULE Object --------------------------------
(***************************************************************************)
(* The object file of a module: compile_module_obj() lays the functions    *)
(* out and names them, write_coff_x64() works out where the tables of the  *)
(* file will be, puts these places in the headers, and then writes the     *)
(* parts one after the other.  A linker reads the file through the headers *)
(* and must patch each call the way jit_compile_ra() patches it in memory. *)
(*                                                                         *)
(* Bytes are counted, not told: the file maps a position to the record     *)
(* written there.  One step writes one record.                             *)
(***************************************************************************)
EXTENDS Layout, SequencesExt

CONSTANTS Modules,     \* the compiled modules: sequences of functions
                       \* [node, name, size, relocs], relocs of [at, target]
          NameLen,     \* the length of each name
          CountBits    \* the width of NumberOfRelocations: 16

(* Modules are not empty: helixc writes no object without code.  A call of  *)
(* a function that is not in the module bears a name no function of it has. *)
ASSUME ObjectAssumption ==
    /\ CountBits \in Nat
    /\ \A fs \in Modules :
        /\ Len(fs) \in Nat \ {0} /\ DOMAIN fs = 1 .. Len(fs)
        /\ \A i \in DOMAIN fs :
            /\ fs[i].size \in Nat
            /\ fs[i].name # "unknown" /\ NameLen[fs[i].name] \in Nat
            /\ Len(fs[i].relocs) \in Nat
            /\ DOMAIN fs[i].relocs = 1 .. Len(fs[i].relocs)

VARIABLES outs,    \* the functions compiled
          obj,     \* [text, symbols, relocs]: the ObjModule
          file,    \* the records written, by position
          pos,     \* the length of the file so far
          strtab,  \* [size, names]: the string table
          stage    \* "compiled", "assembled", "headers", "relocs", "symbols", "done"

vars == <<outs, obj, file, pos, strtab, stage>>

kFileHeaderSize == 20
kSectionHeaderSize == 40
kRelocSize == 10
kSymbolSize == 18
ADDR64 == 1
Text == kFileHeaderSize + kSectionHeaderSize

-----------------------------------------------------------------------------
(* Mutant: rounds down. *)
OffsetsDown(fs) ==
    LET off[i \in DOMAIN fs] ==
            IF i = 1 THEN 0 ELSE ((off[i - 1] + fs[i - 1].size) \div 16) * 16
    IN  off

(* Where each function begins. *)
Offsets(fs) ==
    LET off[i \in DOMAIN fs] == IF i = 1 THEN 0 ELSE Align16(off[i - 1] + fs[i - 1].size)
    IN  off

(* func_index: a target the module does not have counts as its first. *)
IndexOf(fs, node) ==
    LET at == {i \in DOMAIN fs : fs[i].node = node}
    IN  IF at = {} THEN 1 ELSE Max(at)

(* jit_compile_ra(): what is patched where. *)
JitPatches(fs) ==
    LET off == Offsets(fs)
    IN  UNION {{<<off[i] + fs[i].relocs[r].at, off[IndexOf(fs, fs[i].relocs[r].target)]>> :
                    r \in DOMAIN fs[i].relocs} : i \in DOMAIN fs}

NameOf(fs, node) ==
    IF \E i \in DOMAIN fs : fs[i].node = node THEN fs[IndexOf(fs, node)].name ELSE "unknown"

(* Mutant: a relocation is placed from the start of its own function. *)
RelocAtOwn(fs, i, r) ==
    [at |-> fs[i].relocs[r].at, symbol |-> NameOf(fs, fs[i].relocs[r].target), type |-> ADDR64]

RelocAt(fs, i, r) ==
    [at |-> Offsets(fs)[i] + fs[i].relocs[r].at,
     symbol |-> NameOf(fs, fs[i].relocs[r].target), type |-> ADDR64]

(* compile_module_obj() *)
ObjModule(fs) ==
    LET off == Offsets(fs)
    IN  [text |-> off[Len(fs)] + fs[Len(fs)].size,
         symbols |-> [i \in DOMAIN fs |-> [name |-> fs[i].name, offset |-> off[i], defined |-> TRUE]],
         relocs |-> FlattenSeq([i \in DOMAIN fs |->
                        [r \in DOMAIN fs[i].relocs |-> RelocAt(fs, i, r)]])]

-----------------------------------------------------------------------------
Init ==
    /\ outs \in Modules
    /\ obj = [text |-> 0, symbols |-> <<>>, relocs |-> <<>>]
    /\ file = <<>> /\ pos = 0
    /\ strtab = [size |-> 4, names |-> <<>>]
    /\ stage = "compiled"

Assemble ==
    /\ stage = "compiled"
    /\ obj' = ObjModule(outs)
    /\ stage' = "assembled"
    /\ UNCHANGED <<outs, file, pos, strtab>>

(* The places of the tables, from the counts alone. *)
RelocOffset == Text + obj.text
SymtabOffset == RelocOffset + Len(obj.relocs) * kRelocSize

Unless0(n, place) == IF n = 0 THEN 0 ELSE place

FileHeader ==
    [symtab |-> Unless0(Len(obj.symbols), SymtabOffset), num_symbols |-> Len(obj.symbols)]

SectionHeader ==
    [raw |-> Unless0(obj.text, Text), size |-> obj.text,
     relocs |-> Unless0(Len(obj.relocs), RelocOffset),
     num_relocs |-> Len(obj.relocs) % 2 ^ CountBits]

(* What is written goes behind what there is. *)
Put(written, place, record) ==
    [p \in DOMAIN written \cup {place} |-> IF p = place THEN record ELSE written[p]]

(* Both headers, and the code after them. *)
PutHeaders ==
    /\ stage = "assembled"
    /\ file' = [p \in {0, kFileHeaderSize} |-> IF p = 0 THEN FileHeader ELSE SectionHeader]
    /\ pos' = Text + obj.text
    /\ stage' = "relocs"
    /\ UNCHANGED <<outs, obj, strtab>>

Written(kind) == Cardinality({p \in DOMAIN file : p >= Text /\ file[p].kind = kind})

(* Mutant: symbols are counted from 1. *)
SymIndexFrom1(name) ==
    LET at == {i \in DOMAIN obj.symbols : obj.symbols[i].name = name}
    IN  IF at = {} THEN 0 ELSE Min(at)

(* sym_index: the first symbol of a name, or 0 if there is none. *)
SymIndex(name) ==
    LET at == {i \in DOMAIN obj.symbols : obj.symbols[i].name = name}
    IN  IF at = {} THEN 0 ELSE Min(at) - 1

PutReloc ==
    LET n == Written("reloc")
        r == obj.relocs[n + 1]
    IN  /\ stage = "relocs" /\ n < Len(obj.relocs)
        /\ file' = Put(file, pos, [kind |-> "reloc", at |-> r.at, index |-> SymIndex(r.symbol),
                                   type |-> r.type])
        /\ pos' = pos + kRelocSize
        /\ UNCHANGED <<outs, obj, strtab, stage>>

EndRelocs ==
    /\ stage = "relocs" /\ Written("reloc") = Len(obj.relocs)
    /\ stage' = "symbols"
    /\ UNCHANGED <<outs, obj, file, pos, strtab>>

(* Mutant: offsets into the string table leave out its own size field. *)
InternNameFrom0(name) ==
    [size |-> strtab.size + NameLen[name] + 1,
     names |-> Put(strtab.names, strtab.size - 4, name)]

(* intern_name() *)
InternName(name) ==
    [size |-> strtab.size + NameLen[name] + 1, names |-> Put(strtab.names, strtab.size, name)]

(* Names of more than eight bytes go to the string table. *)
PutSymbol ==
    LET n == Written("symbol")
        s == obj.symbols[n + 1]
        long == NameLen[s.name] > 8
    IN  /\ stage = "symbols" /\ n < Len(obj.symbols)
        /\ strtab' = IF long THEN InternName(s.name) ELSE strtab
        /\ file' = Put(file, pos, [kind |-> "symbol",
                                   name |-> IF long THEN "" ELSE s.name,
                                   str_off |-> IF long THEN strtab.size ELSE 0,
                                   value |-> s.offset,
                                   section |-> IF s.defined THEN 1 ELSE 0])
        /\ pos' = pos + kSymbolSize
        /\ UNCHANGED <<outs, obj, stage>>

PutStrings ==
    /\ stage = "symbols" /\ Written("symbol") = Len(obj.symbols)
    /\ file' = Put(file, pos, [kind |-> "strings", size |-> strtab.size])
    /\ pos' = pos + strtab.size
    /\ stage' = "done"
    /\ UNCHANGED <<outs, obj, strtab>>

Next == Assemble \/ PutHeaders \/ PutReloc \/ EndRelocs \/ PutSymbol \/ PutStrings

Spec == Init /\ [][Next]_vars

-----------------------------------------------------------------------------
(* The linker: it finds the tables by the headers. *)
Missing == [kind |-> "none"]
Record(p, kind) == IF p \in DOMAIN file /\ p >= Text THEN file[p] ELSE Missing

RelocRecords ==
    LET h == file[kFileHeaderSize]
    IN  {Record(h.relocs + kRelocSize * i, "reloc") : i \in 0 .. h.num_relocs - 1}

SymbolRecord(i) == Record(file[0].symtab + kSymbolSize * i, "symbol")

NameRead(s) ==
    IF s.str_off = 0 THEN s.name
    ELSE IF s.str_off \in DOMAIN strtab.names THEN strtab.names[s.str_off] ELSE "none"

LinkerPatches ==
    {IF r.kind = "reloc" /\ SymbolRecord(r.index).kind = "symbol"
     THEN <<r.at, SymbolRecord(r.index).value>> ELSE <<"broken">> : r \in RelocRecords}

(* The linked object calls what the code in memory calls: the places the    *)
(* headers announce are where the tables were written, every relocation is  *)
(* at its site and leads through its symbol to its target.                  *)
LinksLikeJit == stage = "done" => LinkerPatches = JitPatches(outs)

(* Every function can be found under its name, short or long. *)
FunctionsAreNamed ==
    stage = "done" =>
        \A i \in DOMAIN outs : \E n \in 0 .. file[0].num_symbols - 1 :
            LET s == SymbolRecord(n)
            IN  /\ s.kind = "symbol" /\ s.section = 1
                /\ NameRead(s) = outs[i].name /\ s.value = Offsets(outs)[i]

(* No two functions share a byte, and each lies within the text. *)
FunctionsApart ==
    stage # "compiled" =>
        /\ \A i, j \in DOMAIN outs : i < j =>
                obj.symbols[i].offset + outs[i].size <= obj.symbols[j].offset
        /\ \A i \in DOMAIN outs : obj.symbols[i].offset + outs[i].size <= obj.text
===============================================================================
