-------------------------- MODULE LinkerProperties --------------------------
(* What must be true of the linking phases of wdclink. *)
EXTENDS Linker

Expression == [section: Nat, offset: Nat, size: Nat, relative: BOOLEAN,
               stack: Seq(Item), undefined: BOOLEAN, by: Nat, source: Seq(Item)]
Byte    == [by: Nat, section: Nat, at: Nat]
Section == [name: Names, flags: SUBSET SectionFlags, size: Nat,
            data: Seq(Byte), expressions: Seq(Expression), end_symbol: Nat]

(* Every variable has its type. (What simplify() leaves in the expressions *)
(* is a matter of simplify_expression().)                                  *)
TypeOK ==
    /\ IsCommandLine(cmd)
    /\ pc \in Final \cup {"file", "module", "sections", "symbols", "records",
                          "library", "round", "resolved", "generate_end",
                          "simplify"}
    /\ file \in Nat /\ modno \in Nat /\ l \in Nat /\ L \in Nat /\ i \in Nat \ {0}
    /\ modules \in [DOMAIN modules -> {"pending", "processed"}]
    /\ local_undefined \subseteq Names
    /\ module \in Module /\ loaded \in Seq(Module)
    /\ local_symbols \in Seq(Symbol)
    /\ current \in DOMAIN remap_section
    /\ remap_section \in [DOMAIN remap_section -> DOMAIN sections]
    /\ DOMAIN remap_section \subseteq Nat
    /\ pc # "linked" => sections \in Seq(Section)
    /\ Predefined \subseteq DOMAIN sections
    /\ section_map \in [DOMAIN section_map -> DOMAIN sections]
    /\ DOMAIN section_map \subseteq SectionNames
    /\ symbols \in Seq(Symbol)
    /\ symbol_map \in [DOMAIN symbol_map -> DOMAIN symbols]
    /\ DOMAIN symbol_map \subseteq Names
    /\ undefined_symbols \subseteq Names
    /\ errors \in Nat

(* one_file() runs before any library is opened, on a file of the command  *)
(* line; while a library is read its index and its modules' are valid.     *)
InputOpen ==
    /\ pc \in {"file", "module"} => l = 0
    /\ pc \in {"library", "round"} => l # 0
    /\ l = 0 /\ pc \in {"module", "sections", "symbols", "records"} =>
           file \in DOMAIN Files
    /\ l # 0 /\ pc \in {"round", "sections", "symbols", "records"} =>
           /\ l \in DOMAIN cmd.libs /\ L \in DOMAIN cmd.libs[l]
           /\ DOMAIN modules \subseteq DOMAIN Lib.mods

-----------------------------------------------------------------------------
(* The symbol table. *)

(* symbol_map and the vector of symbols are inverse to each other: no      *)
(* symbol is unreachable, renamed, or reachable by two names; and an       *)
(* undefined symbol holds its own number, the one that expressions of all  *)
(* modules refer to it by.                                                 *)
TableConsistent ==
    /\ \A k \in DOMAIN symbols : /\ symbols[k].name \in DOMAIN symbol_map
                                 /\ symbol_map[symbols[k].name] = k
    /\ \A n \in DOMAIN symbol_map : /\ symbol_map[n] \in DOMAIN symbols
                                    /\ symbols[symbol_map[n]].name = n
    /\ \A k \in DOMAIN symbols : symbols[k].type = "UND" => symbols[k].section = k

(* The list of undefined symbols, which decides whether libraries are read *)
(* and whether the link fails, is the undefined symbols of the table       *)
(* except those that generate_end() will define.                           *)
UndefinedListed ==
    /\ \A n \in undefined_symbols : n \in DOMAIN symbol_map /\
                                    symbols[symbol_map[n]].type = "UND"
    /\ \A k \in DOMAIN symbols : symbols[k].type = "UND" =>
           \/ symbols[k].name \in undefined_symbols
           \/ \E v \in DOMAIN sections : sections[v].end_symbol = k

(* simplify() meets no undefined symbol: every one that a module refers to *)
(* was defined by a module, or is the end of a section.                    *)
NothingUndefined ==
    pc \in {"simplify", "linked"} =>
        \A k \in DOMAIN symbols : symbols[k].type # "UND"

(* A SYM operand of an expression carries the number of a symbol of the    *)
(* table, under the name the module used, although symbols are appended    *)
(* and redefined after the expression was read; and an expression with     *)
(* such an operand is marked, or simplify() would pass it by.              *)
OperandsNamed ==
    \A v \in DOMAIN sections : \A j \in DOMAIN sections[v].expressions :
        LET e == sections[v].expressions[j]
        IN  \A k \in DOMAIN e.stack : e.stack[k].tag = "SYM" =>
                /\ e.undefined /\ e.stack[k].section \in DOMAIN symbols
                /\ e.source[k].tag = "SYM"
                /\ symbols[e.stack[k].section].name
                       = loaded[e.by].syms[e.source[k].section].name

(* A definition is never taken back or moved, whatever is read later; only *)
(* the end of a section is set once more, when the sections are complete.  *)
DefinitionsStay ==
    [][\A k \in DOMAIN symbols :
           /\ k \in DOMAIN symbols'
           /\ symbols'[k].name = symbols[k].name
           /\ symbols[k].type # "UND" => \/ symbols'[k] = symbols[k]
                                         \/ pc = "generate_end" /\ EndOf(k) # {}]_vars

-----------------------------------------------------------------------------
(* What the modules read say, against what the tables hold. *)

BetweenModules == pc \notin {"sections", "symbols"}

Referenced == UNION {{s.name : s \in {loaded[b].syms[k] : k \in
                  {j \in DOMAIN loaded[b].syms : loaded[b].syms[j].type = "UND"}}}
              : b \in DOMAIN loaded}

Defines(m, n) == \E k \in DOMAIN m.syms : /\ m.syms[k].name = n
                                          /\ m.syms[k].type # "UND"
                                          /\ m.syms[k].flags = Global

DefinedNames == {n \in Names : \E b \in DOMAIN loaded : Defines(loaded[b], n)}

InitialNames == {PredefinedBeg[k] : k \in Predefined} \cup
                {PredefinedEnd[k] : k \in Predefined}

UserSections == UNION {{s \in {loaded[b].secs[k] : k \in DOMAIN loaded[b].secs} :
                            s.number \notin Predefined /\ ~Unnamed(s)}
                       : b \in DOMAIN loaded}
SectionSymbols == UNION {{BegName[s.name], EndName[s.name]} : s \in UserSections}

(* Between modules the list of undefined symbols is what the modules refer *)
(* to and none of them, and not the linker, defines: in whatever order     *)
(* references and definitions came, no reference is forgotten and none is  *)
(* reported that a module satisfies. The symbols of user sections are left *)
(* open here: see SectionSymbolsProvided.                                  *)
UndefinedExactly ==
    BetweenModules /\ pc # "aborted" =>
        LET open == Referenced \ (DefinedNames \cup InitialNames)
        IN  open \ SectionSymbols \subseteq undefined_symbols /\ undefined_symbols \subseteq open

(* As the comment in init() has it, the linker creates _BEG_ and _END_     *)
(* symbols for each section, so no link can fail for want of one.          *)
SectionSymbolsProvided ==
    pc = "unresolved" => undefined_symbols \cap SectionSymbols = {}

(* As the comments in one_module() and generate_end() have it, an undefined *)
(* symbol with the name of a section is defined as its start, so no link   *)
(* can fail for want of one.                                               *)
SectionNamesResolved ==
    pc = "unresolved" => undefined_symbols \cap {s.name : s \in UserSections} = {}

-----------------------------------------------------------------------------
(* Where references land. *)

(* The place in the output of offset `at' of a local section of module b.  *)
Placed(b, section, at) ==
    {p \in UNION {{v} \X DOMAIN sections[v].data : v \in DOMAIN sections} :
        sections[p[1]].data[p[2]] = [by |-> b, section |-> section, at |-> at]}

Place(b, section, at) ==
    LET p == CHOOSE p \in Placed(b, section, at) : TRUE IN Loc(p[1], p[2] - 1)

(* The definition a module's symbol stands for: its own or, for a          *)
(* reference, the first one in the order the modules were read.            *)
Definers(n) == {b \in DOMAIN loaded : Defines(loaded[b], n)}
First(S)    == CHOOSE x \in S : \A y \in S : x <= y
Definition(b, s) ==
    IF s.type # "UND" THEN << b, s >>
    ELSE LET d == First(Definers(s.name))
             m == loaded[d]
         IN  << d, m.syms[First({k \in DOMAIN m.syms :
                                    /\ m.syms[k].name = s.name
                                    /\ m.syms[k].type # "UND"
                                    /\ m.syms[k].flags = Global})] >>

Meaning(b, t) ==
    CASE t.tag = "SYM" ->
             LET d == Definition(b, loaded[b].syms[t.section])
             IN  IF d[2].type = "ABS" THEN Val(d[2].offset)
                 ELSE Place(d[1], d[2].section, d[2].offset)
      [] t.tag = "LOC" -> Place(b, t.section, t.value)
      [] OTHER -> t

(* The operands that stand for a byte or a constant: not for the end of a  *)
(* section, nor for a place in a section that has no bytes.                *)
Tangible(b, t) ==
    /\ t.tag = "SYM" =>
           LET s == loaded[b].syms[t.section]
           IN  /\ s.type = "UND" => Definers(s.name) # {}
               /\ LET d == Definition(b, s)
                  IN  d[2].type = "REL" => Placed(d[1], d[2].section, d[2].offset) # {}
    /\ t.tag = "LOC" => Placed(b, t.section, t.value) # {}

LandsRight(e) ==
    (\A k \in DOMAIN e.source : Tangible(e.by, e.source[k])) =>
        e.stack = Folded([k \in DOMAIN e.source |-> Meaning(e.by, e.source[k])]).v

(* A reference to a symbol ends up at the very byte the symbol labelled in *)
(* the module that defines it (or at its value), through the sections      *)
(* being merged, renumbered and appended to, the definition coming before  *)
(* or after the reference, and the folding.                                *)
SymbolReferencesLand ==
    pc = "linked" =>
        \A v \in DOMAIN sections : \A j \in DOMAIN sections[v].expressions :
            LET e == sections[v].expressions[j]
            IN  With(e.source, {"LOC"}) = {} => LandsRight(e)

(* So does a reference by section and offset, which obj816.h describes as  *)
(* a "ref to offset from start of section" of the module.                  *)
LocationReferencesLand ==
    pc = "linked" =>
        \A v \in DOMAIN sections : \A j \in DOMAIN sections[v].expressions :
            LandsRight(sections[v].expressions[j])

(* An expression lies within bytes of its own module, and expressions of a *)
(* section are in the order of their bytes and do not overlap.             *)
ExpressionsPatchTheirBytes ==
    \A v \in DOMAIN sections : \A j \in DOMAIN sections[v].expressions :
        LET e == sections[v].expressions[j]
        IN  /\ e.section = v
            /\ e.offset + e.size <= Len(sections[v].data)
            /\ \A k \in 1 .. e.size : sections[v].data[e.offset + k].by = e.by
            /\ j > 1 => LET f == sections[v].expressions[j - 1]
                        IN  f.offset + f.size <= e.offset

(* The _END_ symbol of a section with data is the offset just after it,    *)
(* although the symbol is set from the declared sizes.                     *)
EndSymbolAtEnd ==
    pc \in {"simplify", "linked"} =>
        \A v \in DOMAIN sections :
            LET s == sections[v]
            IN  s.end_symbol # 0 /\ "REF_ONLY" \notin s.flags =>
                    /\ symbols[s.end_symbol].section = v
                    /\ symbols[s.end_symbol].offset = Len(s.data)

(* Variables of two modules do not share storage in a section that only    *)
(* has a size (page0, udata), as ref_only.asm of the samples expects.      *)
RefOnlyDisjoint ==
    pc = "linked" =>
        \A k, j \in DOMAIN symbols :
            LET s == symbols[k]
                t == symbols[j]
            IN  /\ k # j /\ s.type = "REL" /\ t.type = "REL"
                /\ s.section = t.section /\ s.offset = t.offset
                /\ "REF_ONLY" \in sections[s.section].flags
                => {s.name, t.name} \cap (InitialNames \cup SectionSymbols) # {}

(* Two modules that define one name at two places are reported.            *)
DuplicateReported ==
    BetweenModules =>
        \A a, b \in DOMAIN loaded : a < b =>
            \A j \in DOMAIN loaded[a].syms, k \in DOMAIN loaded[b].syms :
                LET s == loaded[a].syms[j]
                    t == loaded[b].syms[k]
                IN  /\ s.name = t.name /\ s.type # "UND" /\ t.type # "UND"
                    /\ s.flags = Global /\ t.flags = Global
                    /\ \/ s.type # t.type
                       \/ s.type = "ABS" /\ s.offset # t.offset
                       \/ s.type = "REL" /\ Placed(a, s.section, s.offset) # {}
                    => errors > 0 \/ pc = "aborted"

-----------------------------------------------------------------------------
(* Libraries. *)

(* The dictionary of the library tells the truth.                          *)
Accurate(lib) == \A n \in DOMAIN lib.dict :
                     /\ lib.mods[lib.dict[n]].intact
                     /\ Defines(lib.mods[lib.dict[n]], n)

(* When the linker is done with a library, nothing the library defines is  *)
(* missing: not what its own modules asked for in later rounds either.     *)
LibraryExhausted ==
    [][pc = "round" /\ pc' \in {"library", "resolved"} /\ Accurate(Lib) =>
           undefined_symbols' \cap DOMAIN Lib.dict = {}]_vars

(* No library module is read twice, be it wanted for several names, in     *)
(* several rounds, or from a library that is named again.                  *)
LibraryModuleOnce ==
    \A a, b \in DOMAIN loaded :
        loaded[a] = loaded[b] /\ a # b =>
            \E f \in DOMAIN cmd.objs : \E k \in DOMAIN cmd.objs[f].mods :
                cmd.objs[f].mods[k] = loaded[a]

(* The linker ends, however the libraries refer to each other.             *)
Terminates == <>(pc \in Final)

-----------------------------------------------------------------------------
(* The linker keeps the promise of LinkSpec. *)

Outcome ==
    CASE pc \in {"simplify", "linked"} -> "complete"
      [] pc = "unresolved" -> "unresolved"
      [] pc = "aborted" -> "aborted"
      [] OTHER -> "linking"

DefinedInTable == {symbols[k].name : k \in {j \in DOMAIN symbols : symbols[j].type # "UND"}}

LinkPromise == INSTANCE LinkSpec WITH
                   Initial <- {PredefinedBeg[k] : k \in Predefined},
                   defined <- DefinedInTable,
                   missing <- undefined_symbols,
                   outcome <- Outcome

(* The tables, the libraries and the phases implement the promise: names   *)
(* become missing and defined as it says, and the link completes exactly   *)
(* when nothing is missing.                                                *)
KeepsPromise == LinkPromise!Spec
=============================================================================
