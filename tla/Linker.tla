------------------------------- MODULE Linker -------------------------------
(***************************************************************************)
(* The linking phases of wdclink (link.cpp): main() reads the object files *)
(* of the command line, then the libraries while symbols are missing, then *)
(* defines the _END_ symbols and resolves and simplifies the expressions.  *)
(* The OMF segments are built from the state this specification ends in.   *)
(*                                                                         *)
(* An action is one turn of one loop of the code. Sections and symbols are *)
(* numbered from 1 here and from 0 in the code; 0 stands for its -1. A     *)
(* byte of section data is the place it was read from (the module, the     *)
(* local section and the offset in it), which is all that the properties   *)
(* need to tell whether a reference lands where its definition went.       *)
(***************************************************************************)
EXTENDS Integers, Sequences, FiniteSets, Expression

CONSTANTS
    Names,          \* symbol and section names
    SectionNames,   \* the names of user sections
    BegName,        \* section name -> upper_case("_BEG_" + name)
    EndName,        \* section name -> upper_case("_END_" + name)
    CommandLines    \* the inputs: object files, and libraries by -l and -L

PAGE0 == 1
CODE  == 2
KDATA == 3
DATA  == 4
UDATA == 5
Predefined == PAGE0 .. UDATA

PredefinedName == << "page0", "code", "kdata", "data", "udata" >>
PredefinedBeg  == << "_BEG_PAGE0", "_BEG_CODE", "_BEG_KDATA", "_BEG_DATA",
                     "_BEG_UDATA" >>
PredefinedEnd  == << "_END_PAGE0", "_END_CODE", "_END_KDATA", "_END_DATA",
                     "_END_UDATA" >>
PredefinedFlags == << {"DATA", "NONAME", "DIRECT", "REF_ONLY"}, {"NONAME"},
                      {"DATA", "NONAME"}, {"DATA", "NONAME"},
                      {"DATA", "NONAME", "REF_ONLY"} >>

SectionFlags == {"DATA", "NONAME", "DIRECT", "REF_ONLY"}
Global == {"GBL", "DEF"}

(* What read_sections(), read_symbols() and the record loop find in a      *)
(* module. `n' is the byte count of DATA, SPACE and the expressions and    *)
(* the section number of SECT. A module that is not intact is one whose    *)
(* header or parts are shorter than the header says.                       *)
LocalSection == [number: Nat \ {0}, flags: SUBSET SectionFlags, size: Nat,
                 name: SectionNames]
Symbol == [name: Names, type: {"UND", "ABS", "REL"}, flags: SUBSET Global,
           offset: Nat, section: Nat]
Record == [op: {"DATA", "SPACE", "SECT", "ORG", "EXPR", "RELEXP", "DEBUG"},
           n: Nat, stack: Seq(Item)]
Module == [intact: BOOLEAN, secs: Seq(LocalSection), syms: Seq(Symbol),
           recs: Seq(Record)]

(* A file given by position, and a library: what open() and the header     *)
(* checks say of it, and its modules in offset order. The dictionary of a  *)
(* library takes a name to the module that defines it.                     *)
File == [kind: {"missing", "invalid", "library", "object"}, mods: Seq(Module)]
IsLibrary(lib) ==
    /\ lib = [kind |-> lib.kind, mods |-> lib.mods, dict |-> lib.dict]
    /\ lib.kind \in {"missing", "invalid", "library"}
    /\ lib.mods \in Seq(Module)
    /\ lib.dict \in [DOMAIN lib.dict -> DOMAIN lib.mods]
    /\ DOMAIN lib.dict \subseteq Names
IsCommandLine(c) ==
    /\ c = [objs |-> c.objs, libs |-> c.libs]
    /\ c.objs \in Seq(File)
    /\ DOMAIN c.libs \subseteq Nat
    /\ \A o \in DOMAIN c.libs : /\ DOMAIN c.libs[o] \subseteq Nat
                                /\ \A d \in DOMAIN c.libs[o] : IsLibrary(c.libs[o][d])

ASSUME NamesAssumption ==
    /\ SectionNames \subseteq Names
    /\ BegName \in [SectionNames -> Names]
    /\ EndName \in [SectionNames -> Names]
    /\ \A k \in Predefined : {PredefinedName[k], PredefinedBeg[k],
                              PredefinedEnd[k]} \subseteq Names

ASSUME CommandLinesAssumption == \A c \in CommandLines : IsCommandLine(c)

VARIABLES
    cmd,                \* the command line
    pc,                 \* the loop that runs
    file,               \* index of the object file, of ...
    modno,              \* ... the module in it
    l, L,               \* index of the -l and -L option; 0 before libraries()
    modules,            \* one_lib(): module -> "pending" or "processed"
    local_undefined,    \* one_lib(): names its modules leave undefined
    module, i,          \* one_module(): its module, the item of the loop
    remap_section,      \* one_module(): local section -> section
    local_symbols,      \* one_module(): its symbols, converted so far
    current,            \* one_module(): local number of current_section
    sections, section_map, symbols, symbol_map, undefined_symbols,
    errors,             \* flags.errors
    loaded              \* the modules read, in order (for the properties)

input    == << cmd, file, modno, l, L, modules >>
frame    == << module, remap_section, local_symbols, current, loaded >>
globals  == << sections, section_map, symbols, symbol_map, undefined_symbols >>
vars     == << cmd, pc, file, modno, l, L, modules, local_undefined, module, i,
               remap_section, local_symbols, current, sections, section_map,
               symbols, symbol_map, undefined_symbols, errors, loaded >>

Bind(f, x, v) == [y \in DOMAIN f \cup {x} |-> IF y = x THEN v ELSE f[y]]

Final == {"linked", "unresolved", "aborted"}

-----------------------------------------------------------------------------
(* init(): five predefined sections, each with a defined _BEG_ symbol and  *)
(* an undefined _END_ symbol that is not listed as undefined: the symbols  *)
(* 2k - 1 and 2k of section k.                                             *)

PredefinedSection(k) ==
    [name |-> PredefinedName[k], flags |-> PredefinedFlags[k], size |-> 0,
     data |-> << >>, expressions |-> << >>, end_symbol |-> 2 * k]

SectionStart(name, v) ==
    [name |-> name, type |-> "REL", flags |-> Global, offset |-> 0, section |-> v]

UndefinedSymbol(name, number) ==
    [name |-> name, type |-> "UND", flags |-> {}, offset |-> 0,
     section |-> number]

PredefinedSymbol(j) ==
    LET k == (j + 1) \div 2
    IN  IF j % 2 = 1 THEN SectionStart(PredefinedBeg[k], k)
                     ELSE UndefinedSymbol(PredefinedEnd[k], j)

NoModule == [intact |-> TRUE, secs |-> << >>, syms |-> << >>, recs |-> << >>]
(* Variant: the table starts filled with 0 rather than -1. *)
IdentityRemap_ZeroFilled == [k \in 0 .. UDATA |-> k]

IdentityRemap == [k \in Predefined |-> k]

Init ==
    /\ cmd \in CommandLines
    /\ pc = "file" /\ file = 1 /\ modno = 1 /\ l = 0 /\ L = 0
    /\ modules = << >> /\ local_undefined = {}
    /\ module = NoModule /\ i = 1 /\ current = CODE
    /\ remap_section = IdentityRemap /\ local_symbols = << >>
    /\ sections = [k \in Predefined |-> PredefinedSection(k)]
    /\ section_map = << >>
    /\ symbols = [j \in 1 .. 10 |-> PredefinedSymbol(j)]
    /\ symbol_map = [n \in {PredefinedSymbol(j).name : j \in 1 .. 10} |->
                        CHOOSE j \in 1 .. 10 : PredefinedSymbol(j).name = n]
    /\ undefined_symbols = {} /\ errors = 0 /\ loaded = << >>

-----------------------------------------------------------------------------
(* one_module(), the loop over the sections. *)

(* The arguments of one_module() and the locals it starts with. *)
Enter(m) ==
    /\ module' = m /\ loaded' = Append(loaded, m)
    /\ remap_section' = IdentityRemap /\ local_symbols' = << >>
    /\ current' = CODE
    /\ pc' = "sections" /\ i' = 1

(* An assertion fails, or errx() is called: the process ends. *)
Abort == pc' = "aborted" /\ UNCHANGED << input, frame, globals, i,
                                         local_undefined, errors >>

Sec == module.secs[i]
AtSection == pc = "sections" /\ i \in DOMAIN module.secs
NextItem == i' = i + 1 /\ UNCHANGED << pc, input, module, current, loaded >>

Unnamed(s) == "NONAME" \in s.flags

(* Variant: the size of the last module, not the sum. *)
SectionPredefined_Assigns ==
    /\ AtSection /\ Sec.number \in Predefined
    /\ sections' = [sections EXCEPT ![Sec.number].size = Sec.size]
    /\ NextItem
    /\ UNCHANGED << remap_section, local_symbols, section_map, symbols,
                    symbol_map, undefined_symbols, errors, local_undefined >>

(* page0 and udata only exist as a size. *)
SectionPredefined ==
    /\ AtSection /\ Sec.number \in Predefined
    /\ sections' = [sections EXCEPT ![Sec.number].size = @ + Sec.size]
    /\ NextItem
    /\ UNCHANGED << remap_section, local_symbols, section_map, symbols,
                    symbol_map, undefined_symbols, errors, local_undefined >>

(* A section seen for the first time. A symbol that exists already is left *)
(* alone ("duplicate label"), whatever it is.                              *)
SectionNew ==
    /\ AtSection /\ Sec.number \notin Predefined
    /\ Sec.name \notin DOMAIN section_map
    /\ LET v      == Len(sections) + 1
           newBeg == ~Unnamed(Sec) /\ BegName[Sec.name] \notin DOMAIN symbol_map
           begs   == IF newBeg
                     THEN Append(symbols, SectionStart(BegName[Sec.name], v))
                     ELSE symbols
           begMap == IF newBeg
                     THEN Bind(symbol_map, BegName[Sec.name], Len(begs))
                     ELSE symbol_map
           newEnd == ~Unnamed(Sec) /\ EndName[Sec.name] \notin DOMAIN begMap
           k      == Len(begs) + 1
       IN  /\ symbols' = IF newEnd
                         THEN Append(begs, UndefinedSymbol(EndName[Sec.name], k))
                         ELSE begs
           /\ symbol_map' = IF newEnd THEN Bind(begMap, EndName[Sec.name], k)
                                      ELSE begMap
           /\ sections' = Append(sections,
                  [name |-> Sec.name, flags |-> Sec.flags, size |-> Sec.size,
                   data |-> << >>, expressions |-> << >>,
                   end_symbol |-> IF newEnd THEN k ELSE 0])
           /\ section_map' = Bind(section_map, Sec.name, v)
           /\ remap_section' = Bind(remap_section, Sec.number, v)
    /\ NextItem
    /\ UNCHANGED << local_symbols, undefined_symbols, errors, local_undefined >>

SectionKnown ==
    /\ AtSection /\ Sec.number \notin Predefined
    /\ Sec.name \in DOMAIN section_map
    /\ LET v == section_map[Sec.name]
       IN  \/ /\ sections[v].flags = Sec.flags
              /\ sections' = [sections EXCEPT ![v].size = @ + Sec.size]
              /\ remap_section' = Bind(remap_section, Sec.number, v)
              /\ NextItem
              /\ UNCHANGED << local_symbols, section_map, symbols, symbol_map,
                              undefined_symbols, errors, local_undefined >>
           \/ sections[v].flags # Sec.flags /\ Abort

SectionsDone ==
    /\ pc = "sections" /\ i \notin DOMAIN module.secs
    /\ pc' = "symbols" /\ i' = 1
    /\ UNCHANGED << input, frame, globals, errors, local_undefined >>

-----------------------------------------------------------------------------
(* one_module(), the loop over the symbols. *)

Sy == module.syms[i]
AtSymbol == pc = "symbols" /\ i \in DOMAIN module.syms
NextSymbol(s) ==
    /\ local_symbols' = Append(local_symbols, s)
    /\ NextItem
    /\ UNCHANGED << remap_section, sections, section_map >>

(* Variant: nothing is collected. *)
NoteUndefined_Never(s) == UNCHANGED local_undefined

(* one_lib() passes the set to collect the names in, one_file() does not.  *)
NoteUndefined(s) ==
    local_undefined' = IF l # 0 /\ s.type = "UND"
                       THEN local_undefined \cup {s.name} ELSE local_undefined

(* Variant: a new name is not listed as undefined. *)
ReferenceNew_Unlisted ==
    /\ AtSymbol /\ Sy.type = "UND" /\ Sy.name \notin DOMAIN symbol_map
    /\ LET s == [Sy EXCEPT !.section = Len(symbols) + 1]
       IN  /\ symbols' = Append(symbols, s)
           /\ symbol_map' = Bind(symbol_map, s.name, s.section)
           /\ NoteUndefined(s) /\ NextSymbol(s)
    /\ UNCHANGED << undefined_symbols, errors >>

ReferenceNew ==
    /\ AtSymbol /\ Sy.type = "UND" /\ Sy.name \notin DOMAIN symbol_map
    /\ LET s == [Sy EXCEPT !.section = Len(symbols) + 1]
       IN  /\ symbols' = Append(symbols, s)
           /\ symbol_map' = Bind(symbol_map, s.name, s.section)
           /\ undefined_symbols' = undefined_symbols \cup {s.name}
           /\ NoteUndefined(s) /\ NextSymbol(s)
    /\ UNCHANGED errors

ReferenceKnown ==
    /\ AtSymbol /\ Sy.type = "UND" /\ Sy.name \in DOMAIN symbol_map
    /\ LET s == symbols[symbol_map[Sy.name]]
       IN  NoteUndefined(s) /\ NextSymbol(s)
    /\ UNCHANGED << symbols, symbol_map, undefined_symbols, errors >>

(* Variant: the declared size, which counts this module already. *)
Base_Size(v) == sections[v].size

(* Where the module's part of section v begins: at what is there now.      *)
Base(v) == Len(sections[v].data)

(* The symbol as the linker keeps it: relative to the merged section.      *)
Relocated(s) ==
    IF s.type = "REL"
    THEN LET v == remap_section[s.section]
         IN  [s EXCEPT !.section = v, !.offset = @ + Base(v)]
    ELSE [s EXCEPT !.section = 0]

AtDefinition == AtSymbol /\ Sy.type # "UND"
Relocatable  == Sy.type = "REL" => Sy.section \in DOMAIN remap_section

DefineUnmapped ==
    AtDefinition /\ ~Relocatable /\ Abort

DefineLocal ==
    /\ AtDefinition /\ Relocatable /\ Sy.flags # Global
    /\ NextSymbol(Relocated(Sy))
    /\ UNCHANGED << symbols, symbol_map, undefined_symbols, errors,
                    local_undefined >>

DefineNew ==
    /\ AtDefinition /\ Relocatable /\ Sy.flags = Global
    /\ Sy.name \notin DOMAIN symbol_map
    /\ symbols' = Append(symbols, Relocated(Sy))
    /\ symbol_map' = Bind(symbol_map, Sy.name, Len(symbols) + 1)
    /\ NextSymbol(Relocated(Sy))
    /\ UNCHANGED << undefined_symbols, errors, local_undefined >>

(* Variants: the name stays on the list; any definition replaces the last; *)
(* the definition gets a number of its own.                                *)
DefineReferenced_NotErased ==
    /\ AtDefinition /\ Relocatable /\ Sy.flags = Global
    /\ Sy.name \in DOMAIN symbol_map
    /\ LET k == symbol_map[Sy.name]
       IN  /\ symbols[k].type = "UND"
           /\ symbols' = [symbols EXCEPT ![k] = Relocated(Sy)]
    /\ NextSymbol(Relocated(Sy))
    /\ UNCHANGED << symbol_map, undefined_symbols, errors, local_undefined >>

DefineReferenced_LastWins ==
    /\ AtDefinition /\ Relocatable /\ Sy.flags = Global
    /\ Sy.name \in DOMAIN symbol_map
    /\ symbols' = [symbols EXCEPT ![symbol_map[Sy.name]] = Relocated(Sy)]
    /\ undefined_symbols' = undefined_symbols \ {Sy.name}
    /\ NextSymbol(Relocated(Sy))
    /\ UNCHANGED << symbol_map, errors, local_undefined >>

DefineReferenced_Appends ==
    /\ AtDefinition /\ Relocatable /\ Sy.flags = Global
    /\ Sy.name \in DOMAIN symbol_map
    /\ symbols[symbol_map[Sy.name]].type = "UND"
    /\ symbols' = Append(symbols, Relocated(Sy))
    /\ symbol_map' = Bind(symbol_map, Sy.name, Len(symbols) + 1)
    /\ undefined_symbols' = undefined_symbols \ {Sy.name}
    /\ NextSymbol(Relocated(Sy))
    /\ UNCHANGED << errors, local_undefined >>

DefineReferenced ==
    /\ AtDefinition /\ Relocatable /\ Sy.flags = Global
    /\ Sy.name \in DOMAIN symbol_map
    /\ LET k == symbol_map[Sy.name]
       IN  /\ symbols[k].type = "UND"
           /\ symbols' = [symbols EXCEPT ![k] = Relocated(Sy)]
    /\ undefined_symbols' = undefined_symbols \ {Sy.name}
    /\ NextSymbol(Relocated(Sy))
    /\ UNCHANGED << symbol_map, errors, local_undefined >>

(* Variant: a duplicate is told by its type alone. *)
DefineAgain_TypeOnly ==
    /\ AtDefinition /\ Relocatable /\ Sy.flags = Global
    /\ Sy.name \in DOMAIN symbol_map
    /\ LET old == symbols[symbol_map[Sy.name]]
       IN  /\ old.type # "UND"
           /\ errors' = IF old.type # Sy.type THEN errors + 1 ELSE errors
    /\ NextSymbol(Relocated(Sy))
    /\ UNCHANGED << symbols, symbol_map, undefined_symbols, local_undefined >>

(* "Duplicate label": the first definition stays. *)
DefineAgain ==
    /\ AtDefinition /\ Relocatable /\ Sy.flags = Global
    /\ Sy.name \in DOMAIN symbol_map
    /\ LET old == symbols[symbol_map[Sy.name]]
       IN  /\ old.type # "UND"
           /\ errors' = IF old # Relocated(Sy) THEN errors + 1 ELSE errors
    /\ NextSymbol(Relocated(Sy))
    /\ UNCHANGED << symbols, symbol_map, undefined_symbols, local_undefined >>

SymbolsDone ==
    /\ pc = "symbols" /\ i \notin DOMAIN module.syms
    /\ pc' = "records" /\ i' = 1
    /\ UNCHANGED << input, frame, globals, errors, local_undefined >>

-----------------------------------------------------------------------------
(* one_module(), the loop over the records. *)

Rec == module.recs[i]
AtRecord(ops) == pc = "records" /\ i \in DOMAIN module.recs /\ Rec.op \in ops
current_section == remap_section[current]

(* The next n bytes of the module's current section. *)
Bytes(n) ==
    LET data == sections[current_section].data
        read == Cardinality({k \in DOMAIN data :
                    data[k].by = Len(loaded) /\ data[k].section = current})
    IN  [k \in 1 .. n |-> [by |-> Len(loaded), section |-> current,
                           at |-> read + k - 1]]

NextRecord ==
    /\ NextItem
    /\ UNCHANGED << remap_section, local_symbols, section_map, symbols,
                    symbol_map, undefined_symbols, local_undefined >>

RecordData ==
    /\ AtRecord({"DATA", "SPACE"})
    /\ sections' = [sections EXCEPT ![current_section].data = @ \o Bytes(Rec.n)]
    /\ NextRecord
    /\ UNCHANGED errors

(* The assertion refuses an unknown section, and page0. *)
RecordSection ==
    /\ AtRecord({"SECT"})
    /\ \/ /\ Rec.n \in DOMAIN remap_section /\ remap_section[Rec.n] > PAGE0
          /\ current' = Rec.n /\ i' = i + 1
          /\ UNCHANGED << pc, input, module, remap_section, local_symbols, loaded,
                          globals, errors, local_undefined >>
       \/ /\ Rec.n \in DOMAIN remap_section => remap_section[Rec.n] <= PAGE0
          /\ Abort

RecordOrg == AtRecord({"ORG"}) /\ Abort

RecordSkipped == AtRecord({"DEBUG"}) /\ NextRecord /\ UNCHANGED << sections, errors >>

(* Variant: the number that the symbol has in its module. *)
Converted_LocalNumber(t) ==
    LET s == local_symbols[t.section]
    IN  CASE t.tag = "SYM" /\ s.type = "UND" -> Sym(t.section)
          [] t.tag = "SYM" /\ s.type = "REL" -> Loc(s.section, s.offset)
          [] t.tag = "SYM" /\ s.type = "ABS" -> Val(s.offset)
          [] t.tag = "LOC" -> Loc(remap_section[t.section], t.value)
          [] OTHER -> t

(* The operand t of an expression of the module, as the linker keeps it. A *)
(* symbol that is still undefined stays a symbol, by its global number.    *)
Converted(t) ==
    LET s == local_symbols[t.section]
    IN  CASE t.tag = "SYM" /\ s.type = "UND" -> Sym(s.section)
          [] t.tag = "SYM" /\ s.type = "REL" -> Loc(s.section, s.offset)
          [] t.tag = "SYM" /\ s.type = "ABS" -> Val(s.offset)
          [] t.tag = "LOC" -> Loc(remap_section[t.section], t.value)
          [] OTHER -> t

Convertible(t) == /\ t.tag = "SYM" => t.section \in DOMAIN local_symbols
                  /\ t.tag = "LOC" => t.section \in DOMAIN remap_section

With(stack, tags) == {k \in DOMAIN stack : stack[k].tag \in tags}
WellFormed(stack) ==
    Cardinality(With(stack, Operands)) - Cardinality(With(stack, BinaryOps)) = 1

(* Variant: the offset after the reserved bytes. *)
NewExpression_After(r) ==
    LET stack == [k \in DOMAIN r.stack |-> Converted(r.stack[k])]
    IN  [section |-> current_section, offset |-> Base(current_section) + r.n,
         size |-> r.n, relative |-> r.op = "RELEXP", stack |-> stack,
         undefined |-> With(stack, {"SYM"}) # {},
         by |-> Len(loaded), source |-> r.stack]

(* An EXPR or RELEXP record: `by' and `source' say where it was read.      *)
NewExpression(r) ==
    LET stack == [k \in DOMAIN r.stack |-> Converted(r.stack[k])]
    IN  [section |-> current_section, offset |-> Base(current_section),
         size |-> r.n, relative |-> r.op = "RELEXP", stack |-> stack,
         undefined |-> With(stack, {"SYM"}) # {},
         by |-> Len(loaded), source |-> r.stack]

RecordExpression ==
    /\ AtRecord({"EXPR", "RELEXP"})
    /\ \/ /\ \A k \in DOMAIN Rec.stack : Convertible(Rec.stack[k])
          /\ sections' = [sections EXCEPT
                 ![current_section].data = @ \o Bytes(Rec.n),
                 ![current_section].expressions = Append(@, NewExpression(Rec))]
          /\ errors' = IF WellFormed(Rec.stack) THEN errors ELSE errors + 1
          /\ NextRecord
       \/ (\E k \in DOMAIN Rec.stack : ~Convertible(Rec.stack[k])) /\ Abort

(* REC_END: back to one_file() or one_lib(). *)
RecordsDone ==
    /\ pc = "records" /\ i \notin DOMAIN module.recs
    /\ pc' = IF l = 0 THEN "module" ELSE "round"
    /\ UNCHANGED << input, frame, globals, i, errors, local_undefined >>

-----------------------------------------------------------------------------
(* main() and one_file(): the files given by position. *)

Files == cmd.objs
AtFile == pc = "file" /\ file \in DOMAIN Files

FileRefused ==
    /\ AtFile /\ Files[file].kind \in {"missing", "invalid"}
    /\ errors' = errors + 1 /\ file' = file + 1
    /\ UNCHANGED << cmd, pc, modno, l, L, modules, frame, globals, i,
                    local_undefined >>

(* A library is noticed and then ignored. *)
FileIsLibrary ==
    /\ AtFile /\ Files[file].kind = "library"
    /\ file' = file + 1
    /\ UNCHANGED << cmd, pc, modno, l, L, modules, frame, globals, i,
                    local_undefined, errors >>

FileOpened ==
    /\ AtFile /\ Files[file].kind = "object"
    /\ modno' = 1 /\ pc' = "module"
    /\ UNCHANGED << cmd, file, l, L, modules, frame, globals, i,
                    local_undefined, errors >>

HasModule == modno \in DOMAIN Files[file].mods /\ Files[file].mods[modno].intact

FileModule ==
    /\ pc = "module" /\ HasModule
    /\ Enter(Files[file].mods[modno])
    /\ modno' = modno + 1
    /\ UNCHANGED << cmd, file, l, L, modules, globals, local_undefined, errors >>

(* The end of the file and a truncated module are not told apart. *)
FileDone ==
    /\ pc = "module" /\ ~HasModule
    /\ file' = file + 1 /\ pc' = "file"
    /\ UNCHANGED << cmd, modno, l, L, modules, frame, globals, i,
                    local_undefined, errors >>

FilesDone ==
    /\ pc = "file" /\ file \notin DOMAIN Files
    /\ \/ undefined_symbols = {} /\ pc' = "generate_end" /\ UNCHANGED << l, L >>
       \/ undefined_symbols # {} /\ pc' = "library" /\ l' = 1 /\ L' = 1
    /\ UNCHANGED << cmd, file, modno, modules, frame, globals, i,
                    local_undefined, errors >>

-----------------------------------------------------------------------------
(* libraries() and one_lib(): the -l options, each looked for in the -L    *)
(* directories in turn.                                                    *)

Lib == cmd.libs[l][L]
AtLibrary == pc = "library" /\ l \in DOMAIN cmd.libs

intersection(dict, names) == {dict[n] : n \in names \cap DOMAIN dict}

(* The next -l option, or the end of libraries() when nothing is missing.  *)
NextLibrary ==
    /\ L' = 1
    /\ \/ undefined_symbols # {} /\ l' = l + 1 /\ pc' = "library"
       \/ undefined_symbols = {} /\ pc' = "resolved" /\ UNCHANGED l

(* Variant: the same directory is tried again. *)
LibraryMissing_Again ==
    /\ AtLibrary /\ L \in DOMAIN cmd.libs[l] /\ Lib.kind # "library"
    /\ UNCHANGED << cmd, pc, file, modno, l, L, modules, frame, globals, i,
                    local_undefined, errors >>

LibraryMissing ==
    /\ AtLibrary /\ L \in DOMAIN cmd.libs[l] /\ Lib.kind # "library"
    /\ L' = L + 1
    /\ UNCHANGED << cmd, pc, file, modno, l, modules, frame, globals, i,
                    local_undefined, errors >>

LibraryNowhere ==
    /\ AtLibrary /\ L \notin DOMAIN cmd.libs[l]
    /\ NextLibrary
    /\ UNCHANGED << cmd, file, modno, modules, frame, globals, i,
                    local_undefined, errors >>

LibraryOpened ==
    /\ AtLibrary /\ L \in DOMAIN cmd.libs[l] /\ Lib.kind = "library"
    /\ LET wanted == intersection(Lib.dict, undefined_symbols)
       IN  \/ /\ wanted = {} /\ NextLibrary /\ UNCHANGED << modules, local_undefined >>
           \/ /\ wanted # {}
              /\ modules' = [m \in wanted |-> "pending"] /\ local_undefined' = {}
              /\ pc' = "round" /\ UNCHANGED << l, L >>
    /\ UNCHANGED << cmd, file, modno, frame, globals, i, errors >>

Pending == {m \in DOMAIN modules : modules[m] = "pending"}

(* The modules of a round, in the order of their offsets. one_module()     *)
(* reads the header; a module it cannot read is as good as processed.      *)
LibraryModule ==
    /\ pc = "round" /\ Pending # {}
    /\ \E m \in Pending :
        /\ \A k \in Pending : m <= k
        /\ modules' = [modules EXCEPT ![m] = "processed"]
        /\ \/ Lib.mods[m].intact /\ Enter(Lib.mods[m])
           \/ ~Lib.mods[m].intact /\ UNCHANGED << frame, pc, i >>
    /\ UNCHANGED << cmd, file, modno, l, L, globals, local_undefined, errors >>

(* Variant: a module that was read is read again when it is asked for. *)
LibraryRound_Overwrites ==
    /\ pc = "round" /\ Pending = {}
    /\ LET more == intersection(Lib.dict, local_undefined)
       IN  \/ /\ more # {}
              /\ modules' = [m \in DOMAIN modules \cup more |->
                                IF m \in more THEN "pending" ELSE modules[m]]
              /\ local_undefined' = {} /\ UNCHANGED << pc, l, L >>
           \/ /\ more = {}
              /\ NextLibrary /\ UNCHANGED << modules, local_undefined >>
    /\ UNCHANGED << cmd, file, modno, frame, globals, i, errors >>

(* The end of a round: the names its modules left undefined may ask for    *)
(* modules that no round has read.                                         *)
LibraryRound ==
    /\ pc = "round" /\ Pending = {}
    /\ LET more == intersection(Lib.dict, local_undefined) \ DOMAIN modules
       IN  \/ /\ more # {}
              /\ modules' = [m \in DOMAIN modules \cup more |->
                                IF m \in more THEN "pending" ELSE modules[m]]
              /\ local_undefined' = {} /\ UNCHANGED << pc, l, L >>
           \/ /\ more = {}
              /\ NextLibrary /\ UNCHANGED << modules, local_undefined >>
    /\ UNCHANGED << cmd, file, modno, frame, globals, i, errors >>

LibrariesDone ==
    /\ pc = "library" /\ l \notin DOMAIN cmd.libs
    /\ pc' = "resolved"
    /\ UNCHANGED << input, frame, globals, i, local_undefined, errors >>

(* Variant: a warning only. *)
CheckUndefined_Warns ==
    /\ pc = "resolved" /\ pc' = "generate_end"
    /\ UNCHANGED << input, frame, globals, i, local_undefined, errors >>

(* main(): "Unable to resolve the following symbols". *)
CheckUndefined ==
    /\ pc = "resolved"
    /\ pc' = IF undefined_symbols # {} THEN "unresolved" ELSE "generate_end"
    /\ UNCHANGED << input, frame, globals, i, local_undefined, errors >>

-----------------------------------------------------------------------------
(* generate_end(): the _END_ symbols get the size of their sections. (The  *)
(* first half of its loop, a symbol with the name of a section, concerns   *)
(* undefined symbols: main() has given up on those.)                       *)

Defined(name, v, offset) ==
    [name |-> name, type |-> "REL", flags |-> Global, offset |-> offset,
     section |-> v]

EndOf(k)      == {v \in DOMAIN sections : sections[v].end_symbol = k}
NamedAfter(s) == {v \in DOMAIN sections : ~Unnamed(sections[v])
                                          /\ sections[v].name = s.name
                                          /\ s.type = "UND"}

(* Variant: the symbols of the sections are left as they are. *)
AfterEnd_Skipped(k) == symbols[k]

AfterEnd(k) ==
    LET s == symbols[k]
    IN  IF EndOf(k) # {} THEN LET v == CHOOSE v \in EndOf(k) : TRUE
                              IN  Defined(s.name, v, sections[v].size)
        ELSE IF NamedAfter(s) # {}
             THEN Defined(s.name, CHOOSE v \in NamedAfter(s) : TRUE, 0)
             ELSE s

generate_end ==
    /\ pc = "generate_end" /\ pc' = "simplify"
    /\ symbols' = [k \in DOMAIN symbols |-> AfterEnd(k)]
    /\ undefined_symbols' = undefined_symbols \
           {symbols[k].name : k \in {j \in DOMAIN symbols : NamedAfter(symbols[j]) # {}}}
    /\ UNCHANGED << input, frame, i, local_undefined, sections, section_map,
                    symbol_map, errors >>

-----------------------------------------------------------------------------
(* simplify(): symbols become locations or constants, then every           *)
(* expression is folded.                                                   *)

Replaced(t) ==
    LET s == symbols[t.section]
    IN  CASE t.tag = "SYM" /\ s.type = "REL" -> Loc(s.section, s.offset)
          [] t.tag = "SYM" /\ s.type = "ABS" -> Val(s.offset)
          [] OTHER -> t

Resolved(e) ==
    IF ~e.undefined THEN e ELSE
    LET stack == [k \in DOMAIN e.stack |-> Replaced(e.stack[k])]
    IN  [e EXCEPT !.stack = stack, !.undefined = With(stack, {"SYM"}) # {}]

Folded(stack) == IF Len(stack) > 1 THEN simplify_expression(stack)
                                   ELSE Step(stack, FALSE)

Simplified(e) == [Resolved(e) EXCEPT !.stack = Folded(@).v]

simplify ==
    /\ pc = "simplify"
    /\ \/ /\ \A v \in DOMAIN sections : \A j \in DOMAIN sections[v].expressions :
                 Folded(Resolved(sections[v].expressions[j]).stack).ok
          /\ sections' = [v \in DOMAIN sections |->
                 [sections[v] EXCEPT !.expressions =
                     [j \in DOMAIN @ |-> Simplified(@[j])]]]
          /\ pc' = "linked"
          /\ UNCHANGED << input, frame, i, local_undefined, section_map, symbols,
                          symbol_map, undefined_symbols, errors >>
       \/ /\ \E v \in DOMAIN sections : \E j \in DOMAIN sections[v].expressions :
                 ~Folded(Resolved(sections[v].expressions[j]).stack).ok
          /\ Abort

-----------------------------------------------------------------------------
OneSection == SectionPredefined \/ SectionNew \/ SectionKnown \/ SectionsDone
OneSymbol  == \/ ReferenceNew \/ ReferenceKnown \/ DefineUnmapped \/ DefineLocal
              \/ DefineNew \/ DefineReferenced \/ DefineAgain \/ SymbolsDone
OneRecord  == \/ RecordData \/ RecordSection \/ RecordOrg \/ RecordSkipped
              \/ RecordExpression \/ RecordsDone
OneFile    == \/ FileRefused \/ FileIsLibrary \/ FileOpened \/ FileModule
              \/ FileDone \/ FilesDone
OneLibrary == \/ LibraryMissing \/ LibraryNowhere \/ LibraryOpened
              \/ LibraryModule \/ LibraryRound \/ LibrariesDone
Finish     == CheckUndefined \/ generate_end \/ simplify
Ended      == pc \in Final /\ UNCHANGED vars

Next == OneSection \/ OneSymbol \/ OneRecord \/ OneFile \/ OneLibrary \/ Finish \/ Ended

(* The linker is one thread that never waits. *)
Spec == Init /\ [][Next]_vars /\ WF_vars(Next)
=============================================================================
