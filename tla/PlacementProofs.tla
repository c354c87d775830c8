-------------------------- MODULE PlacementProofs --------------------------
(***************************************************************************)
(* Proofs about what the linker puts into the sections: the operands of    *)
(* the expressions, the bytes they patch, and the places they refer to.    *)
(***************************************************************************)
EXTENDS HistoryProofs, ExpressionProofs

-----------------------------------------------------------------------------
(* How the sections change. *)

(* How the linker ends. *)
LEMMA Endings ==
    ASSUME TypeInv, [Next]_vars
    PROVE  /\ pc \in Final => UNCHANGED vars
           /\ pc' = "aborted" => Abort \/ UNCHANGED vars
           /\ pc' = "linked" => simplify \/ UNCHANGED vars
<1>1. pc \in Final => UNCHANGED vars
    BY PhaseOf DEF Next, Final, Ended
<1>2. ASSUME OneSection \/ OneRecord
      PROVE  pc' # "linked" /\ (pc' = "aborted" => Abort)
    <2>1. pc \in {"sections", "records"}
        BY <1>2, PhaseOf
    <2> QED
        BY <1>2, <2>1 DEF OneSection, SectionPredefined, SectionNew, SectionKnown,
               SectionsDone, OneRecord, RecordData, RecordSection, RecordOrg,
               RecordSkipped, RecordExpression, RecordsDone, NextRecord, NextItem, Abort
<1>3. ASSUME OneSymbol PROVE pc' # "linked" /\ (pc' = "aborted" => Abort)
    BY <1>3, SymbolCases, PhaseOf DEF SymbolsDone, NextItem, Abort
<1>4. ASSUME OneFile PROVE pc' \notin Final
    BY <1>4, PhaseOf DEF OneFile, FileRefused, FileIsLibrary, FileOpened, FileModule,
                FileDone, FilesDone, Enter, Final
<1>5. ASSUME OneLibrary PROVE pc' \notin Final
    BY <1>5, PhaseOf DEF OneLibrary, LibraryMissing, LibraryNowhere, LibraryOpened,
                LibraryModule, LibraryRound, LibrariesDone, NextLibrary, Enter, Final
<1>6. ASSUME CheckUndefined \/ generate_end
      PROVE  pc' \notin {"linked", "aborted"}
    BY <1>6 DEF CheckUndefined, generate_end
<1>7. ASSUME simplify PROVE pc' = "aborted" => Abort
    BY <1>7 DEF simplify
<1> QED
    BY <1>1, <1>2, <1>3, <1>4, <1>5, <1>6, <1>7 DEF Next, Finish, Ended, Final

Same(v) == /\ v \in DOMAIN sections'
           /\ sections'[v].data = sections[v].data
           /\ sections'[v].expressions = sections[v].expressions

Fresh(v) == sections'[v].data = << >> /\ sections'[v].expressions = << >>

(* Only the records of a module and simplify() touch what a section holds. *)
LEMMA SectionsKeep ==
    ASSUME TypeInv, [Next]_vars, ~RecordData, ~RecordExpression, pc' # "linked"
    PROVE  /\ \A v \in DOMAIN sections : Same(v)
           /\ \A v \in DOMAIN sections' : v \in DOMAIN sections \/ Fresh(v)
<1>1. ASSUME UNCHANGED sections
      PROVE  /\ \A v \in DOMAIN sections : Same(v)
             /\ \A v \in DOMAIN sections' : v \in DOMAIN sections \/ Fresh(v)
    BY <1>1 DEF Same
<1>2. CASE OneSection
    <2>0. sections \in Seq(Section) /\ Tables /\ (AtSection => Sec \in LocalSection)
        BY <1>2, PhaseOf, TablesTyped, ItemTypes DEF Final, Tables, TypeInv
    <2>1. CASE SectionPredefined
        BY <2>0, <2>1 DEF SectionPredefined, Same, Section
    <2>2. CASE SectionNew
        <3>1. PICK s : /\ sections' = Append(sections, s)
                       /\ s.data = << >> /\ s.expressions = << >>
            BY <2>2 DEF SectionNew
        <3>2. /\ \A v \in DOMAIN sections : v \in DOMAIN sections' /\ sections'[v] = sections[v]
              /\ \A v \in DOMAIN sections' : v \in DOMAIN sections \/ sections'[v] = s
            BY <2>0, <3>1
        <3> QED
            BY <3>1, <3>2 DEF Same, Fresh
    <2>3. CASE SectionKnown
        <3>1. CASE Abort
            BY <1>1, <3>1 DEF Abort, globals
        <3>2. CASE ~Abort
            <4>1. PICK v : sections' = [sections EXCEPT ![v].size = @ + Sec.size]
                BY <2>3, <3>2 DEF SectionKnown
            <4> QED
                BY <2>0, <4>1 DEF Same, Section
        <3> QED
            BY <3>1, <3>2
    <2>4. CASE SectionsDone
        BY <1>1, <2>4 DEF SectionsDone, globals
    <2> QED
        BY <1>2, <2>1, <2>2, <2>3, <2>4 DEF OneSection
<1>3. CASE OneSymbol
    BY <1>1, <1>3, SymbolCases DEF Abort, SymbolsDone, globals
<1>4. CASE OneRecord
    BY <1>1, <1>4 DEF OneRecord, RecordSection, RecordOrg, RecordSkipped, RecordsDone,
                      Abort, globals
<1>5. CASE OneFile
    BY <1>1, <1>5 DEF OneFile, FileRefused, FileIsLibrary, FileOpened, FileModule,
                      FileDone, FilesDone, globals
<1>6. CASE OneLibrary
    BY <1>1, <1>6 DEF OneLibrary, LibraryMissing, LibraryNowhere, LibraryOpened,
                      LibraryModule, LibraryRound, LibrariesDone, globals
<1>7. CASE Finish
    BY <1>1, <1>7 DEF Finish, CheckUndefined, generate_end, simplify, Abort, globals
<1> QED
    BY <1>1, <1>2, <1>3, <1>4, <1>5, <1>6, <1>7 DEF Next, Ended, vars

Adding == RecordData \/ RecordExpression

LEMMA RecordsAdd ==
    ASSUME TypeInv, Adding, pc' # "aborted"
    PROVE  /\ pc = "records" /\ pc' = "records" /\ UNCHANGED << loaded, module, local_symbols,
                     remap_section, current, symbols, symbol_map, undefined_symbols >>
           /\ Rec \in Record /\ sections \in Seq(Section) /\ sections' \in Seq(Section)
           /\ current_section \in DOMAIN sections /\ DOMAIN sections' = DOMAIN sections
           /\ \A v \in DOMAIN sections : v # current_section => Same(v)
           /\ sections'[current_section].data = sections[current_section].data \o Bytes(Rec.n)
           /\ RecordData => sections'[current_section].expressions
                                = sections[current_section].expressions
           /\ RecordExpression =>
                  /\ \A k \in DOMAIN Rec.stack : Convertible(Rec.stack[k])
                  /\ NewExpression(Rec) \in Expression
                  /\ sections'[current_section].expressions
                         = Append(sections[current_section].expressions, NewExpression(Rec))
<1>1. /\ pc = "records" /\ pc' = "records" /\ UNCHANGED << loaded, module, local_symbols,
                     remap_section, current, symbols, symbol_map, undefined_symbols >>
      /\ i \in DOMAIN module.recs
    BY DEF Adding, RecordData, RecordExpression, NextRecord, NextItem, AtRecord, Abort
<1>2. Rec \in Record /\ sections \in Seq(Section) /\ current_section \in DOMAIN sections
    BY <1>1, ItemTypes DEF TypeInv, TypeOK, current_section
<1>3. sections' \in Seq(Section)
    <2>1. [Next]_vars
        BY DEF Next, OneRecord, Adding
    <2> QED
        BY <1>1, <2>1, NextTypes DEF TypeInv, TypeOK
<1>4. CASE RecordData
    <2>1. sections' = [sections EXCEPT ![current_section].data = @ \o Bytes(Rec.n)]
        BY <1>4 DEF RecordData
    <2>2. ~RecordExpression
        BY <1>4 DEF RecordData, RecordExpression, AtRecord
    <2>3. DOMAIN sections' = DOMAIN sections /\ sections[current_section] \in Section
        BY <1>2, <2>1
    <2>4. \A v \in DOMAIN sections : v # current_section => sections'[v] = sections[v]
        BY <1>2, <2>1
    <2>5. sections'[current_section] = [sections[current_section] EXCEPT !.data = @ \o Bytes(Rec.n)]
        BY <1>2, <2>1
    <2>6. /\ sections'[current_section].data = sections[current_section].data \o Bytes(Rec.n)
          /\ sections'[current_section].expressions = sections[current_section].expressions
        BY <2>3, <2>5 DEF Section
    <2> QED
        BY <1>1, <1>2, <1>3, <1>4, <2>2, <2>3, <2>4, <2>6 DEF Same
<1>5. CASE RecordExpression
    <2>1. /\ \A k \in DOMAIN Rec.stack : Convertible(Rec.stack[k])
          /\ sections' = [sections EXCEPT
                 ![current_section].data = @ \o Bytes(Rec.n),
                 ![current_section].expressions = Append(@, NewExpression(Rec))]
          /\ AtRecord({"EXPR", "RELEXP"})
        BY <1>5 DEF RecordExpression, Abort
    <2>2. NewExpression(Rec) \in Expression
        BY <2>1, NewExpressionType DEF TypeInv
    <2>3. ~RecordData
        BY <1>5 DEF RecordData, RecordExpression, AtRecord
    <2>4. DOMAIN sections' = DOMAIN sections /\ sections[current_section] \in Section
        BY <1>2, <2>1
    <2>5. \A v \in DOMAIN sections : v # current_section => sections'[v] = sections[v]
        BY <1>2, <2>1
    <2>6. sections'[current_section] =
              [sections[current_section] EXCEPT !.data = @ \o Bytes(Rec.n),
                                                !.expressions = Append(@, NewExpression(Rec))]
        BY <1>2, <2>1
    <2>7. /\ sections'[current_section].data = sections[current_section].data \o Bytes(Rec.n)
          /\ sections'[current_section].expressions
                 = Append(sections[current_section].expressions, NewExpression(Rec))
        BY <2>4, <2>6 DEF Section
    <2> QED
        BY <1>1, <1>2, <1>3, <1>5, <2>1, <2>2, <2>3, <2>4, <2>5, <2>7 DEF Same
<1> QED
    BY <1>4, <1>5 DEF Adding

-----------------------------------------------------------------------------
(* The symbols of the module that is read, as local_symbols has them: its  *)
(* symbol number j, by the number that its name has in the table while it  *)
(* is undefined.                                                           *)
Stands(s, name) ==
    /\ s.name = name
    /\ s.type = "UND" => /\ s.section \in DOMAIN symbols
                         /\ symbols[s.section].name = name

LocalsInv ==
    /\ pc = "sections" => local_symbols = << >>
    /\ pc = "symbols" => Len(local_symbols) = i - 1 /\ i - 1 <= Len(module.syms)
    /\ pc = "records" => Len(local_symbols) = Len(module.syms)
    /\ pc \in {"symbols", "records"} =>
           \A j \in DOMAIN local_symbols : Stands(local_symbols[j], module.syms[j].name)

LEMMA SymbolStands ==
    ASSUME TypeInv, TableInv, NEW s, NEW name, Stands(s, name), [Next]_vars
    PROVE  Stands(s, name)'
BY SymbolsStay DEF Stands, SymbolStays

(* A turn of the loop over the symbols adds the symbol it is at.           *)
LEMMA LocalAdded ==
    ASSUME TypeInv, TableInv, OneSymbol, NextSymbolSeen, NEW name, name = Sy.name
    PROVE  \E s : local_symbols' = Append(local_symbols, s) /\ s \in Symbol /\ Stands(s, name)'
<1>1. pc = "symbols" /\ AtSymbol /\ Sy \in Symbol /\ Tables
    BY SymbolTyped, PhaseOf DEF NextSymbolSeen
<1>2. ~Abort /\ ~SymbolsDone
    <2>1. i + 1 # i
        BY DEF TypeInv, TypeOK
    <2> QED
        BY <2>1 DEF NextSymbolSeen, AtSymbol, Abort, SymbolsDone
<1>3. CASE ReferenceNew
    <2> DEFINE n == Len(symbols) + 1
               s == [Sy EXCEPT !.section = n]
    <2>1. symbols' = Append(symbols, s) /\ local_symbols' = Append(local_symbols, s)
        BY <1>3 DEF ReferenceNew, NextSymbol
    <2>2. n \in Nat /\ symbols \in Seq(Symbol)
        BY <1>1 DEF Tables
    <2> HIDE DEF n
    <2>3. s \in Symbol /\ s.name = Sy.name /\ s.section = n
        BY <1>1, <2>2 DEF Symbol
    <2> HIDE DEF s
    <2>4. n \in DOMAIN symbols' /\ symbols'[n] = s
        BY <2>1, <2>2 DEF n
    <2> QED
        BY <2>1, <2>3, <2>4 DEF Stands
<1>4. CASE ReferenceKnown
    <2> DEFINE k == symbol_map[Sy.name]
               s == symbols[k]
    <2>1. /\ local_symbols' = Append(local_symbols, s) /\ UNCHANGED symbols
          /\ Sy.name \in DOMAIN symbol_map
        BY <1>4 DEF ReferenceKnown, NextSymbol
    <2>2. /\ k \in DOMAIN symbols /\ s.name = Sy.name
          /\ s.type = "UND" => s.section = k
        BY <2>1 DEF TableInv, Table
    <2>3. s \in Symbol
        BY <1>1, <2>2 DEF Tables
    <2> QED
        BY <2>1, <2>2, <2>3 DEF Stands
<1>5. CASE DefineLocal \/ DefineNew \/ DefineReferenced \/ DefineAgain
    <2>1. /\ local_symbols' = Append(local_symbols, Relocated(Sy))
          /\ AtDefinition /\ Relocatable
        BY <1>5 DEF DefineLocal, DefineNew, DefineReferenced, DefineAgain, NextSymbol
    <2>2. /\ Relocated(Sy) \in Symbol /\ Relocated(Sy).name = Sy.name
          /\ Relocated(Sy).type # "UND"
        BY <2>1, DefinitionKept
    <2> QED
        BY <2>1, <2>2 DEF Stands
<1> QED
    BY <1>2, <1>3, <1>4, <1>5, SymbolCases

LEMMA NextLocals ==
    ASSUME TypeInv, TableInv, LocalsInv, [Next]_vars
    PROVE  LocalsInv'
<1>0. i \in Nat \ {0} /\ local_symbols \in Seq(Symbol) /\ module.syms \in Seq(Symbol)
    BY ModuleParts DEF TypeInv, TypeOK
<1>1. CASE OneSymbol /\ NextSymbolSeen
    <2> SUFFICES ASSUME NEW name, name = Sy.name PROVE LocalsInv'
        OBVIOUS
    <2>1. PICK s : /\ local_symbols' = Append(local_symbols, s) /\ s \in Symbol
                   /\ Stands(s, name)'
        BY <1>1, LocalAdded
    <2>2. /\ pc = "symbols" /\ i \in DOMAIN module.syms /\ i' = i + 1
          /\ pc' = "symbols" /\ UNCHANGED module
        <3>1. ~Abort /\ ~SymbolsDone
            BY <1>0, <1>1 DEF NextSymbolSeen, AtSymbol, Abort, SymbolsDone
        <3> QED
            BY <1>1, <3>1, SymbolCases DEF NextSymbolSeen, AtSymbol, NextItem
    <2>3. /\ Len(local_symbols) = i - 1 /\ Len(local_symbols') = i /\ i <= Len(module.syms)
          /\ DOMAIN local_symbols' = DOMAIN local_symbols \cup {i}
          /\ local_symbols'[i] = s
          /\ \A j \in DOMAIN local_symbols : local_symbols'[j] = local_symbols[j]
        BY <1>0, <2>1, <2>2 DEF LocalsInv
    <2>4. ASSUME NEW j \in DOMAIN local_symbols'
          PROVE  Stands(local_symbols[j], module.syms[j].name)'
        <3>1. CASE j \in DOMAIN local_symbols
            BY <2>2, <2>3, <3>1, SymbolsStay DEF LocalsInv, Stands, SymbolStays
        <3>2. CASE j \notin DOMAIN local_symbols
            BY <2>1, <2>2, <2>3, <3>2 DEF Stands, Sy
        <3> QED
            BY <3>1, <3>2
    <2> QED
        BY <1>0, <2>2, <2>3, <2>4 DEF LocalsInv
<1>2. CASE \E m : Enter(m)
    BY <1>2 DEF Enter, LocalsInv
<1>3. CASE SectionsDone \/ SymbolsDone
    <2>1. /\ UNCHANGED << local_symbols, module, symbols >>
          /\ \/ pc = "sections" /\ pc' = "symbols" /\ i' = 1
             \/ pc = "symbols" /\ pc' = "records" /\ i \notin DOMAIN module.syms
        BY <1>3 DEF SectionsDone, SymbolsDone, frame, globals
    <2>2. Len(<< >>) = 0 /\ 1 - 1 = 0 /\ 0 <= Len(module.syms) /\ DOMAIN << >> = {}
        BY <1>0
    <2>3. i \notin DOMAIN module.syms /\ i - 1 <= Len(module.syms) => i - 1 = Len(module.syms)
        BY <1>0
    <2> QED
        BY <2>1, <2>2, <2>3 DEF LocalsInv, Stands
<1>4. CASE ~NextSymbolSeen /\ ~(\E m : Enter(m)) /\ ~SectionsDone /\ ~SymbolsDone
    <2>1. CASE pc' \notin {"sections", "symbols", "records"}
        BY <2>1 DEF LocalsInv
    <2>2. CASE pc' \in {"sections", "symbols", "records"}
        <3>1. UNCHANGED << module, local_symbols, pc >> /\ (pc = "symbols" => UNCHANGED i)
            <4>1. CASE OneSection
                BY <1>4, <2>2, <4>1 DEF OneSection, SectionPredefined, SectionNew,
                       SectionKnown, AtSection, NextItem, Abort
            <4>2. CASE OneSymbol
                BY <1>4, <2>2, <4>2, SymbolCases DEF NextItem, NextSymbolSeen, Abort
            <4>3. CASE OneRecord
                BY <2>2, <4>3 DEF OneRecord, RecordData, RecordSection, RecordOrg,
                       RecordSkipped, RecordExpression, RecordsDone, AtRecord, NextRecord,
                       NextItem, Abort
            <4>4. CASE OneFile
                BY <1>4, <2>2, <4>4 DEF OneFile, FileRefused, FileIsLibrary, FileOpened,
                       FileModule, FileDone, FilesDone, AtFile
            <4>5. CASE OneLibrary
                BY <1>4, <2>2, <4>5 DEF OneLibrary, LibraryMissing, LibraryNowhere,
                       LibraryOpened, LibraryModule, LibraryRound, LibrariesDone,
                       NextLibrary, AtLibrary
            <4>6. CASE Finish
                BY <2>2, <4>6 DEF Finish, CheckUndefined, generate_end, simplify, Abort
            <4> QED
                BY <4>1, <4>2, <4>3, <4>4, <4>5, <4>6 DEF Next, Ended, vars
        <3> QED
            BY <2>2, <3>1, SymbolsStay DEF LocalsInv, Stands, SymbolStays
    <2> QED
        BY <2>1, <2>2
<1>5. NextSymbolSeen => OneSymbol
    BY <1>0, PhaseOf DEF Next, NextSymbolSeen, AtSymbol, Ended, vars, Final
<1> QED
    BY <1>1, <1>2, <1>3, <1>4, <1>5

LEMMA LocalsAlways == Spec => []LocalsInv
<1>1. Init => LocalsInv
    BY DEF Init, LocalsInv
<1> QED
    BY <1>1, NextLocals, InputStaysOpen, TableAlways, PTL DEF Spec

-----------------------------------------------------------------------------
(* The operands of the expressions. *)

(* What an expression e holds until simplify(): an operand for each of its *)
(* record, and the symbols among them as the module named them.            *)
Faithful(e) ==
    /\ e.by \in DOMAIN loaded /\ DOMAIN e.stack = DOMAIN e.source
    /\ \A k \in DOMAIN e.stack : e.stack[k].tag = "SYM" =>
           /\ e.undefined /\ e.stack[k].section \in DOMAIN symbols
           /\ e.source[k].tag = "SYM"
           /\ e.source[k].section \in DOMAIN loaded[e.by].syms
           /\ symbols[e.stack[k].section].name
                  = loaded[e.by].syms[e.source[k].section].name

(* After simplify() no symbol is left.                                     *)
OperandsInv ==
    \A v \in DOMAIN sections : \A j \in DOMAIN sections[v].expressions :
        /\ pc = "linked" => \A k \in DOMAIN sections[v].expressions[j].stack :
                                sections[v].expressions[j].stack[k].tag # "SYM"
        /\ pc # "linked" => Faithful(sections[v].expressions[j])

(* It stays so, whatever is read later. *)
LEMMA StaysFaithful ==
    ASSUME TypeInv, TableInv, NowReading, [Next]_vars, pc' # "aborted", NEW e, Faithful(e)
    PROVE  Faithful(e)'
<1>1. \A b \in DOMAIN loaded : b \in DOMAIN loaded' /\ loaded'[b] = loaded[b]
    BY SeenSteps
<1>2. \A k \in DOMAIN symbols : k \in DOMAIN symbols' /\ symbols'[k].name = symbols[k].name
    BY SymbolsStay DEF SymbolStays
<1> QED
    BY <1>1, <1>2 DEF Faithful

(* The expression of a record is so from the start. *)
LEMMA NewFaithful ==
    ASSUME TypeInv, NowReading, LocalsInv, AtRecord({"EXPR", "RELEXP"}),
           \A k \in DOMAIN Rec.stack : Convertible(Rec.stack[k])
    PROVE  Faithful(NewExpression(Rec))
<1> DEFINE e == NewExpression(Rec)
<1>1. /\ pc = "records" /\ Len(loaded) \in DOMAIN loaded /\ module = loaded[Len(loaded)]
      /\ Rec \in Record
    BY ItemTypes DEF AtRecord, NowReading, ReadingModule, TypeInv, TypeOK
<1>2. /\ e.by = Len(loaded) /\ e.source = Rec.stack
      /\ e.stack = [k \in DOMAIN Rec.stack |-> Converted(Rec.stack[k])]
      /\ e.undefined = (With(e.stack, {"SYM"}) # {})
    BY DEF NewExpression
<1> HIDE DEF e
<1>3. DOMAIN local_symbols = DOMAIN module.syms
    <2>1. module.syms \in Seq(Symbol) /\ local_symbols \in Seq(Symbol)
        BY ModuleParts DEF TypeInv, TypeOK
    <2> QED
        BY <1>1, <2>1 DEF LocalsInv
<1>4. ASSUME NEW k \in DOMAIN e.stack, e.stack[k].tag = "SYM"
      PROVE  /\ e.undefined /\ e.stack[k].section \in DOMAIN symbols
             /\ e.source[k].tag = "SYM"
             /\ e.source[k].section \in DOMAIN loaded[e.by].syms
             /\ symbols[e.stack[k].section].name
                    = loaded[e.by].syms[e.source[k].section].name
    <2> DEFINE t == Rec.stack[k]
               s == local_symbols[t.section]
    <2>1. e.stack[k] = Converted(t) /\ Convertible(t) /\ e.source[k] = t
        BY <1>2, <1>4
    <2>2. t.tag = "SYM" /\ s.type = "UND" /\ Converted(t) = Sym(s.section)
        <3>1. /\ t.tag = "SYM" /\ s.type = "REL" => Converted(t).tag = "LOC"
              /\ t.tag = "SYM" /\ s.type = "ABS" => Converted(t).tag = "VAL"
              /\ t.tag = "SYM" /\ s.type = "UND" => Converted(t) = Sym(s.section)
              /\ t.tag = "LOC" => Converted(t).tag = "LOC"
              /\ t.tag \notin {"SYM", "LOC"} => Converted(t) = t
            BY DEF Converted, Loc, Val
        <3>2. t.tag = "SYM" => s.type \in {"UND", "ABS", "REL"}
            <4>1. local_symbols \in Seq(Symbol)
                BY DEF TypeInv, TypeOK
            <4>2. t.tag = "SYM" => s \in Symbol
                BY <2>1, <4>1 DEF Convertible
            <4> QED
                BY <4>2 DEF Symbol
        <3> QED
            BY <1>4, <2>1, <3>1, <3>2
    <2>3. /\ t.section \in DOMAIN local_symbols
          /\ s.section \in DOMAIN symbols
          /\ symbols[s.section].name = module.syms[t.section].name
        BY <1>1, <2>1, <2>2 DEF Convertible, LocalsInv, Stands
    <2>4. k \in With(e.stack, {"SYM"})
        BY <1>4 DEF With
    <2>5. e.stack[k].section = s.section
        BY <2>1, <2>2 DEF Sym
    <2> QED
        BY <1>1, <1>2, <1>3, <2>1, <2>2, <2>3, <2>4, <2>5
<1>5. Faithful(e)
    BY <1>1, <1>2, <1>4 DEF Faithful
<1> QED
    BY <1>5 DEF e

(* simplify() replaces every symbol, and the folding brings none back.     *)
LEMMA NoSymbolLeft ==
    ASSUME NEW e \in Expression, Faithful(e),
           \A k \in DOMAIN symbols : symbols[k].type \in {"ABS", "REL"}
    PROVE  \A k \in DOMAIN Simplified(e).stack : Simplified(e).stack[k].tag # "SYM"
<1> DEFINE stack == Resolved(e).stack
<1>1. /\ e.stack \in Seq(Item) /\ Len(e.stack) \in Nat
      /\ \A k \in DOMAIN e.stack : e.stack[k].tag \in Tags
    <2>1. e.stack \in Seq(Item)
        BY DEF Expression
    <2>2. \A k \in DOMAIN e.stack : e.stack[k] \in Item
        BY <2>1
    <2> QED
        BY <2>1, <2>2 DEF Item, Tags
<1>2. Free(stack) /\ \A k \in DOMAIN stack : stack[k].tag \in Tags
    <2>1. CASE ~e.undefined
        <3>1. stack = e.stack
            BY <2>1 DEF Resolved
        <3> QED
            BY <1>1, <2>1, <3>1 DEF Faithful, Free, Stack
    <2>2. CASE e.undefined
        <3> DEFINE new == [k \in DOMAIN e.stack |-> Replaced(e.stack[k])]
        <3>1. stack = new
            BY <2>2 DEF Resolved, Expression
        <3>2. ASSUME NEW k \in DOMAIN e.stack
              PROVE  Replaced(e.stack[k]).tag \in Tags \ {"SYM"}
            <4> DEFINE t == e.stack[k]
            <4>1. t.tag = "SYM" => symbols[t.section].type \in {"ABS", "REL"}
                BY DEF Faithful
            <4>2. CASE t.tag = "SYM"
                BY <4>1, <4>2 DEF Replaced, Loc, Val, Tags, Operands
            <4>3. CASE t.tag # "SYM"
                BY <1>1, <4>3 DEF Replaced
            <4> QED
                BY <4>2, <4>3
        <3> DEFINE S == {Replaced(e.stack[k]) : k \in DOMAIN e.stack}
        <3>3. new \in Seq(S)
            BY <1>1
        <3>4. Stack(new) /\ DOMAIN new = DOMAIN e.stack
            BY <3>3 DEF Stack
        <3> QED
            BY <3>1, <3>2, <3>4 DEF Free
    <2> QED
        BY <2>1, <2>2
<1>3. Simplified(e).stack = Folded(stack).v
    <2>1. Resolved(e) = [Resolved(e) EXCEPT !.stack = stack]
        BY DEF Resolved, Expression
    <2>2. "stack" \in DOMAIN Resolved(e)
        BY DEF Resolved, Expression
    <2> QED
        BY <2>2 DEF Simplified
<1> HIDE DEF stack
<1>4. Free(Folded(stack).v)
    BY <1>2, FoldFree DEF Folded, Step
<1> QED
    BY <1>3, <1>4 DEF Free

LEMMA SimplifiedSections ==
    ASSUME TypeInv, simplify, pc' = "linked"
    PROVE  /\ sections \in Seq(Section) /\ DOMAIN sections' = DOMAIN sections
           /\ UNCHANGED << symbols, loaded, errors >>
           /\ \A v \in DOMAIN sections :
                  /\ sections[v] \in Section
                  /\ sections'[v] = [sections[v] EXCEPT !.expressions =
                                        [j \in DOMAIN @ |-> Simplified(@[j])]]
                  /\ sections'[v].data = sections[v].data
                  /\ DOMAIN sections'[v].expressions = DOMAIN sections[v].expressions
                  /\ \A j \in DOMAIN sections[v].expressions :
                         sections'[v].expressions[j] = Simplified(sections[v].expressions[j])
<1>1. /\ sections' = [v \in DOMAIN sections |->
                 [sections[v] EXCEPT !.expressions = [j \in DOMAIN @ |-> Simplified(@[j])]]]
      /\ pc = "simplify" /\ UNCHANGED << symbols, loaded, errors >>
    BY DEF simplify, Abort, frame
<1>2. sections \in Seq(Section)
    BY <1>1 DEF TypeInv, TypeOK
<1>3. \A v \in DOMAIN sections :
          /\ sections[v] \in Section
          /\ sections'[v] = [sections[v] EXCEPT !.expressions =
                                [j \in DOMAIN @ |-> Simplified(@[j])]]
    BY <1>1, <1>2
<1>4. ASSUME NEW v \in DOMAIN sections
      PROVE  /\ sections'[v].data = sections[v].data
             /\ DOMAIN sections'[v].expressions = DOMAIN sections[v].expressions
             /\ \A j \in DOMAIN sections[v].expressions :
                    sections'[v].expressions[j] = Simplified(sections[v].expressions[j])
    <2>1. sections'[v].data = sections[v].data
        BY <1>3 DEF Section
    <2>2. sections'[v].expressions =
              [j \in DOMAIN sections[v].expressions |-> Simplified(sections[v].expressions[j])]
        <3>1. "expressions" \in DOMAIN sections[v]
            BY <1>3 DEF Section
        <3> QED
            BY <1>3, <3>1, Zenon
    <2> QED
        BY <2>1, <2>2
<1>5. DOMAIN sections' = DOMAIN sections
    BY <1>1
<1> QED
    BY <1>1, <1>2, <1>3, <1>4, <1>5

LEMMA NextOperands ==
    ASSUME TypeInv, TableInv, NowReading, LocalsInv, NothingUndefined, OperandsInv, [Next]_vars
    PROVE  OperandsInv'
<1>0. ASSUME UNCHANGED << sections, symbols, loaded >>,
             pc' = pc \/ (pc # "linked" /\ pc' # "linked")
      PROVE  OperandsInv'
    <2>1. ASSUME NEW e, Faithful(e) PROVE Faithful(e)'
        BY <1>0, <2>1 DEF Faithful
    <2>2. CASE pc = "linked"
        BY <1>0, <2>2 DEF OperandsInv
    <2>3. CASE pc # "linked"
        <3> SUFFICES ASSUME NEW v \in DOMAIN sections, NEW j \in DOMAIN sections[v].expressions
                     PROVE  Faithful(sections[v].expressions[j])'
            BY <1>0, <2>3 DEF OperandsInv
        <3> SUFFICES ASSUME NEW e, e = sections[v].expressions[j] PROVE Faithful(e)'
            BY <1>0
        <3> QED
            BY <2>1, <2>3 DEF OperandsInv
    <2> QED
        BY <2>2, <2>3
<1>1. CASE UNCHANGED vars \/ (Abort /\ pc # "linked")
    BY <1>0, <1>1 DEF Abort, globals, frame, vars
<1>2. CASE simplify /\ pc' = "linked"
    <2> SUFFICES ASSUME NEW v \in DOMAIN sections, NEW j \in DOMAIN sections[v].expressions
                 PROVE  \A k \in DOMAIN sections'[v].expressions[j].stack :
                            sections'[v].expressions[j].stack[k].tag # "SYM"
        BY <1>2, SimplifiedSections DEF OperandsInv
    <2> DEFINE e == sections[v].expressions[j]
    <2>1. pc = "simplify" /\ e \in Expression
        <3>1. sections[v].expressions \in Seq(Expression)
            BY <1>2, SimplifiedSections, SectionParts
        <3> QED
            BY <1>2, <3>1 DEF simplify
    <2>2. Faithful(e)
        BY <2>1 DEF OperandsInv
    <2>3. \A k \in DOMAIN symbols : symbols[k].type \in {"ABS", "REL"}
        <3>1. symbols \in Seq(Symbol) /\ \A k \in DOMAIN symbols : symbols[k].type # "UND"
            BY <2>1 DEF TypeInv, TypeOK, NothingUndefined
        <3>2. \A k \in DOMAIN symbols : symbols[k] \in Symbol
            BY <3>1
        <3> QED
            BY <3>1, <3>2 DEF Symbol
    <2>4. sections'[v].expressions[j] = Simplified(e)
        BY <1>2, SimplifiedSections
    <2> QED
        BY <2>1, <2>2, <2>3, <2>4, NoSymbolLeft
<1>3. CASE pc' \notin {"linked", "aborted"} /\ pc # "linked"
    <2>1. ASSUME NEW v \in DOMAIN sections', NEW j \in DOMAIN sections'[v].expressions
          PROVE  Faithful(sections[v].expressions[j])'
        <3> SUFFICES ASSUME NEW e, e = sections'[v].expressions[j]
                     PROVE  Faithful(e)'
            OBVIOUS
        <3>1. CASE v \in DOMAIN sections /\ j \in DOMAIN sections[v].expressions
                       /\ e = sections[v].expressions[j]
            <4>1. Faithful(e)
                BY <1>3, <3>1 DEF OperandsInv
            <4> QED
                BY <1>3, <4>1, StaysFaithful
        <3>2. CASE RecordExpression /\ e = NewExpression(Rec)
            <4>1. Faithful(e)
                BY <1>3, <3>2, NewFaithful, RecordsAdd DEF Adding, RecordExpression, Abort
            <4> QED
                BY <1>3, <4>1, StaysFaithful
        <3>3. CASE ~Adding
            BY <1>3, <3>1, <3>3, SectionsKeep DEF Same, Fresh, Adding
        <3>4. CASE Adding
            <4>1. CASE v # current_section
                BY <1>3, <3>1, <3>4, <4>1, RecordsAdd DEF Same
            <4>2. CASE v = current_section
                <5> DEFINE old == sections[v].expressions
                <5>1. /\ v \in DOMAIN sections /\ old \in Seq(Expression)
                      /\ \/ sections'[v].expressions = old
                         \/ /\ sections'[v].expressions = Append(old, NewExpression(Rec))
                            /\ RecordExpression /\ NewExpression(Rec) \in Expression
                    <6>1. current_section \in DOMAIN sections /\ sections \in Seq(Section)
                        BY <1>3, <3>4, RecordsAdd
                    <6>2. old \in Seq(Expression)
                        BY <4>2, <6>1, SectionParts
                    <6>3. CASE RecordData
                        BY <1>3, <3>4, <4>2, <6>1, <6>2, <6>3, RecordsAdd
                    <6>4. CASE RecordExpression
                        BY <1>3, <3>4, <4>2, <6>1, <6>2, <6>4, RecordsAdd
                    <6> QED
                        BY <3>4, <6>3, <6>4 DEF Adding
                <5>2. \/ j \in DOMAIN old /\ e = old[j]
                      \/ RecordExpression /\ e = NewExpression(Rec)
                    BY <5>1
                <5> QED
                    BY <3>1, <3>2, <5>1, <5>2
            <4> QED
                BY <4>1, <4>2
        <3> QED
            BY <3>3, <3>4
    <2> QED
        BY <1>3, <2>1 DEF OperandsInv
<1> QED
    <2>1. CASE pc = "linked"
        <3>1. UNCHANGED vars
            BY <2>1, Endings DEF Final
        <3>2. UNCHANGED << sections, symbols, loaded >> /\ pc' = pc
            BY <3>1 DEF vars
        <3> QED
            BY <1>0, <3>2
    <2>2. CASE pc # "linked" /\ pc' = "aborted"
        BY <1>1, <2>2, Endings
    <2>3. CASE pc # "linked" /\ pc' = "linked"
        BY <1>1, <1>2, <2>3, Endings
    <2> QED
        BY <1>3, <2>1, <2>2, <2>3

LEMMA OperandsAlways == Spec => []OperandsInv
<1>1. Init => OperandsInv
    <2> SUFFICES ASSUME Init, NEW v \in DOMAIN sections
                 PROVE  DOMAIN sections[v].expressions = {}
        BY DEF Init, OperandsInv
    <2>1. sections[v].expressions = << >>
        BY DEF Init, PredefinedSection
    <2> QED
        BY <2>1
<1>2. TypeInv /\ TableInv /\ NowReading /\ LocalsInv /\ OperandsInv /\ [Next]_vars
          => OperandsInv'
    BY NextOperands DEF TableInv
<1> QED
    BY <1>1, <1>2, InputStaysOpen, TableAlways, ReadingNow, LocalsAlways, PTL DEF Spec

(* A symbol in an expression is the one that the module named, whatever is *)
(* appended to the table or redefined after the record was read; and the   *)
(* expression is marked as long as it has one.                             *)
THEOREM OperandsStayNamed == Spec => []OperandsNamed
<1>1. OperandsInv => OperandsNamed
    <2> SUFFICES ASSUME OperandsInv, NEW v \in DOMAIN sections,
                        NEW j \in DOMAIN sections[v].expressions
                 PROVE  LET e == sections[v].expressions[j]
                        IN  \A k \in DOMAIN e.stack : e.stack[k].tag = "SYM" =>
                                /\ e.undefined /\ e.stack[k].section \in DOMAIN symbols
                                /\ e.source[k].tag = "SYM"
                                /\ symbols[e.stack[k].section].name
                                       = loaded[e.by].syms[e.source[k].section].name
        BY Zenon DEF OperandsNamed
    <2>1. CASE pc = "linked"
        BY <2>1 DEF OperandsInv
    <2>2. CASE pc # "linked"
        BY <2>2 DEF OperandsInv, Faithful
    <2> QED
        BY <2>1, <2>2
<1> QED
    BY <1>1, OperandsAlways, PTL
-----------------------------------------------------------------------------
(* The bytes that the expressions patch. *)

(* The expression e of section number v, which is S, patches bytes of S    *)
(* that its record added; and the expressions of S are apart.              *)
Patches(S, v, e) ==
    /\ e.section = v
    /\ e.offset + e.size <= Len(S.data)
    /\ \A k \in 1 .. e.size : S.data[e.offset + k].by = e.by

Apart(f, e) == f.offset + f.size <= e.offset

WellPatched(S, v) ==
    \A j \in DOMAIN S.expressions :
        /\ Patches(S, v, S.expressions[j])
        /\ j > 1 => Apart(S.expressions[j - 1], S.expressions[j])

LEMMA AppendedParts ==
    ASSUME NEW d \in Seq(Byte), NEW b \in Seq(Byte), NEW c, c = d \o b
    PROVE  /\ Len(c) = Len(d) + Len(b) /\ Len(d) \in Nat /\ Len(b) \in Nat
           /\ DOMAIN d = 1 .. Len(d) /\ DOMAIN c = 1 .. Len(d) + Len(b)
           /\ \A k \in 1 .. Len(d) : c[k] = d[k]
           /\ \A k \in 1 .. Len(b) : c[Len(d) + k] = b[k]
OBVIOUS

LEMMA AddedByte ==
    ASSUME NEW d \in Seq(Byte), NEW b \in Seq(Byte), NEW c, c = d \o b, NEW p \in DOMAIN c
    PROVE  \/ p \in DOMAIN d /\ c[p] = d[p]
           \/ \E q \in 1 .. Len(b) : p = Len(d) + q /\ c[p] = b[q]
<1>1. /\ Len(d) \in Nat /\ Len(b) \in Nat /\ p \in 1 .. Len(d) + Len(b)
      /\ DOMAIN d = 1 .. Len(d)
      /\ \A k \in 1 .. Len(d) : c[k] = d[k]
      /\ \A k \in 1 .. Len(b) : c[Len(d) + k] = b[k]
    BY AppendedParts
<1>2. CASE p \in 1 .. Len(d)
    BY <1>1, <1>2
<1>3. CASE p \notin 1 .. Len(d)
    <2>1. p - Len(d) \in 1 .. Len(b) /\ p = Len(d) + (p - Len(d))
        BY <1>1, <1>3
    <2> QED
        BY <1>1, <2>1
<1> QED
    BY <1>2, <1>3

(* More bytes, at the end, change nothing of it.                           *)
LEMMA StillPatches ==
    ASSUME NEW S \in Section, NEW T, NEW b \in Seq(Byte), NEW v, NEW e \in Expression,
           T.data = S.data \o b, Patches(S, v, e)
    PROVE  Patches(T, v, e)
<1>1. S.data \in Seq(Byte) /\ e.offset \in Nat /\ e.size \in Nat
    BY SectionParts DEF Expression
<1>2. Len(T.data) >= Len(S.data) /\ Len(S.data) \in Nat /\ Len(T.data) \in Nat
    BY <1>1, AppendedParts
<1>3. \A k \in 1 .. e.size : e.offset + k \in 1 .. Len(S.data)
    BY <1>1, <1>2 DEF Patches
<1>4. \A k \in 1 .. Len(S.data) : T.data[k] = S.data[k]
    BY <1>1, AppendedParts
<1> QED
    BY <1>1, <1>2, <1>3, <1>4 DEF Patches

LEMMA PatchedData ==
    ASSUME NEW S \in Section, NEW T, NEW b \in Seq(Byte), NEW v,
           T.data = S.data \o b, T.expressions = S.expressions, WellPatched(S, v)
    PROVE  WellPatched(T, v)
<1>1. \A j \in DOMAIN S.expressions : S.expressions[j] \in Expression
    BY SectionParts
<1> QED
    BY <1>1, StillPatches DEF WellPatched

(* The bytes of an expression are the next ones.                           *)
LEMMA PatchedExpression ==
    ASSUME NEW S \in Section, NEW T, NEW b \in Seq(Byte), NEW v, NEW e \in Expression,
           T.data = S.data \o b, T.expressions = Append(S.expressions, e),
           e.section = v, e.offset = Len(S.data), e.size = Len(b),
           \A k \in 1 .. Len(b) : b[k].by = e.by, WellPatched(S, v)
    PROVE  WellPatched(T, v)
<1> SUFFICES ASSUME NEW old, old = S.expressions, NEW n, n = Len(old),
                    NEW X, X = T.expressions
             PROVE  WellPatched(T, v)
    OBVIOUS
<1>1. /\ S.data \in Seq(Byte) /\ old \in Seq(Expression) /\ n \in Nat
      /\ \A j \in DOMAIN old : old[j] \in Expression
    BY SectionParts
<1>2. /\ DOMAIN X = 1 .. n + 1 /\ X[n + 1] = e
      /\ \A j \in 1 .. n : X[j] = old[j]
      /\ DOMAIN old = 1 .. n
    BY <1>1
<1>3. \A j \in 1 .. n : Patches(T, v, X[j])
    BY <1>1, <1>2, StillPatches DEF WellPatched
<1>4. Patches(T, v, e)
    BY <1>1, AppendedParts DEF Patches
<1>5. \A j \in 1 .. n + 1 : /\ j \in 1 .. n \/ j = n + 1
                          /\ j > 1 => j - 1 \in 1 .. n
    BY <1>1
<1>6. ASSUME NEW j \in 1 .. n + 1, j > 1
      PROVE  Apart(X[j - 1], X[j])
    <2>1. X[j - 1] = old[j - 1] /\ j - 1 \in DOMAIN old
        BY <1>2, <1>5, <1>6
    <2>2. CASE j \in 1 .. n
        <3>1. X[j] = old[j] /\ j \in DOMAIN old
            BY <1>2, <2>2
        <3> QED
            BY <1>6, <2>1, <3>1 DEF WellPatched, Apart
    <2>3. CASE j = n + 1
        <3>1. X[j] = e /\ e.offset = Len(S.data)
            BY <1>2, <2>3
        <3>2. old[j - 1].offset + old[j - 1].size <= Len(S.data)
            BY <2>1 DEF WellPatched, Patches
        <3> QED
            BY <2>1, <3>1, <3>2 DEF Apart
    <2>4. j \in 1 .. n \/ j = n + 1
        BY <1>5
    <2> QED
        BY <2>2, <2>3, <2>4
<1>7. ASSUME NEW j \in DOMAIN X
      PROVE  Patches(T, v, X[j])
    <2>1. CASE j \in 1 .. n
        BY <1>3, <2>1
    <2>2. CASE j = n + 1
        BY <1>2, <1>4, <2>2, Zenon
    <2> QED
        BY <1>2, <1>5, <2>1, <2>2
<1> QED
    BY <1>2, <1>6, <1>7, Zenon DEF WellPatched

(* What simplify() does to an expression leaves its place.                 *)
LEMMA SimplifiedPlace ==
    ASSUME NEW e \in Expression
    PROVE  /\ Simplified(e).section = e.section /\ Simplified(e).offset = e.offset
           /\ Simplified(e).size = e.size /\ Simplified(e).by = e.by
BY DEF Simplified, Resolved, Expression

LEMMA PatchedSimplified ==
    ASSUME NEW S \in Section, NEW T, NEW v, T.data = S.data,
           DOMAIN T.expressions = DOMAIN S.expressions,
           \A j \in DOMAIN S.expressions : T.expressions[j] = Simplified(S.expressions[j]),
           WellPatched(S, v)
    PROVE  WellPatched(T, v)
<1>1. /\ S.expressions \in Seq(Expression) /\ Len(S.expressions) \in Nat
      /\ DOMAIN S.expressions = 1 .. Len(S.expressions)
      /\ \A j \in DOMAIN S.expressions : S.expressions[j] \in Expression
    BY SectionParts
<1>2. ASSUME NEW j \in DOMAIN S.expressions
      PROVE  /\ T.expressions[j].section = S.expressions[j].section
             /\ T.expressions[j].offset = S.expressions[j].offset
             /\ T.expressions[j].size = S.expressions[j].size
             /\ T.expressions[j].by = S.expressions[j].by
    BY <1>1, SimplifiedPlace
<1>3. \A j \in DOMAIN S.expressions : j > 1 => j - 1 \in DOMAIN S.expressions
    BY <1>1
<1> QED
    BY <1>1, <1>2, <1>3 DEF WellPatched, Patches, Apart

PatchesInv == \A v \in DOMAIN sections : WellPatched(sections[v], v)

LEMMA BytesParts ==
    ASSUME TypeInv, pc = "records", NEW n \in Nat
    PROVE  /\ Bytes(n) \in Seq(Byte) /\ Len(Bytes(n)) = n
           /\ \A k \in 1 .. n : Bytes(n)[k].by = Len(loaded) /\ Bytes(n)[k].section = current
<1>1. Bytes(n) \in Seq(Byte)
    BY BytesType DEF TypeInv
<1> QED
    BY <1>1 DEF Bytes

LEMMA NextPatches ==
    ASSUME TypeInv, PatchesInv, [Next]_vars
    PROVE  PatchesInv'
<1>1. CASE UNCHANGED vars \/ Abort
    BY <1>1 DEF vars, Abort, globals, PatchesInv
<1>2. CASE simplify /\ pc' = "linked"
    <2>1. /\ sections \in Seq(Section) /\ DOMAIN sections' = DOMAIN sections
          /\ \A v \in DOMAIN sections : sections[v] \in Section
        BY <1>2, SimplifiedSections
    <2>2. ASSUME NEW v \in DOMAIN sections
          PROVE  WellPatched(sections[v], v)'
        <3> SUFFICES ASSUME NEW T, T = sections'[v] PROVE WellPatched(T, v)
            OBVIOUS
        <3>1. WellPatched(sections[v], v) /\ sections[v] \in Section
            BY <2>1 DEF PatchesInv
        <3> QED
            BY <1>2, <3>1, SimplifiedSections, PatchedSimplified
    <2> QED
        BY <2>1, <2>2 DEF PatchesInv
<1>3. CASE pc' \notin {"linked", "aborted"} /\ Adding
    <2>0. Adding /\ pc' # "aborted"
        BY <1>3
    <2> DEFINE c == current_section
    <2>1. /\ c \in DOMAIN sections /\ DOMAIN sections' = DOMAIN sections
          /\ sections \in Seq(Section) /\ Rec \in Record
          /\ \A v \in DOMAIN sections : v # c => Same(v)
          /\ sections'[c].data = sections[c].data \o Bytes(Rec.n)
          /\ pc = "records"
        BY <2>0, RecordsAdd
    <2>2. /\ Bytes(Rec.n) \in Seq(Byte) /\ Len(Bytes(Rec.n)) = Rec.n
          /\ \A k \in 1 .. Rec.n : Bytes(Rec.n)[k].by = Len(loaded)
        <3>1. Rec.n \in Nat
            BY <2>1 DEF Record
        <3> QED
            BY <2>1, <3>1, BytesParts
    <2>3. sections[c] \in Section /\ WellPatched(sections[c], c)
        BY <2>1 DEF PatchesInv
    <2>4. WellPatched(sections'[c], c)
        <3> SUFFICES ASSUME NEW S, S = sections[c], NEW T, T = sections'[c],
                            NEW b, b = Bytes(Rec.n)
                     PROVE  WellPatched(T, c)
            OBVIOUS
        <3>1. CASE RecordData
            BY <2>0, <2>1, <2>2, <2>3, <3>1, RecordsAdd, PatchedData
        <3>2. CASE RecordExpression
            <4> DEFINE e == NewExpression(Rec)
            <4>1. e \in Expression /\ T.expressions = Append(S.expressions, e)
                BY <2>0, <3>2, RecordsAdd
            <4>2. /\ e.section = c /\ e.offset = Len(S.data) /\ e.size = Rec.n
                  /\ e.by = Len(loaded)
                BY DEF NewExpression, Base
            <4>3. /\ T.data = S.data \o b /\ S \in Section /\ WellPatched(S, c)
                  /\ b \in Seq(Byte) /\ Len(b) = Rec.n
                  /\ \A k \in 1 .. Rec.n : b[k].by = Len(loaded)
                BY <2>1, <2>2, <2>3
            <4> HIDE DEF e, c
            <4>4. /\ e.section = c /\ e.offset = Len(S.data) /\ e.size = Len(b)
                  /\ \A k \in 1 .. Len(b) : b[k].by = e.by
                BY <4>2, <4>3
            <4> QED
                BY <4>1, <4>3, <4>4, PatchedExpression, ZenonT(40)
        <3> QED
            BY <2>0, <3>1, <3>2 DEF Adding
    <2>5. ASSUME NEW v \in DOMAIN sections, v # c
          PROVE  WellPatched(sections'[v], v)
        BY <2>1, <2>5 DEF PatchesInv, Same, WellPatched, Patches
    <2> QED
        BY <2>1, <2>4, <2>5 DEF PatchesInv
<1>4. CASE pc' \notin {"linked", "aborted"} /\ ~Adding
    <2>1. /\ \A v \in DOMAIN sections : Same(v)
          /\ \A v \in DOMAIN sections' : v \in DOMAIN sections \/ Fresh(v)
        BY <1>4, SectionsKeep DEF Adding
    <2>2. ASSUME NEW v \in DOMAIN sections' PROVE WellPatched(sections'[v], v)
        <3>1. CASE v \in DOMAIN sections
            BY <2>1, <3>1 DEF PatchesInv, Same, WellPatched, Patches
        <3>2. CASE Fresh(v)
            <4>1. DOMAIN sections'[v].expressions = {}
                BY <3>2 DEF Fresh
            <4> QED
                BY <4>1 DEF WellPatched
        <3> QED
            BY <2>1, <3>1, <3>2
    <2> QED
        BY <2>2 DEF PatchesInv
<1> QED
    BY <1>1, <1>2, <1>3, <1>4, Endings

(* An expression lies within bytes of its own module, and no two patch the *)
(* same one, however many modules add to its section and whatever          *)
(* simplify() makes of it.                                                 *)
THEOREM PatchesStayInPlace == Spec => []ExpressionsPatchTheirBytes
<1>1. Init => PatchesInv
    <2> SUFFICES ASSUME Init, NEW v \in DOMAIN sections
                 PROVE  DOMAIN sections[v].expressions = {}
        BY DEF Init, PatchesInv, WellPatched
    <2>1. sections[v].expressions = << >>
        BY DEF Init, PredefinedSection
    <2> QED
        BY <2>1
<1>2. TypeInv /\ PatchesInv /\ [Next]_vars => PatchesInv'
    BY NextPatches
<1>3. PatchesInv => ExpressionsPatchTheirBytes
    BY DEF PatchesInv, WellPatched, Patches, Apart, ExpressionsPatchTheirBytes
<1> QED
    BY <1>1, <1>2, <1>3, InputStaysOpen, PTL DEF Spec
-----------------------------------------------------------------------------
(* Where a definition is placed. *)

(* A byte of a section was read from a module, before the one whose        *)
(* sections and symbols are being read.                                    *)
BytesRead ==
    \A v \in DOMAIN sections : \A p \in DOMAIN sections[v].data :
        /\ sections[v].data[p].by \in DOMAIN loaded
        /\ pc \in {"sections", "symbols"} => sections[v].data[p].by < Len(loaded)

(* The part of a local section of module b is in section v, beyond `base': *)
(* what was read before is below, and no byte is less far into it than it  *)
(* was in the module.                                                      *)
Part(b, section, v, base) ==
    /\ b = Len(loaded) /\ pc \in {"symbols", "records"} =>
           /\ section \in DOMAIN remap_section /\ v = remap_section[section]
           /\ base <= Len(sections[v].data)
    /\ \A w \in DOMAIN sections : \A p \in DOMAIN sections[w].data :
           LET x == sections[w].data[p]
           IN  /\ x.by = b /\ x.section = section => w = v /\ base + x.at < p
               /\ x.by < b /\ w = v => p <= base

(* The linker's symbol T is the module's definition s.                     *)
Fits(b, s, T) ==
    /\ T.type = s.type
    /\ s.type = "ABS" => T.offset = s.offset
    /\ s.type = "REL" =>
           \E base \in Nat : T.offset = s.offset + base /\ Part(b, s.section, T.section, base)

Kept(b, s) == \E g \in DOMAIN symbols : symbols[g].name = s.name /\ Fits(b, s, symbols[g])

IsGlobal(s) == s.type # "UND" /\ s.flags = Global

(* While nothing was reported, the table has every definition read so far. *)
DefinitionsInv ==
    errors = 0 /\ pc \notin {"simplify", "linked", "aborted"} =>
        \A b, k : Seen(b, k) /\ IsGlobal(loaded[b].syms[k]) => Kept(b, loaded[b].syms[k])

LEMMA ErrorsGrow ==
    ASSUME TypeInv, [Next]_vars
    PROVE  errors \in Nat /\ errors' \in Nat /\ errors <= errors'
<1>0. errors \in Nat
    BY DEF TypeInv, TypeOK
<1>1. CASE OneSection
    BY <1>0, <1>1 DEF OneSection, SectionPredefined, SectionNew, SectionKnown, SectionsDone, Abort
<1>2. CASE OneSymbol
    BY <1>0, <1>2 DEF OneSymbol, ReferenceNew, ReferenceKnown, DefineUnmapped, DefineLocal,
                      DefineNew, DefineReferenced, DefineAgain, SymbolsDone, Abort
<1>3. CASE OneRecord
    <2>1. RecordExpression => errors' \in {errors, errors + 1}
        BY DEF RecordExpression, WellFormed, Abort
    <2>2. RecordData \/ RecordSection \/ RecordSkipped => errors' = errors
        BY DEF RecordData, RecordSection, RecordSkipped, Abort
    <2>3. RecordOrg \/ RecordsDone => errors' = errors
        BY DEF RecordOrg, RecordsDone, Abort
    <2> QED
        BY <1>0, <1>3, <2>1, <2>2, <2>3 DEF OneRecord
<1>4. CASE OneFile
    BY <1>0, <1>4 DEF OneFile, FileRefused, FileIsLibrary, FileOpened, FileModule, FileDone,
                      FilesDone
<1>5. CASE OneLibrary
    BY <1>0, <1>5 DEF OneLibrary, LibraryMissing, LibraryNowhere, LibraryOpened,
                      LibraryModule, LibraryRound, LibrariesDone
<1>6. CASE Finish
    BY <1>0, <1>6 DEF Finish, CheckUndefined, generate_end, simplify, Abort
<1> QED
    BY <1>0, <1>1, <1>2, <1>3, <1>4, <1>5, <1>6 DEF Next, Ended, vars

(* The module's own tables are complete before its symbols are read.       *)
LEMMA ReadingKeeps ==
    ASSUME TypeInv, [Next]_vars, pc' \in {"symbols", "records"}
    PROVE  /\ UNCHANGED << loaded, module >> /\ pc \in {"sections", "symbols", "records"}
           /\ pc # "sections" => UNCHANGED remap_section
<1>1. UNCHANGED << loaded, module >> /\ pc \in {"sections", "symbols", "records"}
    BY Flow DEF Abort, Enter, AtSymbol
<1>2. CASE OneSymbol
    BY <1>1, <1>2, SymbolCases DEF SymbolsDone, Abort, frame
<1>3. CASE OneRecord
    BY <1>1, <1>3 DEF OneRecord, RecordData, RecordSection, RecordOrg, RecordSkipped,
                RecordExpression, RecordsDone, NextRecord, Abort, frame
<1> QED
    BY <1>1, <1>2, <1>3, PhaseOf DEF Next, Ended, vars

(* The bytes that a step may add. *)
AlreadyRead == Cardinality({k \in DOMAIN sections[current_section].data :
                   /\ sections[current_section].data[k].by = Len(loaded)
                   /\ sections[current_section].data[k].section = current})
NewByte(q) == [by |-> Len(loaded), section |-> current, at |-> AlreadyRead + q - 1]

LEMMA BytesAdded ==
    ASSUME TypeInv, [Next]_vars, pc' \notin {"aborted", "linked"},
           NEW w \in DOMAIN sections', NEW D, D = sections'[w].data, NEW p \in DOMAIN D
    PROVE  \/ /\ w \in DOMAIN sections /\ p \in DOMAIN sections[w].data
              /\ D[p] = sections[w].data[p]
           \/ /\ Adding /\ w = current_section /\ w \in DOMAIN sections
              /\ \E q \in 1 .. Rec.n : p = Len(sections[w].data) + q /\ D[p] = NewByte(q)
<1>1. CASE ~Adding
    <2>1. \/ w \in DOMAIN sections /\ Same(w)
          \/ Fresh(w)
        BY <1>1, SectionsKeep DEF Adding
    <2>2. ~Fresh(w)
        BY DEF Fresh
    <2> QED
        BY <2>1, <2>2 DEF Same
<1>2. CASE Adding
    <2>1. /\ w \in DOMAIN sections /\ sections \in Seq(Section) /\ pc = "records"
          /\ Rec \in Record
          /\ w # current_section => Same(w)
          /\ w = current_section => D = sections[w].data \o Bytes(Rec.n)
        BY <1>2, RecordsAdd
    <2>2. CASE w # current_section
        BY <2>1, <2>2 DEF Same
    <2>3. CASE w = current_section
        <3>1. Rec.n \in Nat
            BY <2>1 DEF Record
        <3>2. PICK d : d = sections[w].data
            OBVIOUS
        <3>3. PICK b : b = Bytes(Rec.n)
            OBVIOUS
        <3>4. d \in Seq(Byte) /\ b \in Seq(Byte) /\ Len(b) = Rec.n
            <4>1. sections[w] \in Section
                BY <2>1
            <4>2. sections[w].data \in Seq(Byte)
                BY <4>1, SectionParts
            <4>3. Bytes(Rec.n) \in Seq(Byte) /\ Len(Bytes(Rec.n)) = Rec.n
                BY <2>1, <3>1, BytesParts
            <4> QED
                BY <3>2, <3>3, <4>2, <4>3
        <3>5. D = d \o b
            BY <2>1, <2>3, <3>2, <3>3
        <3>6. \A q \in 1 .. Rec.n : b[q] = NewByte(q)
            BY <3>3 DEF Bytes, NewByte, AlreadyRead
        <3>7. \/ p \in DOMAIN d /\ D[p] = d[p]
              \/ \E q \in 1 .. Len(b) : p = Len(d) + q /\ D[p] = b[q]
            BY <3>4, <3>5, AddedByte
        <3>8. \/ p \in DOMAIN d /\ D[p] = d[p]
              \/ \E q \in 1 .. Rec.n : p = Len(d) + q /\ D[p] = NewByte(q)
            BY <3>4, <3>6, <3>7
        <3> QED
            BY <1>2, <2>1, <2>3, <3>2, <3>8
    <2> QED
        BY <2>2, <2>3
<1> QED
    BY <1>1, <1>2

LEMMA BytesReadStays ==
    ASSUME TypeInv, NowReading, BytesRead, [Next]_vars
    PROVE  BytesRead'
<1>1. CASE UNCHANGED vars
    BY <1>1 DEF vars, BytesRead
<1>2. CASE Abort
    BY <1>2 DEF Abort, frame, globals, BytesRead
<1>3. CASE pc' = "linked" /\ simplify
    BY <1>3, SimplifiedSections DEF BytesRead
<1>4. CASE pc' \notin {"aborted", "linked"}
    <2> SUFFICES ASSUME NEW w \in DOMAIN sections', NEW p \in DOMAIN sections'[w].data,
                        NEW D, D = sections'[w].data, NEW x, x = D[p]
                 PROVE  /\ x.by \in DOMAIN loaded'
                        /\ pc' \in {"sections", "symbols"} => x.by < Len(loaded')
        BY DEF BytesRead
    <2>0. /\ loaded \in Seq(Module) /\ Len(loaded) \in Nat
          /\ DOMAIN loaded = 1 .. Len(loaded)
          /\ DOMAIN loaded \subseteq DOMAIN loaded'
        BY <1>4, SeenSteps DEF TypeInv, TypeOK
    <2>1. CASE w \in DOMAIN sections /\ p \in DOMAIN sections[w].data /\ x = sections[w].data[p]
        <3>1. /\ x.by \in DOMAIN loaded
              /\ pc \in {"sections", "symbols"} => x.by < Len(loaded)
            BY <2>1 DEF BytesRead
        <3>2. CASE \E m : Enter(m)
            <4>1. PICK m : loaded' = Append(loaded, m)
                BY <3>2 DEF Enter
            <4>2. Len(loaded') = Len(loaded) + 1
                BY <2>0, <4>1
            <4> QED
                BY <2>0, <3>1, <4>2
        <3>3. CASE ~(\E m : Enter(m))
            <4>1. /\ UNCHANGED loaded
                  /\ pc' \in {"sections", "symbols"} => pc \in {"sections", "symbols"}
                BY <1>4, <3>3, Flow DEF Abort, AtSymbol
            <4> QED
                BY <3>1, <4>1
        <3> QED
            BY <3>2, <3>3
    <2>2. CASE Adding /\ \E q : x = NewByte(q)
        <3>1. pc = "records" /\ pc' = "records" /\ UNCHANGED loaded
            BY <1>4, <2>2, RecordsAdd
        <3>2. x.by = Len(loaded) /\ Len(loaded) \in DOMAIN loaded
            BY <2>0, <2>2, <3>1 DEF NewByte, NowReading, ReadingModule
        <3> QED
            BY <3>1, <3>2
    <2> QED
        BY <1>4, <2>1, <2>2, BytesAdded
<1> QED
    BY <1>1, <1>2, <1>3, <1>4, Endings
(* No more bytes of a part were read than there are beyond its base.       *)
LEMMA ReadBounded ==
    ASSUME NEW d \in Seq(Byte), NEW base \in Nat, base <= Len(d), NEW S \in SUBSET DOMAIN d,
           \A k \in S : base < k
    PROVE  Cardinality(S) \in Nat /\ base + Cardinality(S) <= Len(d)
<1>1. /\ Len(d) \in Nat /\ DOMAIN d = 1 .. Len(d)
    OBVIOUS
<1>2. S \in SUBSET (base + 1 .. Len(d))
    BY <1>1
<1>3. PICK a, z : a = base + 1 /\ z = Len(d)
    OBVIOUS
<1>4. /\ IsFiniteSet(base + 1 .. Len(d))
      /\ Cardinality(base + 1 .. Len(d)) = Len(d) - base
    <2>1. a \in Int /\ z \in Int
        BY <1>1, <1>3
    <2>2. IsFiniteSet(a .. z) /\ Cardinality(a .. z) = IF a > z THEN 0 ELSE z - a + 1
        BY <2>1, FS_Interval
    <2> QED
        BY <1>1, <1>3, <2>1, <2>2
<1>5. IsFiniteSet(S) /\ Cardinality(S) <= Cardinality(base + 1 .. Len(d))
    BY <1>2, <1>4, FS_Subset
<1>6. Cardinality(S) \in Nat
    BY <1>5, FS_CardinalityType
<1> QED
    BY <1>1, <1>4, <1>5, <1>6

(* A byte that is read next is beyond the base, and as far into the part   *)
(* as it was in the module at least.                                       *)
LEMMA NextByteBeyond ==
    ASSUME TypeInv, pc = "records", NEW v, v = current_section, NEW base \in Nat,
           Part(Len(loaded), current, v, base)
    PROVE  AlreadyRead \in Nat /\ base + AlreadyRead <= Len(sections[v].data)
<1>1. sections \in Seq(Section) /\ v \in DOMAIN sections
    BY DEF TypeInv, TypeOK, current_section
<1>2. PICK d : d = sections[v].data
    OBVIOUS
<1> DEFINE S == {k \in DOMAIN d : d[k].by = Len(loaded) /\ d[k].section = current}
<1>3. d \in Seq(Byte)
    <2>1. sections[v] \in Section
        BY <1>1
    <2> QED
        BY <1>2, <2>1, SectionParts
<1>4. base <= Len(d)
    BY <1>2 DEF Part
<1>5. ASSUME NEW k \in S PROVE base < k
    <2>1. base + d[k].at < k
        BY <1>1, <1>2 DEF Part
    <2>2. d[k] \in Byte /\ k \in Nat
        BY <1>3
    <2>3. d[k].at \in Nat
        BY <2>2 DEF Byte
    <2> QED
        BY <2>1, <2>2, <2>3
<1>6. AlreadyRead = Cardinality(S)
    BY <1>2 DEF AlreadyRead
<1> HIDE DEF S
<1>7. S \in SUBSET DOMAIN d
    BY DEF S
<1> QED
    BY <1>2, <1>3, <1>4, <1>5, <1>6, <1>7, ReadBounded

(* A step does not move a part. *)
LEMMA PartStays ==
    ASSUME TypeInv, [Next]_vars, pc' \notin {"aborted", "linked"},
           NEW b \in DOMAIN loaded, b = Len(loaded) => pc # "sections",
           NEW section, NEW v, NEW base \in Nat, Part(b, section, v, base)
    PROVE  Part(b, section, v, base)'
<1>0. /\ loaded \in Seq(Module) /\ Len(loaded) \in Nat /\ DOMAIN loaded = 1 .. Len(loaded)
      /\ b \in Nat /\ b <= Len(loaded)
    <2>1. loaded \in Seq(Module)
        BY DEF TypeInv, TypeOK
    <2> QED
        BY <2>1
<1>1. ASSUME b = Len(loaded'), pc' \in {"symbols", "records"}
      PROVE  /\ section \in DOMAIN remap_section' /\ v = remap_section'[section]
             /\ base <= Len(sections'[v].data)
    <2>1. /\ b = Len(loaded) /\ pc \in {"symbols", "records"} /\ UNCHANGED remap_section
        BY <1>1, ReadingKeeps
    <2>2. /\ section \in DOMAIN remap_section /\ v = remap_section[section]
          /\ base <= Len(sections[v].data) /\ v \in DOMAIN sections
          /\ sections \in Seq(Section)
        BY <2>1 DEF Part, TypeInv, TypeOK
    <2>3. Len(sections[v].data) \in Nat /\ sections[v].data \in Seq(Byte)
        <3>1. sections[v] \in Section
            BY <2>2
        <3> QED
            BY <3>1, SectionParts
    <2>4. CASE Same(v)
        BY <2>1, <2>2, <2>4 DEF Same
    <2>5. CASE ~Same(v)
        <3>1. Adding /\ v = current_section /\ pc' # "aborted"
            <4>1. Adding
                BY <1>1, <2>2, <2>5, SectionsKeep DEF Adding
            <4> QED
                BY <1>1, <2>2, <2>5, <4>1, RecordsAdd
        <3>2. /\ sections'[v].data = sections[v].data \o Bytes(Rec.n)
              /\ pc = "records" /\ Rec \in Record
            BY <3>1, RecordsAdd
        <3>3. Bytes(Rec.n) \in Seq(Byte) /\ Len(Bytes(Rec.n)) \in Nat
            <4>1. Rec.n \in Nat
                BY <3>2 DEF Record
            <4> QED
                BY <3>2, <4>1, BytesParts
        <3>4. Len(sections'[v].data) = Len(sections[v].data) + Len(Bytes(Rec.n))
            <4>1. PICK d, n : d = sections[v].data /\ n = Bytes(Rec.n)
                OBVIOUS
            <4>2. Len(d \o n) = Len(d) + Len(n)
                BY <2>3, <3>3, <4>1
            <4> QED
                BY <3>2, <4>1, <4>2
        <3>5. base <= Len(sections[v].data) /\ Len(sections[v].data) \in Nat
            BY <2>2, <2>3
        <3>6. Len(Bytes(Rec.n)) \in Nat
            BY <3>3
        <3>7. base <= Len(sections'[v].data)
            <4>1. \A x, y, z : base <= x /\ x \in Nat /\ y \in Nat /\ z = x + y => base <= z
                OBVIOUS
            <4> QED
                BY <3>4, <3>5, <3>6, <4>1, Zenon
        <3>8. section \in DOMAIN remap_section' /\ v = remap_section'[section]
            BY <2>1, <2>2
        <3> QED
            BY <3>7, <3>8
    <2> QED
        BY <2>4, <2>5
<1>2. ASSUME NEW w \in DOMAIN sections', NEW D, D = sections'[w].data,
             NEW p \in DOMAIN D, NEW x, x = D[p]
      PROVE  /\ x.by = b /\ x.section = section => w = v /\ base + x.at < p
             /\ x.by < b /\ w = v => p <= base
    <2>1. CASE w \in DOMAIN sections /\ p \in DOMAIN sections[w].data /\ x = sections[w].data[p]
        BY <2>1 DEF Part
    <2>2. CASE /\ Adding /\ w = current_section /\ w \in DOMAIN sections
               /\ \E q \in 1 .. Rec.n : p = Len(sections[w].data) + q /\ x = NewByte(q)
        <3>1. pc = "records" /\ Rec.n \in Nat
            BY <2>2, RecordsAdd DEF Record
        <3>2. PICK q \in 1 .. Rec.n : p = Len(sections[w].data) + q /\ x = NewByte(q)
            BY <2>2
        <3>3. /\ x.by = Len(loaded) /\ x.section = current /\ x.at = AlreadyRead + q - 1
              /\ q \in Nat
            BY <3>1, <3>2 DEF NewByte
        <3>4. ~(x.by < b)
            BY <1>0, <3>3
        <3>5. ASSUME x.by = b, x.section = section
              PROVE  w = v /\ base + x.at < p
            <4>1. b = Len(loaded) /\ section = current
                BY <3>3, <3>5
            <4>2. v = current_section
                BY <3>1, <4>1 DEF Part, current_section
            <4>3. AlreadyRead \in Nat /\ base + AlreadyRead <= Len(sections[v].data)
                BY <3>1, <4>1, <4>2, NextByteBeyond
            <4>4. Len(sections[v].data) \in Nat
                <5>1. sections[v] \in Section
                    BY <2>2, <3>1, <4>2 DEF TypeInv, TypeOK
                <5> QED
                    BY <5>1, SectionParts
            <4> QED
                BY <2>2, <3>2, <3>3, <4>2, <4>3, <4>4
        <3> QED
            BY <3>4, <3>5
    <2> QED
        BY <1>2, <2>1, <2>2, BytesAdded
<1> QED
    BY <1>1, <1>2 DEF Part

(* A definition begins a part at what is in the section now.               *)
LEMMA PartBegins ==
    ASSUME TypeInv, BytesRead, pc = "symbols", NEW section \in DOMAIN remap_section,
           NEW v, v = remap_section[section]
    PROVE  Base(v) \in Nat /\ Part(Len(loaded), section, v, Base(v))
<1>1. sections \in Seq(Section) /\ v \in DOMAIN sections
    BY DEF TypeInv, TypeOK
<1>2. \A w \in DOMAIN sections :
          /\ Len(sections[w].data) \in Nat
          /\ DOMAIN sections[w].data = 1 .. Len(sections[w].data)
    <2> SUFFICES ASSUME NEW w \in DOMAIN sections, NEW d, d = sections[w].data
                 PROVE  Len(d) \in Nat /\ DOMAIN d = 1 .. Len(d)
        OBVIOUS
    <2>1. sections[w] \in Section
        BY <1>1
    <2>2. d \in Seq(Byte)
        BY <2>1, SectionParts
    <2> QED
        BY <2>2
<1>3. Len(loaded) \in Nat /\ \A k \in DOMAIN loaded : k \in Nat
    <2>1. loaded \in Seq(Module)
        BY DEF TypeInv, TypeOK
    <2> QED
        BY <2>1
<1>4. \A w \in DOMAIN sections : \A p \in DOMAIN sections[w].data :
          /\ sections[w].data[p].by # Len(loaded)
          /\ p <= Len(sections[w].data)
    BY <1>2, <1>3 DEF BytesRead
<1> QED
    BY <1>1, <1>2, <1>4 DEF Part, Base
LEMMA FitsStays ==
    ASSUME TypeInv, [Next]_vars, pc' \notin {"aborted", "linked"},
           NEW b \in DOMAIN loaded, b = Len(loaded) => pc # "sections",
           NEW s, NEW T, Fits(b, s, T)
    PROVE  Fits(b, s, T)'
<1>1. T.type = s.type /\ (s.type = "ABS" => T.offset = s.offset)
    BY DEF Fits
<1>2. ASSUME s.type = "REL"
      PROVE  \E base \in Nat : T.offset = s.offset + base
                               /\ Part(b, s.section, T.section, base)'
    <2>1. PICK base \in Nat : T.offset = s.offset + base /\ Part(b, s.section, T.section, base)
        BY <1>2 DEF Fits
    <2>2. PICK section, v : section = s.section /\ v = T.section
        OBVIOUS
    <2>3. Part(b, section, v, base)
        BY <2>1, <2>2
    <2>4. Part(b, section, v, base)'
        BY <2>3, PartStays
    <2> QED
        BY <2>1, <2>2, <2>4
<1> QED
    BY <1>1, <1>2 DEF Fits

LEMMA KeptStays ==
    ASSUME TypeInv, TableInv, [Next]_vars, pc' \notin {"aborted", "linked"},
           UNCHANGED symbols \/ pc # "generate_end",
           NEW b \in DOMAIN loaded, b = Len(loaded) => pc # "sections",
           NEW s, s.type # "UND", Kept(b, s)
    PROVE  Kept(b, s)'
<1>1. PICK g \in DOMAIN symbols : symbols[g].name = s.name /\ Fits(b, s, symbols[g])
    BY DEF Kept
<1>2. PICK T : T = symbols[g]
    OBVIOUS
<1>3. Fits(b, s, T) /\ T.type # "UND"
    BY <1>1, <1>2 DEF Fits
<1>4. g \in DOMAIN symbols' /\ symbols'[g] = T
    <2>1. SymbolStays(g)
        BY SymbolsStay
    <2> QED
        BY <1>2, <1>3, <2>1 DEF SymbolStays
<1>5. Fits(b, s, T)'
    BY <1>3, FitsStays
<1> QED
    BY <1>1, <1>2, <1>4, <1>5 DEF Kept

(* The turn of the loop that reads a definition: it is the first of its    *)
(* name, or equal to the first, or reported.                               *)
LEMMA DefinitionEntered ==
    ASSUME TypeInv, TableInv, OneSymbol, NextSymbolSeen, Sy.type # "UND", Sy.flags = Global,
           errors' = errors
    PROVE  /\ AtDefinition /\ Relocatable
           /\ \E g \in DOMAIN symbols' : symbols'[g] = Relocated(Sy)
<1>1. ~Abort /\ ~SymbolsDone
    <2>1. i + 1 # i
        BY DEF TypeInv, TypeOK
    <2> QED
        BY <2>1 DEF NextSymbolSeen, AtSymbol, Abort, SymbolsDone
<1>2. DefineNew \/ DefineReferenced \/ DefineAgain
    BY <1>1 DEF OneSymbol, ReferenceNew, ReferenceKnown, DefineUnmapped, DefineLocal
<1>3. CASE DefineNew
    BY <1>3, DefineNewAdds DEF DefineNew
<1>4. CASE DefineReferenced
    <2> DEFINE k == symbol_map[Sy.name]
    <2>1. /\ AtDefinition /\ Relocatable /\ k \in DOMAIN symbols
          /\ symbols' = [symbols EXCEPT ![k] = Relocated(Sy)]
        BY <1>4 DEF DefineReferenced, TableInv, Table
    <2> QED
        BY <2>1
<1>5. CASE DefineAgain
    <2> DEFINE k == symbol_map[Sy.name]
    <2>1. /\ AtDefinition /\ Relocatable /\ k \in DOMAIN symbols /\ UNCHANGED symbols
          /\ errors' = IF symbols[k] # Relocated(Sy) THEN errors + 1 ELSE errors
        BY <1>5 DEF DefineAgain, TableInv, Table
    <2>2. errors + 1 # errors
        BY DEF TypeInv, TypeOK
    <2>3. symbols[k] = Relocated(Sy)
        BY <2>1, <2>2
    <2> QED
        BY <2>1, <2>3
<1> QED
    BY <1>2, <1>3, <1>4, <1>5

LEMMA RelocatedFits ==
    ASSUME TypeInv, BytesRead, AtDefinition, Relocatable
    PROVE  Fits(Len(loaded), Sy, Relocated(Sy))
<1>1. /\ Sy \in Symbol /\ pc = "symbols" /\ Relocated(Sy).type = Sy.type
    BY ItemTypes, DefinitionKept DEF AtDefinition, AtSymbol, TypeInv
<1>2. ASSUME Sy.type = "ABS" PROVE Relocated(Sy).offset = Sy.offset
    BY <1>1, <1>2 DEF Relocated, Symbol
<1>3. ASSUME Sy.type = "REL"
      PROVE  \E base \in Nat : /\ Relocated(Sy).offset = Sy.offset + base
                               /\ Part(Len(loaded), Sy.section, Relocated(Sy).section, base)
    <2>1. PICK v : v = remap_section[Sy.section]
        OBVIOUS
    <2>2. Relocated(Sy).offset = Sy.offset + Base(v) /\ Relocated(Sy).section = v
        BY <1>1, <1>3, <2>1 DEF Relocated, Symbol
    <2>3. Base(v) \in Nat /\ Part(Len(loaded), Sy.section, v, Base(v))
        BY <1>1, <1>3, <2>1, PartBegins DEF Relocatable
    <2> QED
        BY <2>2, <2>3
<1> QED
    BY <1>1, <1>2, <1>3 DEF Fits

LEMMA NextDefinitions ==
    ASSUME TypeInv, TableInv, NowReading, BytesRead, DefinitionsInv, [Next]_vars
    PROVE  DefinitionsInv'
<1> SUFFICES ASSUME errors' = 0, pc' \notin {"simplify", "linked", "aborted"},
                    NEW b, NEW k, Seen(b, k)', NEW s, s = loaded'[b].syms[k], IsGlobal(s)
             PROVE  Kept(b, s)'
    BY DEF DefinitionsInv, IsGlobal
<1>1. /\ errors = 0 /\ pc \notin {"linked", "aborted"}
      /\ UNCHANGED symbols \/ pc # "generate_end"
      /\ pc # "simplify" \/ UNCHANGED vars
    <2>1. pc \notin {"linked", "aborted"}
        BY Endings DEF Final, vars
    <2>2. pc \in {"generate_end", "simplify"} => UNCHANGED vars
        BY PhaseOf DEF Next, Finish, Ended, Final, CheckUndefined, generate_end, simplify, Abort
    <2> QED
        BY <2>1, <2>2, ErrorsGrow DEF vars
<1>2. s.type # "UND" /\ s.flags = Global
    BY DEF IsGlobal
<1>3. CASE Seen(b, k)
    <2>1. b \in DOMAIN loaded /\ loaded'[b] = loaded[b] /\ (b = Len(loaded) => pc # "sections")
        BY <1>3, SeenSteps DEF Seen
    <2>2. Kept(b, s)
        <3>1. pc # "simplify"
            BY <1>1 DEF vars
        <3> QED
            BY <1>1, <1>3, <2>1, <3>1 DEF DefinitionsInv
    <2> QED
        BY <1>1, <1>2, <2>1, <2>2, KeptStays
<1>4. CASE ~Seen(b, k)
    <2>1. /\ NextSymbolSeen /\ b = Len(loaded) /\ k = i /\ UNCHANGED loaded
          /\ b \in DOMAIN loaded /\ module = loaded[b]
        BY <1>4, SeenSteps
    <2>2. s = Sy /\ pc = "symbols"
        BY <2>1 DEF Sy, NextSymbolSeen, AtSymbol
    <2>3. OneSymbol
        <3>1. i + 1 # i
            BY DEF TypeInv, TypeOK
        <3> QED
            BY <2>1, <2>2, <3>1, PhaseOf DEF Next, NextSymbolSeen, Ended, Final, vars
    <2>4. /\ AtDefinition /\ Relocatable
          /\ \E g \in DOMAIN symbols' : symbols'[g] = Relocated(Sy)
        BY <1>1, <1>2, <2>1, <2>2, <2>3, DefinitionEntered
    <2>5. PICK T : T = Relocated(Sy)
        OBVIOUS
    <2>6. Fits(b, s, T) /\ T.name = s.name
        BY <2>1, <2>2, <2>4, <2>5, RelocatedFits, DefinitionKept
    <2>7. Fits(b, s, T)'
        BY <2>1, <2>2, <2>6, FitsStays
    <2> QED
        BY <2>4, <2>5, <2>6, <2>7 DEF Kept
<1> QED
    BY <1>3, <1>4
(* Two definitions of a name are the same, or none of the bytes of the     *)
(* earlier one's place is there: it labelled the end of what its module    *)
(* put into the section.                                                   *)
Differ(a, s, t) ==
    \/ s.type # t.type
    \/ s.type = "ABS" /\ s.offset # t.offset
    \/ s.type = "REL" /\ Placed(a, s.section, s.offset) # {}

Unique ==
    \A a, b \in DOMAIN loaded : a < b =>
        \A j \in DOMAIN loaded[a].syms, k \in DOMAIN loaded[b].syms :
            /\ loaded[a].syms[j].name = loaded[b].syms[k].name
            /\ IsGlobal(loaded[a].syms[j]) /\ IsGlobal(loaded[b].syms[k])
            => ~Differ(a, loaded[a].syms[j], loaded[b].syms[k])

DuplicateInv ==
    /\ DefinitionsInv
    /\ errors = 0 /\ pc \in {"simplify", "linked"} => Unique

LEMMA FitBoth ==
    ASSUME TypeInv, pc # "linked", NEW a \in DOMAIN loaded, NEW b \in DOMAIN loaded, a < b,
           NEW s \in Symbol, NEW t \in Symbol, NEW T, Fits(a, s, T), Fits(b, t, T)
    PROVE  ~Differ(a, s, t)
<1>1. s.type = t.type
    BY DEF Fits
<1>2. s.type = "ABS" => s.offset = t.offset
    BY <1>1 DEF Fits
<1>3. ASSUME s.type = "REL", Placed(a, s.section, s.offset) # {}
      PROVE  FALSE
    <2>1. PICK base \in Nat : /\ T.offset = s.offset + base
                              /\ Part(a, s.section, T.section, base)
        BY <1>3 DEF Fits
    <2>2. PICK above \in Nat : /\ T.offset = t.offset + above
                               /\ Part(b, t.section, T.section, above)
        BY <1>1, <1>3 DEF Fits
    <2>3. PICK w, p : /\ w \in DOMAIN sections /\ p \in DOMAIN sections[w].data
                      /\ sections[w].data[p]
                             = [by |-> a, section |-> s.section, at |-> s.offset]
        BY <1>3 DEF Placed
    <2>4. /\ w = T.section /\ base + s.offset < p /\ p <= above
        BY <2>1, <2>2, <2>3 DEF Part
    <2>5. s.offset \in Nat /\ t.offset \in Nat /\ p \in Nat
        <3>1. sections[w] \in Section
            BY <2>3 DEF TypeInv, TypeOK
        <3>2. sections[w].data \in Seq(Byte)
            BY <3>1, SectionParts
        <3> QED
            BY <2>3, <3>2 DEF Symbol
    <2> QED
        BY <2>1, <2>2, <2>4, <2>5
<1> QED
    BY <1>1, <1>2, <1>3 DEF Differ

LEMMA UniqueSoFar ==
    ASSUME TypeInv, TableInv, DefinitionsInv, errors = 0,
           pc \notin {"sections", "symbols", "simplify", "linked", "aborted"}
    PROVE  Unique
<1> SUFFICES ASSUME NEW a \in DOMAIN loaded, NEW b \in DOMAIN loaded, a < b,
                    NEW j \in DOMAIN loaded[a].syms, NEW k \in DOMAIN loaded[b].syms,
                    NEW s, s = loaded[a].syms[j], NEW t, t = loaded[b].syms[k],
                    s.name = t.name, IsGlobal(s), IsGlobal(t)
             PROVE  ~Differ(a, s, t)
    BY DEF Unique
<1>1. Seen(a, j) /\ Seen(b, k)
    BY DEF Seen
<1>2. Kept(a, s) /\ Kept(b, t)
    BY <1>1 DEF DefinitionsInv
<1>3. PICK g \in DOMAIN symbols : symbols[g].name = s.name /\ Fits(a, s, symbols[g])
    BY <1>2 DEF Kept
<1>4. PICK h \in DOMAIN symbols : symbols[h].name = t.name /\ Fits(b, t, symbols[h])
    BY <1>2 DEF Kept
<1>5. g = h
    BY <1>3, <1>4 DEF TableInv, Table
<1>6. s \in Symbol /\ t \in Symbol
    <2>1. loaded[a].syms \in Seq(Symbol) /\ loaded[b].syms \in Seq(Symbol)
        <3>1. loaded[a] \in Module /\ loaded[b] \in Module
            BY DEF TypeInv, TypeOK
        <3> QED
            BY <3>1, ModuleParts
    <2> QED
        BY <2>1
<1> QED
    BY <1>3, <1>4, <1>5, <1>6, FitBoth

(* generate_end() and simplify() leave the bytes where they are.           *)
LEMMA UniqueStays ==
    ASSUME Unique, UNCHANGED loaded, DOMAIN sections' = DOMAIN sections,
           \A v \in DOMAIN sections : sections'[v].data = sections[v].data
    PROVE  Unique'
<1>1. \A a, section, at : Placed(a, section, at)' = Placed(a, section, at)
    BY DEF Placed
<1>2. \A a, s, t : Differ(a, s, t)' <=> Differ(a, s, t)
    BY <1>1 DEF Differ
<1> QED
    BY <1>2 DEF Unique, IsGlobal

LEMMA NextDuplicates ==
    ASSUME TypeInv, TableInv, NowReading, BytesRead, DuplicateInv, [Next]_vars
    PROVE  DuplicateInv'
<1>1. DefinitionsInv'
    BY NextDefinitions DEF DuplicateInv
<1>2. ASSUME errors' = 0, pc' \in {"simplify", "linked"}
      PROVE  Unique'
    <2>1. errors = 0
        BY <1>2, ErrorsGrow
    <2>2. CASE UNCHANGED vars
        <3>1. UNCHANGED << pc, loaded, sections >>
            BY <2>2 DEF vars
        <3> QED
            BY <1>2, <2>1, <3>1, UniqueStays DEF DuplicateInv
    <2>3. CASE generate_end
        <3>1. pc = "generate_end" /\ UNCHANGED << loaded, sections >>
            BY <2>3 DEF generate_end, frame
        <3> QED
            BY <2>1, <3>1, UniqueSoFar, UniqueStays DEF DuplicateInv
    <2>4. CASE simplify /\ pc' = "linked"
        <3>1. pc = "simplify"
            BY <2>4 DEF simplify
        <3> QED
            BY <2>1, <2>4, <3>1, SimplifiedSections, UniqueStays DEF DuplicateInv
    <2>5. UNCHANGED vars \/ generate_end \/ (simplify /\ pc' = "linked")
        <3>1. CASE pc' = "linked"
            BY <3>1, Endings
        <3>2. CASE pc' = "simplify"
            <4>1. OneSection \/ OneSymbol \/ OneRecord => pc' # "simplify"
                <5>1. OneSection => pc' # "simplify"
                    BY DEF OneSection, SectionPredefined, SectionNew, SectionKnown,
                           SectionsDone, AtSection, NextItem, Abort
                <5>2. OneSymbol => pc' # "simplify"
                    BY SymbolCases DEF AtSymbol, NextItem, SymbolsDone, Abort
                <5>3. OneRecord => pc' # "simplify"
                    BY DEF OneRecord, RecordData, RecordSection, RecordOrg, RecordSkipped,
                           RecordExpression, RecordsDone, AtRecord, NextRecord, NextItem, Abort
                <5> QED
                    BY <5>1, <5>2, <5>3
            <4>2. OneFile => pc' # "simplify"
                BY DEF OneFile, FileRefused, FileIsLibrary, FileOpened, FileModule, FileDone,
                       FilesDone, AtFile, Enter
            <4>3. OneLibrary => pc' # "simplify"
                BY DEF OneLibrary, LibraryMissing, LibraryNowhere, LibraryOpened,
                       LibraryModule, LibraryRound, LibrariesDone, NextLibrary, AtLibrary, Enter
            <4>4. CheckUndefined \/ simplify => pc' # "simplify"
                BY DEF CheckUndefined, simplify, Abort
            <4> QED
                BY <3>2, <4>1, <4>2, <4>3, <4>4 DEF Next, Finish, Ended
        <3> QED
            BY <1>2, <3>1, <3>2
    <2> QED
        BY <2>2, <2>3, <2>4, <2>5
<1> QED
    BY <1>1, <1>2 DEF DuplicateInv

(* Two modules that define one name at two places are reported: by the     *)
(* comparison with the first definition, which is of the linker's own      *)
(* offsets, after the sections are merged, and not of the modules'.        *)
THEOREM DuplicatesAreReported == Spec => []DuplicateReported
<1>1. Init => BytesRead /\ DuplicateInv
    <2> SUFFICES ASSUME Init PROVE BytesRead /\ DuplicateInv
        OBVIOUS
    <2>1. /\ \A v \in DOMAIN sections : sections[v].data = << >>
          /\ loaded = << >> /\ pc = "file"
        BY DEF Init, PredefinedSection
    <2> QED
        BY <2>1 DEF BytesRead, DuplicateInv, DefinitionsInv, Seen
<1>2. TypeInv /\ TableInv /\ NowReading /\ BytesRead /\ DuplicateInv /\ [Next]_vars
          => BytesRead' /\ DuplicateInv'
    BY BytesReadStays, NextDuplicates
<1>3. TypeInv /\ TableInv /\ DuplicateInv => DuplicateReported
    <2> SUFFICES ASSUME TypeInv, TableInv, DuplicateInv PROVE DuplicateReported
        OBVIOUS
    <2>1. CASE errors = 0 /\ pc # "aborted" /\ BetweenModules
        <3>1. Unique
            BY <2>1, UniqueSoFar DEF DuplicateInv, BetweenModules
        <3> QED
            BY <3>1 DEF DuplicateReported, Unique, Differ, IsGlobal
    <2>2. CASE errors # 0 \/ pc = "aborted" \/ ~BetweenModules
        <3>1. errors # 0 => errors > 0
            BY DEF TypeInv, TypeOK
        <3> QED
            BY <2>2, <3>1 DEF DuplicateReported
    <2> QED
        BY <2>1, <2>2
<1> QED
    BY <1>1, <1>2, <1>3, InputStaysOpen, TableAlways, ReadingNow, PTL DEF Spec
-----------------------------------------------------------------------------
(* Where a reference lands: the two things that are asked of the modules. *)

(* A module's own sections have names of their own.                        *)
OwnSections ==
    \A b \in DOMAIN loaded : \A j, k \in DOMAIN loaded[b].secs :
        LET s == loaded[b].secs[j]
            t == loaded[b].secs[k]
        IN  s.number \notin Predefined /\ t.number \notin Predefined /\ s.name = t.name
                => s.number = t.number

(* The names of the symbols that the linker makes itself.                  *)
LinkerNames == InitialNames \cup SectionSymbols

(* No module defines one of them.                                          *)
OwnNames == \A b \in DOMAIN loaded : \A n \in LinkerNames : ~Defines(loaded[b], n)

(* Where the numbers of sections lead. *)

(* Sections of two names are apart, and apart from the predefined ones; and *)
(* the numbers of a module lead to the sections of their names.            *)
SectionsApart ==
    /\ \A n \in DOMAIN section_map : section_map[n] \notin Predefined
    /\ \A m, n \in DOMAIN section_map : section_map[m] = section_map[n] => m = n

NumberLeads(n) ==
    IF n \in Predefined THEN remap_section[n] = n
    ELSE \E k \in DOMAIN module.secs :
             /\ module.secs[k].number = n /\ module.secs[k].name \in DOMAIN section_map
             /\ remap_section[n] = section_map[module.secs[k].name]

NumbersInv ==
    /\ SectionsApart
    /\ ReadingModule => \A n \in DOMAIN remap_section : NumberLeads(n)

LEMMA NextNumbers ==
    ASSUME TypeInv, NumbersInv, [Next]_vars
    PROVE  NumbersInv'
<1>0. /\ section_map \in [DOMAIN section_map -> DOMAIN sections]
      /\ Predefined \subseteq DOMAIN sections
    BY DEF TypeInv, TypeOK
<1>1. ASSUME UNCHANGED << section_map, remap_section, module >>, ReadingModule' => ReadingModule
      PROVE  NumbersInv'
    BY <1>1 DEF NumbersInv, SectionsApart, NumberLeads
<1>2. CASE \E m : Enter(m) /\ UNCHANGED section_map
    <2>1. remap_section' = IdentityRemap /\ UNCHANGED section_map
        BY <1>2 DEF Enter
    <2> QED
        BY <2>1 DEF NumbersInv, SectionsApart, NumberLeads, IdentityRemap
<1>3. CASE OneSection
    <2>0. pc = "sections" /\ ReadingModule
        BY <1>3, PhaseOf DEF ReadingModule
    <2>1. CASE SectionPredefined \/ SectionsDone \/ Abort
        BY <1>1, <2>0, <2>1 DEF SectionPredefined, SectionsDone, Abort, NextItem, frame, globals
    <2>2. CASE SectionNew \/ (SectionKnown /\ ~Abort)
        <3> DEFINE v == IF SectionNew THEN Len(sections) + 1 ELSE section_map[Sec.name]
        <3>1. /\ i \in DOMAIN module.secs /\ Sec.number \notin Predefined
              /\ UNCHANGED module
              /\ remap_section' = Bind(remap_section, Sec.number, v)
            BY <2>2 DEF SectionNew, SectionKnown, AtSection, NextItem
        <3>2. /\ DOMAIN section_map' = DOMAIN section_map \cup {Sec.name}
              /\ section_map'[Sec.name] = v
              /\ \A n \in DOMAIN section_map : section_map'[n] = section_map[n]
              /\ SectionsApart'
            <4>1. CASE SectionNew
                <5>1. /\ section_map' = Bind(section_map, Sec.name, v) /\ v = Len(sections) + 1
                      /\ Sec.name \notin DOMAIN section_map
                    BY <4>1 DEF SectionNew
                <5>2. v \notin DOMAIN sections
                    <6>1. sections \in Seq(Section)
                        BY <2>0 DEF TypeInv, TypeOK
                    <6> QED
                        BY <5>1, <6>1
                <5> HIDE DEF v
                <5>3. /\ DOMAIN section_map' = DOMAIN section_map \cup {Sec.name}
                      /\ section_map'[Sec.name] = v
                      /\ \A n \in DOMAIN section_map : section_map'[n] = section_map[n]
                    BY <5>1 DEF Bind
                <5>4. /\ \A n \in DOMAIN section_map : section_map[n] \in DOMAIN sections
                      /\ v \notin Predefined
                    BY <1>0, <5>2
                <5>5. SectionsApart'
                    BY <5>2, <5>3, <5>4 DEF NumbersInv, SectionsApart
                <5> QED
                    BY <5>3, <5>5
            <4>2. CASE ~SectionNew
                <5>1. UNCHANGED section_map /\ Sec.name \in DOMAIN section_map
                    BY <2>2, <4>2 DEF SectionKnown
                <5> QED
                    BY <4>2, <5>1 DEF NumbersInv, SectionsApart
            <4> QED
                BY <4>1, <4>2
        <3> HIDE DEF v
        <3>3. ASSUME NEW n \in DOMAIN remap_section'
              PROVE  NumberLeads(n)'
            <4>1. CASE n = Sec.number
                <5>1. remap_section'[n] = v /\ module'.secs[i] = Sec /\ i \in DOMAIN module'.secs
                    BY <3>1, <4>1 DEF Bind, Sec
                <5> QED
                    BY <3>1, <3>2, <4>1, <5>1 DEF NumberLeads
            <4>2. CASE n # Sec.number
                <5>1. n \in DOMAIN remap_section /\ remap_section'[n] = remap_section[n]
                    BY <3>1, <4>2 DEF Bind
                <5>2. NumberLeads(n)
                    BY <2>0, <5>1 DEF NumbersInv
                <5> QED
                    BY <3>1, <3>2, <5>1, <5>2 DEF NumberLeads
            <4> QED
                BY <4>1, <4>2
        <3> QED
            BY <3>2, <3>3 DEF NumbersInv
    <2> QED
        BY <1>3, <2>1, <2>2 DEF OneSection
<1>4. CASE OneSymbol
    BY <1>1, <1>4, PhaseOf, SymbolCases DEF NextItem, Abort, SymbolsDone, frame, globals,
        ReadingModule
<1>5. CASE OneRecord
    BY <1>1, <1>5, PhaseOf DEF OneRecord, RecordData, RecordSection, RecordOrg, RecordSkipped,
        RecordExpression,
           RecordsDone, NextRecord, NextItem, Abort, frame, globals, ReadingModule
<1>6. CASE OneFile
    <2>1. CASE FileModule
        BY <1>2, <2>1 DEF FileModule, globals
    <2>2. CASE ~FileModule
        BY <1>1, <1>6, <2>2 DEF OneFile, FileRefused, FileIsLibrary, FileOpened, FileDone,
            FilesDone,
               AtFile, frame, globals, ReadingModule
    <2> QED
        BY <2>1, <2>2
<1>7. CASE OneLibrary
    <2>1. CASE LibraryModule /\ \E m : Enter(m)
        BY <1>2, <2>1 DEF LibraryModule, globals
    <2>2. CASE LibraryModule /\ ~\E m : Enter(m)
        BY <1>1, <2>2 DEF LibraryModule, frame, globals, ReadingModule
    <2>3. CASE ~LibraryModule
        BY <1>1, <1>7, <2>3 DEF OneLibrary, LibraryMissing, LibraryNowhere, LibraryOpened,
            LibraryRound,
               LibrariesDone, AtLibrary, NextLibrary, frame, globals, ReadingModule
    <2> QED
        BY <2>1, <2>2, <2>3
<1>8. CASE Finish
    BY <1>1, <1>8 DEF Finish, CheckUndefined, generate_end, simplify, Abort, frame, globals,
        ReadingModule
<1>9. CASE Ended \/ UNCHANGED vars
    BY <1>1, <1>9 DEF Ended, vars, ReadingModule
<1> QED
    BY <1>3, <1>4, <1>5, <1>6, <1>7, <1>8, <1>9 DEF Next

LEMMA NumbersAlways == Spec => []NumbersInv
<1>1. Init => NumbersInv
    BY DEF Init, NumbersInv, SectionsApart, ReadingModule
<1> QED
    BY <1>1, NextNumbers, InputStaysOpen, PTL DEF Spec

(* Two numbers of a module lead to two sections.                           *)
LEMMA NumbersApart ==
    ASSUME NumbersInv, NowReading, OwnSections, ReadingModule, Len(loaded) \in DOMAIN loaded,
           NEW m \in DOMAIN remap_section, NEW n \in DOMAIN remap_section,
           remap_section[m] = remap_section[n]
    PROVE  m = n
<1>1. module = loaded[Len(loaded)] /\ NumberLeads(m) /\ NumberLeads(n) /\ SectionsApart
    BY DEF NumbersInv, NowReading
<1>2. CASE m \in Predefined \/ n \in Predefined
    BY <1>1, <1>2 DEF NumberLeads, SectionsApart
<1>3. CASE m \notin Predefined /\ n \notin Predefined
    <2>1. PICK j \in DOMAIN module.secs :
              /\ module.secs[j].number = m /\ module.secs[j].name \in DOMAIN section_map
              /\ remap_section[m] = section_map[module.secs[j].name]
        BY <1>1, <1>3 DEF NumberLeads
    <2>2. PICK k \in DOMAIN module.secs :
              /\ module.secs[k].number = n /\ module.secs[k].name \in DOMAIN section_map
              /\ remap_section[n] = section_map[module.secs[k].name]
        BY <1>1, <1>3 DEF NumberLeads
    <2>3. module.secs[j].name = module.secs[k].name
        BY <1>1, <2>1, <2>2 DEF SectionsApart
    <2> QED
        BY <1>1, <1>3, <2>1, <2>2, <2>3 DEF OwnSections
<1> QED
    BY <1>2, <1>3
-----------------------------------------------------------------------------
(* Where a local section went. *)

(* The bytes of a local section of module b are in section v, one after    *)
(* the other, and the first is at `base'. While the module is read nothing *)
(* else is added there.                                                    *)
Whole(b, section, v, base) ==
    /\ \A w \in DOMAIN sections : \A p \in DOMAIN sections[w].data :
           LET x == sections[w].data[p]
           IN  x.by = b /\ x.section = section => w = v /\ p = base + x.at + 1
    /\ b = Len(loaded) /\ pc \in {"symbols", "records"} =>
           /\ section \in DOMAIN remap_section /\ v = remap_section[section]
           /\ base <= Len(sections[v].data)
           /\ \A p \in DOMAIN sections[v].data :
                  base < p <=> /\ sections[v].data[p].by = b
                               /\ sections[v].data[p].section = section

(* What was read of the section that is read is what is beyond the base.   *)
LEMMA ReadExactly ==
    ASSUME TypeInv, pc = "records", NEW v, v = current_section, NEW base \in Nat,
           Whole(Len(loaded), current, v, base)
    PROVE  /\ Len(sections[v].data) \in Nat /\ base <= Len(sections[v].data)
           /\ AlreadyRead = Len(sections[v].data) - base
<1>1. sections \in Seq(Section) /\ v \in DOMAIN sections
    BY DEF TypeInv, TypeOK, current_section
<1>2. PICK d : d = sections[v].data
    OBVIOUS
<1> DEFINE S == {k \in DOMAIN d : d[k].by = Len(loaded) /\ d[k].section = current}
<1>3. d \in Seq(Byte) /\ Len(d) \in Nat /\ DOMAIN d = 1 .. Len(d)
    <2>1. sections[v] \in Section
        BY <1>1
    <2>2. d \in Seq(Byte)
        BY <1>2, <2>1, SectionParts
    <2> QED
        BY <2>2
<1>4. base <= Len(d) /\ \A p \in DOMAIN d : base < p <=> p \in S
    BY <1>2 DEF Whole
<1>5. AlreadyRead = Cardinality(S)
    BY <1>2 DEF AlreadyRead
<1>6. S \subseteq DOMAIN d
    OBVIOUS
<1> HIDE DEF S
<1>7. PICK a, z : a = base + 1 /\ z = Len(d)
    OBVIOUS
<1>8. S = a .. z
    <2>1. ASSUME NEW p \in S PROVE p \in a .. z
        <3>1. p \in 1 .. Len(d) /\ base < p
            BY <1>3, <1>4, <1>6, <2>1
        <3> QED
            BY <1>3, <1>7, <3>1
    <2>2. ASSUME NEW p \in a .. z PROVE p \in S
        <3>1. p \in 1 .. Len(d) /\ base < p
            BY <1>3, <1>7, <2>2
        <3> QED
            BY <1>3, <1>4, <3>1
    <2> QED
        BY <2>1, <2>2
<1>9. Cardinality(a .. z) = Len(d) - base
    <2>1. a \in Int /\ z \in Int
        BY <1>3, <1>7
    <2>2. Cardinality(a .. z) = IF a > z THEN 0 ELSE z - a + 1
        BY <2>1, FS_Interval
    <2> QED
        BY <1>3, <1>4, <1>7, <2>1, <2>2
<1> QED
    BY <1>2, <1>3, <1>4, <1>5, <1>8, <1>9

(* A step does not move it. *)
LEMMA WholeStays ==
    ASSUME TypeInv, NowReading, NumbersInv, OwnSections, [Next]_vars,
           pc' \notin {"aborted", "linked"},
           NEW b \in DOMAIN loaded, b = Len(loaded) => pc # "sections",
           NEW section, NEW v, NEW base \in Nat, Whole(b, section, v, base)
    PROVE  Whole(b, section, v, base)'
<1>0. /\ loaded \in Seq(Module) /\ Len(loaded) \in Nat /\ DOMAIN loaded = 1 .. Len(loaded)
      /\ b \in Nat /\ b <= Len(loaded)
    <2>1. loaded \in Seq(Module)
        BY DEF TypeInv, TypeOK
    <2> QED
        BY <2>1
<1>1. \A w \in DOMAIN sections : pc # "linked" => Len(sections[w].data) \in Nat
    <2> SUFFICES ASSUME NEW w \in DOMAIN sections, pc # "linked"
                 PROVE  Len(sections[w].data) \in Nat
        OBVIOUS
    <2>1. sections[w] \in Section
        BY DEF TypeInv, TypeOK
    <2> QED
        BY <2>1, SectionParts
<1>2. ASSUME NEW w \in DOMAIN sections', NEW D, D = sections'[w].data,
             NEW p \in DOMAIN D, NEW x, x = D[p], x.by = b, x.section = section
      PROVE  w = v /\ p = base + x.at + 1
    <2>1. CASE w \in DOMAIN sections /\ p \in DOMAIN sections[w].data /\ x = sections[w].data[p]
        BY <1>2, <2>1 DEF Whole
    <2>2. CASE /\ Adding /\ w = current_section /\ w \in DOMAIN sections
               /\ \E q \in 1 .. Rec.n : p = Len(sections[w].data) + q /\ x = NewByte(q)
        <3>1. pc = "records" /\ Rec.n \in Nat
            BY <2>2, RecordsAdd DEF Record
        <3>2. PICK q \in 1 .. Rec.n : p = Len(sections[w].data) + q /\ x = NewByte(q)
            BY <2>2
        <3>3. /\ x.by = Len(loaded) /\ x.section = current /\ x.at = AlreadyRead + q - 1
              /\ q \in Nat
            BY <3>1, <3>2 DEF NewByte
        <3>4. b = Len(loaded) /\ section = current
            BY <1>2, <3>3
        <3>5. v = current_section
            BY <3>1, <3>4 DEF Whole, current_section
        <3>6. /\ Len(sections[v].data) \in Nat
              /\ AlreadyRead = Len(sections[v].data) - base
            BY <3>1, <3>4, <3>5, ReadExactly
        <3> QED
            BY <2>2, <3>2, <3>3, <3>5, <3>6
    <2> QED
        BY <1>2, <2>1, <2>2, BytesAdded
<1>3. ASSUME b = Len(loaded'), pc' \in {"symbols", "records"}
      PROVE  /\ section \in DOMAIN remap_section' /\ v = remap_section'[section]
             /\ base <= Len(sections'[v].data)
             /\ \A p \in DOMAIN sections'[v].data :
                    base < p <=> /\ sections'[v].data[p].by = b
                                 /\ sections'[v].data[p].section = section
    <2>1. /\ b = Len(loaded) /\ pc \in {"symbols", "records"} /\ UNCHANGED remap_section
        BY <1>3, ReadingKeeps
    <2>2. /\ section \in DOMAIN remap_section /\ v = remap_section[section]
          /\ base <= Len(sections[v].data) /\ v \in DOMAIN sections
          /\ sections \in Seq(Section)
          /\ \A p \in DOMAIN sections[v].data :
                 base < p <=> /\ sections[v].data[p].by = b
                              /\ sections[v].data[p].section = section
        BY <2>1 DEF Whole, TypeInv, TypeOK
    <2>3. CASE Same(v)
        BY <2>1, <2>2, <2>3 DEF Same
    <2>4. CASE ~Same(v)
        <3>1. Adding /\ v = current_section /\ pc' # "aborted"
            <4>1. Adding
                BY <1>3, <2>2, <2>4, SectionsKeep DEF Adding
            <4> QED
                BY <1>3, <2>2, <2>4, <4>1, RecordsAdd
        <3>2. /\ sections'[v].data = sections[v].data \o Bytes(Rec.n)
              /\ pc = "records" /\ Rec \in Record
            BY <3>1, RecordsAdd
        <3>3. section = current
            <4>1. current \in DOMAIN remap_section /\ ReadingModule
                BY <3>2 DEF TypeInv, TypeOK, ReadingModule
            <4> QED
                BY <2>1, <2>2, <3>1, <4>1, NumbersApart DEF current_section
        <3>4. PICK d, n : d = sections[v].data /\ n = Bytes(Rec.n)
            OBVIOUS
        <3>5. /\ d \in Seq(Byte) /\ n \in Seq(Byte)
              /\ \A k \in 1 .. Len(n) : n[k].by = b /\ n[k].section = section
            <4>1. sections[v] \in Section /\ Rec.n \in Nat
                BY <2>2, <3>2 DEF Record
            <4>2. d \in Seq(Byte)
                BY <3>4, <4>1, SectionParts
            <4> QED
                BY <2>1, <3>2, <3>3, <3>4, <4>1, <4>2, BytesParts
        <3>6. PICK c : c = d \o n
            OBVIOUS
        <3>7. /\ Len(c) = Len(d) + Len(n) /\ Len(d) \in Nat /\ Len(n) \in Nat
              /\ DOMAIN d = 1 .. Len(d) /\ DOMAIN c = 1 .. Len(d) + Len(n)
            BY <3>5, <3>6, AppendedParts
        <3>8. base <= Len(c)
            <4>1. base <= Len(d)
                BY <2>2, <3>4
            <4>2. \A x, y, z : base <= x /\ x \in Nat /\ y \in Nat /\ z = x + y => base <= z
                OBVIOUS
            <4> QED
                BY <3>7, <4>1, <4>2, Zenon
        <3>9. ASSUME NEW p \in DOMAIN c
              PROVE  base < p <=> c[p].by = b /\ c[p].section = section
            <4>1. CASE p \in DOMAIN d /\ c[p] = d[p]
                BY <2>2, <3>4, <4>1
            <4>2. CASE \E q \in 1 .. Len(n) : p = Len(d) + q /\ c[p] = n[q]
                <5>1. PICK q \in 1 .. Len(n) : p = Len(d) + q /\ c[p] = n[q]
                    BY <4>2
                <5>2. base < p
                    BY <2>2, <3>4, <3>7, <5>1
                <5> QED
                    BY <3>5, <5>1, <5>2
            <4> QED
                BY <3>5, <3>6, <4>1, <4>2, AddedByte
        <3> QED
            BY <2>1, <2>2, <3>2, <3>4, <3>6, <3>8, <3>9
    <2> QED
        BY <2>3, <2>4
<1> QED
    BY <1>2, <1>3 DEF Whole

(* A definition is read before the bytes of its section.                   *)
LEMMA WholeBegins ==
    ASSUME TypeInv, BytesRead, pc = "symbols", NEW section \in DOMAIN remap_section,
           NEW v, v = remap_section[section]
    PROVE  Base(v) \in Nat /\ Whole(Len(loaded), section, v, Base(v))
<1>1. sections \in Seq(Section) /\ v \in DOMAIN sections
    BY DEF TypeInv, TypeOK
<1>2. \A w \in DOMAIN sections :
          /\ Len(sections[w].data) \in Nat
          /\ DOMAIN sections[w].data = 1 .. Len(sections[w].data)
    <2> SUFFICES ASSUME NEW w \in DOMAIN sections, NEW d, d = sections[w].data
                 PROVE  Len(d) \in Nat /\ DOMAIN d = 1 .. Len(d)
        OBVIOUS
    <2>1. sections[w] \in Section
        BY <1>1
    <2>2. d \in Seq(Byte)
        BY <2>1, SectionParts
    <2> QED
        BY <2>2
<1>3. Len(loaded) \in Nat /\ \A k \in DOMAIN loaded : k \in Nat
    <2>1. loaded \in Seq(Module)
        BY DEF TypeInv, TypeOK
    <2> QED
        BY <2>1
<1>4. \A w \in DOMAIN sections : \A p \in DOMAIN sections[w].data :
          /\ sections[w].data[p].by # Len(loaded)
          /\ ~(Len(sections[w].data) < p)
    BY <1>2, <1>3 DEF BytesRead
<1> QED
    BY <1>1, <1>2, <1>4 DEF Whole, Base

-----------------------------------------------------------------------------
(* Where the linker's symbols lead. *)

(* The operand x is the place, or the value, of the module's definition s. *)
Lands(b, s, x) ==
    /\ s.type \in {"ABS", "REL"}
    /\ s.type = "ABS" => x = Val(s.offset)
    /\ s.type = "REL" =>
           \E base \in Nat : /\ x = Loc(x.section, s.offset + base)
                             /\ Whole(b, s.section, x.section, base)

(* Symbol k of module b is the first definition of n that was read.        *)
Leads(b, k, n) ==
    /\ Seen(b, k) /\ IsGlobal(loaded[b].syms[k]) /\ loaded[b].syms[k].name = n
    /\ \A a \in DOMAIN loaded : \A j \in DOMAIN loaded[a].syms :
           IsGlobal(loaded[a].syms[j]) /\ loaded[a].syms[j].name = n
               => b < a \/ (b = a /\ k <= j)

LandsFirst(n, x) == \E b, k : Leads(b, k, n) /\ Lands(b, loaded[b].syms[k], x)

(* What one_module() and simplify() make of the linker's symbol T.         *)
OperandOf(T) ==
    CASE T.type = "UND" -> Sym(T.section)
      [] T.type = "REL" -> Loc(T.section, T.offset)
      [] T.type = "ABS" -> Val(T.offset)

TableLands ==
    \A g \in DOMAIN symbols :
        symbols[g].type # "UND" /\ symbols[g].name \notin LinkerNames =>
            LandsFirst(symbols[g].name, OperandOf(symbols[g]))

(* The operand x that a reference to symbol s of module b was turned into. *)
SymbolLands(b, s, x) ==
    IF s.type = "UND" THEN x.tag = "SYM" \/ s.name \in LinkerNames \/ LandsFirst(s.name, x)
                      ELSE Lands(b, s, x)

LocalsLand ==
    pc \in {"symbols", "records"} =>
        \A k \in DOMAIN local_symbols :
            SymbolLands(Len(loaded), module.syms[k], OperandOf(local_symbols[k]))

Begun(b) == b \in DOMAIN loaded /\ (b = Len(loaded) => pc # "sections")

(* The operand x that the operand t of an expression was turned into.      *)
OperandLands(b, t, x) ==
    /\ t.tag = "SYM" => /\ t.section \in DOMAIN loaded[b].syms
                        /\ SymbolLands(b, loaded[b].syms[t.section], x)
    /\ t.tag \notin {"SYM", "LOC"} => x = t

Landing(e) ==
    /\ Begun(e.by) /\ DOMAIN e.stack = DOMAIN e.source
    /\ \A k \in DOMAIN e.source : OperandLands(e.by, e.source[k], e.stack[k])

ExpressionsLand ==
    \A v \in DOMAIN sections : \A j \in DOMAIN sections[v].expressions :
        Landing(sections[v].expressions[j])

EndNamed == \A k \in Ends : k # 0 => k \in DOMAIN symbols /\ symbols[k].name \in LinkerNames

Landed == TableLands /\ LocalsLand /\ ExpressionsLand /\ EndNamed

(* The modules that a step can see.                                        *)
LEMMA LoadedGrows ==
    ASSUME TypeInv, NowReading, [Next]_vars, pc' # "aborted"
    PROVE  /\ \A b \in DOMAIN loaded : b \in DOMAIN loaded' /\ loaded'[b] = loaded[b]
           /\ \A b \in DOMAIN loaded : Begun(b) => Begun(b)'
           /\ \A b \in DOMAIN loaded' : b \in DOMAIN loaded \/ \A a \in DOMAIN loaded : a < b
           /\ LinkerNames \subseteq LinkerNames'
           /\ OwnSections' => OwnSections
           /\ OwnNames' => OwnNames
<1>1. \A b \in DOMAIN loaded : b \in DOMAIN loaded' /\ loaded'[b] = loaded[b]
    BY SeenSteps
<1>2. loaded \in Seq(Module) /\ Len(loaded) \in Nat /\ DOMAIN loaded = 1 .. Len(loaded)
    <2>1. loaded \in Seq(Module)
        BY DEF TypeInv, TypeOK
    <2> QED
        BY <2>1
<1>3. LinkerNames \subseteq LinkerNames'
    BY <1>1, SectionSymbolsGrow DEF LinkerNames, InitialNames
<1>4. CASE \E m : Enter(m)
    <2>1. PICK m : loaded' = Append(loaded, m)
        BY <1>4 DEF Enter
    <2>2. Len(loaded') = Len(loaded) + 1 /\ DOMAIN loaded' = DOMAIN loaded \cup {Len(loaded) + 1}
        BY <1>2, <2>1
    <2>3. \A b \in DOMAIN loaded : b # Len(loaded') /\ b < Len(loaded) + 1
        BY <1>2, <2>2
    <2>4. \A b \in DOMAIN loaded : Begun(b) => Begun(b)'
        BY <1>1, <2>3 DEF Begun
    <2> QED
        BY <1>1, <1>3, <2>2, <2>3, <2>4 DEF OwnSections, OwnNames, LinkerNames
<1>5. CASE ~\E m : Enter(m)
    <2>1. UNCHANGED loaded /\ (pc' = "sections" => pc = "sections")
        BY <1>5, Flow DEF Abort, AtSymbol
    <2> QED
        BY <1>1, <1>3, <2>1 DEF OwnSections, OwnNames, LinkerNames, Begun
<1> QED
    BY <1>4, <1>5

LEMMA LandsStays ==
    ASSUME TypeInv, NowReading, NumbersInv, OwnSections, [Next]_vars,
           pc' \notin {"aborted", "linked"},
           NEW b, Begun(b), NEW s, NEW x, Lands(b, s, x)
    PROVE  Lands(b, s, x)'
<1>1. s.type \in {"ABS", "REL"} /\ (s.type = "ABS" => x = Val(s.offset))
    BY DEF Lands
<1>2. ASSUME s.type = "REL"
      PROVE  \E base \in Nat : /\ x = Loc(x.section, s.offset + base)
                               /\ Whole(b, s.section, x.section, base)'
    <2>1. PICK base \in Nat : /\ x = Loc(x.section, s.offset + base)
                              /\ Whole(b, s.section, x.section, base)
        BY <1>2 DEF Lands
    <2>2. PICK section, v : section = s.section /\ v = x.section
        OBVIOUS
    <2>3. Whole(b, section, v, base)
        BY <2>1, <2>2
    <2>4. Whole(b, section, v, base)'
        BY <2>3, WholeStays DEF Begun
    <2> QED
        BY <2>1, <2>2, <2>4
<1> QED
    BY <1>1, <1>2 DEF Lands

LEMMA LandsFirstStays ==
    ASSUME TypeInv, NowReading, NumbersInv, OwnSections, [Next]_vars,
           pc' \notin {"aborted", "linked"},
           NEW n, NEW x, LandsFirst(n, x)
    PROVE  LandsFirst(n, x)'
<1>1. PICK b, k : Leads(b, k, n) /\ Lands(b, loaded[b].syms[k], x)
    BY DEF LandsFirst
<1>2. PICK s : s = loaded[b].syms[k]
    OBVIOUS
<1>3. Seen(b, k) /\ b \in DOMAIN loaded /\ Begun(b) /\ loaded'[b].syms[k] = s
    BY <1>1, <1>2, LoadedGrows DEF Leads, Seen, Begun
<1>4. Seen(b, k)'
    BY <1>3, SeenSteps
<1>5. Leads(b, k, n)'
    BY <1>1, <1>3, <1>4, LoadedGrows DEF Leads, IsGlobal
<1>6. Lands(b, s, x)'
    BY <1>1, <1>2, <1>3, LandsStays
<1> QED
    BY <1>3, <1>5, <1>6 DEF LandsFirst

LEMMA SymbolLandsStays ==
    ASSUME TypeInv, NowReading, NumbersInv, OwnSections, [Next]_vars,
           pc' \notin {"aborted", "linked"},
           NEW b, Begun(b), NEW s, NEW x, SymbolLands(b, s, x)
    PROVE  SymbolLands(b, s, x)'
<1>1. CASE s.type = "UND"
    <2>1. x.tag = "SYM" \/ s.name \in LinkerNames \/ LandsFirst(s.name, x)
        BY <1>1 DEF SymbolLands
    <2>2. PICK n : n = s.name
        OBVIOUS
    <2>3. LandsFirst(n, x) => LandsFirst(n, x)'
        BY LandsFirstStays
    <2> QED
        BY <1>1, <2>1, <2>2, <2>3, LoadedGrows DEF SymbolLands
<1>2. CASE s.type # "UND"
    BY <1>2, LandsStays DEF SymbolLands
<1> QED
    BY <1>1, <1>2

LEMMA LandingStays ==
    ASSUME TypeInv, NowReading, NumbersInv, OwnSections, [Next]_vars,
           pc' \notin {"aborted", "linked"}, NEW e, Landing(e)
    PROVE  Landing(e)'
<1>1. /\ Begun(e.by) /\ Begun(e.by)' /\ loaded'[e.by] = loaded[e.by]
      /\ DOMAIN e.stack = DOMAIN e.source
    BY LoadedGrows DEF Landing, Begun
<1>2. ASSUME NEW k \in DOMAIN e.source
      PROVE  OperandLands(e.by, e.source[k], e.stack[k])'
    <2>1. PICK b, t, x : b = e.by /\ t = e.source[k] /\ x = e.stack[k]
        OBVIOUS
    <2>2. OperandLands(b, t, x)
        BY <2>1 DEF Landing
    <2>3. PICK s : s = loaded[b].syms[t.section]
        OBVIOUS
    <2>4. SymbolLands(b, s, x) => SymbolLands(b, s, x)'
        BY <1>1, <2>1, SymbolLandsStays
    <2>5. OperandLands(b, t, x)'
        BY <1>1, <2>1, <2>2, <2>3, <2>4 DEF OperandLands
    <2> QED
        BY <2>1, <2>5
<1> QED
    BY <1>1, <1>2 DEF Landing

(* The definition that the loop is at.                                     *)
LEMMA RelocatedLands ==
    ASSUME TypeInv, BytesRead, AtDefinition, Relocatable
    PROVE  Lands(Len(loaded), Sy, OperandOf(Relocated(Sy)))
<1>1. /\ Sy \in Symbol /\ pc = "symbols" /\ Relocated(Sy).type = Sy.type
      /\ Sy.type \in {"ABS", "REL"}
    BY ItemTypes, DefinitionKept DEF AtDefinition, AtSymbol, TypeInv, Symbol
<1>2. ASSUME Sy.type = "ABS" PROVE OperandOf(Relocated(Sy)) = Val(Sy.offset)
    <2>1. Relocated(Sy).offset = Sy.offset
        BY <1>1, <1>2 DEF Relocated, Symbol
    <2> QED
        BY <1>1, <1>2, <2>1 DEF OperandOf
<1>3. ASSUME Sy.type = "REL", NEW x, x = OperandOf(Relocated(Sy))
      PROVE  \E base \in Nat : /\ x = Loc(x.section, Sy.offset + base)
                               /\ Whole(Len(loaded), Sy.section, x.section, base)
    <2>1. PICK v : v = remap_section[Sy.section]
        OBVIOUS
    <2>2. Relocated(Sy).offset = Sy.offset + Base(v) /\ Relocated(Sy).section = v
        BY <1>1, <1>3, <2>1 DEF Relocated, Symbol
    <2>3. x = Loc(v, Sy.offset + Base(v))
        BY <1>1, <1>3, <2>2 DEF OperandOf
    <2>4. x.section = v
        BY <2>3 DEF Loc
    <2>5. Base(v) \in Nat /\ Whole(Len(loaded), Sy.section, v, Base(v))
        BY <1>1, <1>3, <2>1, WholeBegins DEF Relocatable
    <2> QED
        BY <2>3, <2>4, <2>5
<1> QED
    BY <1>1, <1>2, <1>3 DEF Lands

(* The first definition of a name leads.                                   *)
LEMMA FirstLeads ==
    ASSUME TypeInv, NowReading, [Next]_vars, pc' # "aborted", NextSymbolSeen,
           Sy.type # "UND", Sy.flags = Global, NEW n, n = Sy.name, ~Gives(n),
           NEW b, b = Len(loaded), NEW k, k = i
    PROVE  Leads(b, k, n)'
<1>1. /\ UNCHANGED << pc, loaded >> /\ b \in DOMAIN loaded /\ pc = "symbols"
      /\ module = loaded[b]
      /\ \A a, j : Seen(a, j)' <=> Seen(a, j) \/ (a = b /\ j = k)
    BY SeenSteps DEF NextSymbolSeen, AtSymbol
<1>2. loaded[b].syms[k] = Sy
    BY <1>1 DEF Sy
<1>3. ASSUME NEW a \in DOMAIN loaded, NEW j \in DOMAIN loaded[a].syms,
             IsGlobal(loaded[a].syms[j]), loaded[a].syms[j].name = n
      PROVE  a = b /\ k <= j
    <2>1. ~Seen(a, j)
        <3>1. Seen(a, j) => loaded[a].syms[j] \in SeenSymbols
            BY DEF SeenSymbols
        <3> QED
            BY <1>3, <3>1 DEF Gives, IsGlobal
    <2>2. a = b /\ ~(j < k)
        BY <1>1, <2>1 DEF Seen
    <2>3. k \in Nat /\ j \in Nat
        <3>1. loaded[a] \in Module /\ i \in Nat
            BY DEF TypeInv, TypeOK
        <3>2. loaded[a].syms \in Seq(Symbol)
            BY <3>1, ModuleParts
        <3> QED
            BY <3>1, <3>2
    <2> QED
        BY <2>2, <2>3
<1>4. Seen(b, k)'
    BY <1>1
<1>5. IsGlobal(Sy)
    BY DEF IsGlobal
<1> QED
    BY <1>1, <1>2, <1>3, <1>4, <1>5 DEF Leads, IsGlobal

(* The symbols of a section that is read have names of the linker's.       *)
LEMMA SectionNamesOwn ==
    ASSUME TypeInv, NowReading, SectionNew, ~Unnamed(Sec)
    PROVE  {BegName[Sec.name], EndName[Sec.name]} \subseteq SectionSymbols
<1>1. pc = "sections" /\ i \in DOMAIN module.secs /\ Sec.number \notin Predefined
    BY DEF SectionNew, AtSection
<1>2. loaded \in Seq(Module) /\ loaded # << >> /\ module = loaded[Len(loaded)]
    BY <1>1 DEF NowReading, ReadingModule, TypeInv, TypeOK
<1>3. Len(loaded) \in DOMAIN loaded
    BY <1>2
<1>4. Sec \in UserSections
    BY <1>1, <1>2, <1>3 DEF UserSections, Sec
<1> QED
    BY <1>4 DEF SectionSymbols

(* The step that a definition enters the table with, unless it is one of   *)
(* the linker's own.                                                       *)
LEMMA DefinedBy ==
    ASSUME TypeInv, TableInv, NowReading, HistoryInv, EndNamed, [Next]_vars,
           pc' \notin {"aborted", "linked"},
           NEW g \in DOMAIN symbols', NEW T, T = symbols'[g], T.type # "UND",
           T.name \notin LinkerNames', g \in DOMAIN symbols => symbols[g].type = "UND"
    PROVE  /\ OneSymbol /\ AtDefinition /\ Relocatable /\ NextSymbolSeen
           /\ Sy.flags = Global /\ T = Relocated(Sy) /\ ~Gives(Sy.name)
<1>0. /\ pc # "aborted" /\ History
      /\ \A n : ~DefinedNow(n) => ~Gives(n)
      /\ T.name \notin LinkerNames
    <2>1. pc # "aborted"
        BY Endings DEF Final, vars
    <2> QED
        BY <2>1, LoadedGrows DEF HistoryInv, History
<1>1. symbols' # symbols
    OBVIOUS
<1>2. ~Abort /\ ~UNCHANGED vars
    BY <1>1 DEF Abort, globals, vars
<1>3. CASE OneSection
    <2>1. SectionNew
        BY <1>1, <1>3 DEF OneSection, SectionPredefined, SectionKnown, SectionsDone, Abort, globals
    <2>2. /\ g \in DOMAIN symbols => symbols'[g] = symbols[g]
          /\ g \notin DOMAIN symbols =>
                 ~Unnamed(Sec) /\ T.name \in {BegName[Sec.name], EndName[Sec.name]}
        BY <2>1, SectionExtends DEF Extended
    <2>3. g \notin DOMAIN symbols
        BY <2>2
    <2> QED
        BY <1>0, <2>1, <2>2, <2>3, SectionNamesOwn DEF LinkerNames
<1>4. CASE OneSymbol
    <2>1. /\ ~SymbolsDone /\ ~ReferenceKnown /\ ~DefineLocal /\ ~DefineAgain
          /\ NextSymbolSeen
          /\ ReferenceNew \/ DefineNew \/ DefineReferenced
        <3>1. ~SymbolsDone /\ ~ReferenceKnown /\ ~DefineLocal /\ ~DefineAgain
            BY <1>1, <1>4, SymbolCases DEF SymbolsDone, globals
        <3> QED
            BY <1>2, <1>4, <3>1, SymbolCases DEF NextSymbolSeen, NextItem
    <2>2. CASE ReferenceNew
        <3>1. /\ Extended(symbols, symbols')
              /\ g \in DOMAIN symbols \/ T.type = "UND"
            BY <2>2, ReferenceNewAdds
        <3> QED
            BY <3>1 DEF Extended
    <2>3. CASE DefineNew
        <3>1. /\ Extended(symbols, symbols')
              /\ g \in DOMAIN symbols \/ T = Relocated(Sy)
            BY <2>3, DefineNewAdds
        <3>2. T = Relocated(Sy)
            BY <3>1 DEF Extended
        <3>3. ~DefinedNow(Sy.name)
            BY <2>3, KnownSymbols DEF DefineNew, Named, DefinedNow
        <3> QED
            BY <1>0, <1>4, <2>1, <2>3, <3>2, <3>3 DEF DefineNew
    <2>4. CASE DefineReferenced
        <3> DEFINE k == symbol_map[Sy.name]
        <3>1. /\ AtDefinition /\ Relocatable /\ Sy.flags = Global
              /\ Sy.name \in DOMAIN symbol_map /\ k \in DOMAIN symbols
              /\ symbols' = [symbols EXCEPT ![k] = Relocated(Sy)]
              /\ symbols[k].type = "UND"
            BY <2>4 DEF DefineReferenced, TableInv, Table
        <3>2. ~DefinedNow(Sy.name)
            BY <3>1, KnownSymbols
        <3> HIDE DEF k
        <3>3. g \in DOMAIN symbols /\ (g # k => symbols'[g] = symbols[g])
            BY <3>1
        <3>4. T = Relocated(Sy)
            BY <3>1, <3>3
        <3> QED
            BY <1>0, <1>4, <2>1, <3>1, <3>2, <3>4
    <2> QED
        BY <2>1, <2>2, <2>3, <2>4
<1>5. CASE OneRecord
    BY <1>1, <1>5 DEF OneRecord, RecordData, RecordSection, RecordOrg, RecordSkipped,
                      RecordExpression, RecordsDone, NextRecord, Abort, globals
<1>6. CASE OneFile
    BY <1>1, <1>6 DEF OneFile, FileRefused, FileIsLibrary, FileOpened, FileModule,
                      FileDone, FilesDone, globals
<1>7. CASE OneLibrary
    BY <1>1, <1>7 DEF OneLibrary, LibraryMissing, LibraryNowhere, LibraryOpened,
                      LibraryModule, LibraryRound, LibrariesDone, globals
<1>8. CASE Finish
    <2>1. generate_end
        BY <1>1, <1>8 DEF Finish, CheckUndefined, simplify, Abort, globals
    <2>2. undefined_symbols = {} /\ DOMAIN symbols' = DOMAIN symbols
        BY <2>1 DEF generate_end, TableInv
    <2>3. g \in Ends /\ g # 0 /\ T.name = symbols[g].name
        <3>1. symbols \in Seq(Symbol)
            BY DEF TypeInv, TypeOK
        <3>2. g # 0
            BY <2>2, <3>1
        <3> QED
            BY <2>2, <3>2, SymbolsStay DEF TableInv, Table, SymbolStays
    <2> QED
        BY <1>0, <2>3 DEF EndNamed
<1> QED
    BY <1>2, <1>3, <1>4, <1>5, <1>6, <1>7, <1>8 DEF Next, Ended

LEMMA NextTableLands ==
    ASSUME TypeInv, TableInv, NowReading, HistoryInv, NumbersInv, BytesRead, OwnSections,
           Landed, [Next]_vars, pc' \notin {"aborted", "linked"}
    PROVE  TableLands'
<1> SUFFICES ASSUME NEW g \in DOMAIN symbols', NEW T, T = symbols'[g], T.type # "UND",
                    NEW n, n = T.name, n \notin LinkerNames',
                    NEW x, x = OperandOf(T)
             PROVE  LandsFirst(n, x)'
    BY DEF TableLands, OperandOf
<1>1. CASE g \in DOMAIN symbols /\ symbols[g].type # "UND"
    <2>1. \/ symbols'[g] = symbols[g]
          \/ EndOf(g) # {} /\ symbols'[g].name = symbols[g].name
        BY <1>1, SymbolsStay DEF SymbolStays
    <2>2. n \notin LinkerNames
        BY LoadedGrows
    <2>3. symbols'[g] = symbols[g]
        <3>1. EndOf(g) # {} => g \in Ends
            BY DEF EndOf, Ends
        <3>2. g # 0
            <4>1. symbols \in Seq(Symbol)
                BY DEF TypeInv, TypeOK
            <4> QED
                BY <1>1, <4>1
        <3> QED
            BY <2>1, <2>2, <3>1, <3>2 DEF Landed, EndNamed
    <2>4. LandsFirst(n, x)
        BY <1>1, <2>2, <2>3 DEF Landed, TableLands
    <2> QED
        BY <2>4, LandsFirstStays
<1>2. CASE g \in DOMAIN symbols => symbols[g].type = "UND"
    <2>1. /\ OneSymbol /\ AtDefinition /\ Relocatable /\ NextSymbolSeen
          /\ Sy.flags = Global /\ T = Relocated(Sy) /\ ~Gives(Sy.name)
        BY <1>2, DefinedBy DEF Landed
    <2>2. PICK b, k, s : b = Len(loaded) /\ k = i /\ s = Sy
        OBVIOUS
    <2>3. s.type # "UND" /\ n = s.name
        BY <2>1, <2>2, DefinitionKept
    <2>4. Leads(b, k, n)'
        BY <2>1, <2>2, <2>3, FirstLeads
    <2>5. Lands(b, s, x)
        BY <2>1, <2>2, RelocatedLands
    <2>6. UNCHANGED loaded /\ loaded[b].syms[k] = s /\ Begun(b)
        BY <2>1, <2>2, SeenSteps DEF Sy, Begun, NextSymbolSeen, AtSymbol
    <2>7. Lands(b, s, x)'
        BY <2>5, <2>6, LandsStays
    <2> QED
        BY <2>4, <2>6, <2>7 DEF LandsFirst
<1> QED
    BY <1>1, <1>2

(* A turn of the loop over the symbols adds where its symbol leads.        *)
LEMMA LocalLands ==
    ASSUME TypeInv, TableInv, NowReading, NumbersInv, BytesRead, OwnSections, Landed,
           OneSymbol, NextSymbolSeen, pc' \notin {"aborted", "linked"},
           NEW b, b = Len(loaded), NEW sym, sym = Sy
    PROVE  \E s, x : /\ local_symbols' = Append(local_symbols, s) /\ s \in Symbol
                     /\ x = OperandOf(s) /\ SymbolLands(b, sym, x)'
<1>1. /\ pc = "symbols" /\ AtSymbol /\ sym \in Symbol /\ Tables /\ [Next]_vars /\ Begun(b)
    BY SymbolTyped, SeenSteps, PhaseOf DEF NextSymbolSeen, Begun, Next
<1>2. ~Abort /\ ~SymbolsDone
    <2>1. i + 1 # i
        BY DEF TypeInv, TypeOK
    <2> QED
        BY <2>1 DEF NextSymbolSeen, AtSymbol, Abort, SymbolsDone
<1>3. CASE ReferenceNew
    <2>1. PICK n, s : n = Len(symbols) + 1 /\ s = [Sy EXCEPT !.section = n]
        OBVIOUS
    <2>2. local_symbols' = Append(local_symbols, s) /\ Sy.type = "UND"
        BY <1>3, <2>1 DEF ReferenceNew, NextSymbol
    <2>3. n \in Nat
        BY <1>1, <2>1 DEF Tables
    <2>4. s \in Symbol /\ s.type = "UND"
        BY <1>1, <2>1, <2>2, <2>3 DEF Symbol
    <2>5. PICK x : x = OperandOf(s)
        OBVIOUS
    <2>6. x.tag = "SYM"
        BY <2>4, <2>5 DEF OperandOf, Sym
    <2>7. SymbolLands(b, sym, x)'
        BY <2>2, <2>6 DEF SymbolLands
    <2> QED
        BY <2>2, <2>4, <2>5, <2>7
<1>4. CASE ReferenceKnown
    <2> DEFINE k == symbol_map[Sy.name]
    <2>0. PICK s : s = symbols[k]
        OBVIOUS
    <2>1. /\ local_symbols' = Append(local_symbols, s)
          /\ Sy.name \in DOMAIN symbol_map /\ Sy.type = "UND"
        BY <1>4, <2>0 DEF ReferenceKnown, NextSymbol
    <2>2. k \in DOMAIN symbols /\ s.name = Sy.name
        BY <2>0, <2>1 DEF TableInv, Table
    <2>3. s \in Symbol
        BY <1>1, <2>0, <2>2 DEF Tables
    <2> HIDE DEF k
    <2>4. PICK x : x = OperandOf(s)
        OBVIOUS
    <2>5. SymbolLands(b, sym, x)
        <3>1. CASE s.type = "UND"
            <4>1. x.tag = "SYM"
                BY <2>4, <3>1 DEF OperandOf, Sym
            <4> QED
                BY <2>1, <4>1 DEF SymbolLands
        <3>2. CASE s.type # "UND"
            BY <2>0, <2>1, <2>2, <2>4, <3>2 DEF Landed, TableLands, SymbolLands
        <3> QED
            BY <3>1, <3>2
    <2>6. SymbolLands(b, sym, x)'
        BY <1>1, <2>5, SymbolLandsStays
    <2> QED
        BY <2>1, <2>3, <2>4, <2>6
<1>5. CASE DefineLocal \/ DefineNew \/ DefineReferenced \/ DefineAgain
    <2>1. /\ local_symbols' = Append(local_symbols, Relocated(Sy))
          /\ AtDefinition /\ Relocatable
        BY <1>5 DEF DefineLocal, DefineNew, DefineReferenced, DefineAgain, NextSymbol
    <2>2. PICK s, x : s = Relocated(Sy) /\ x = OperandOf(s)
        OBVIOUS
    <2>3. s \in Symbol /\ Sy.type # "UND" /\ Lands(b, sym, x)
        BY <2>1, <2>2, DefinitionKept, RelocatedLands
    <2>4. SymbolLands(b, sym, x)
        BY <2>3 DEF SymbolLands
    <2>5. SymbolLands(b, sym, x)'
        BY <1>1, <2>4, SymbolLandsStays
    <2> QED
        BY <2>1, <2>2, <2>3, <2>5
<1> QED
    BY <1>2, <1>3, <1>4, <1>5, SymbolCases

LEMMA NextLocalsLand ==
    ASSUME TypeInv, TableInv, NowReading, LocalsInv, NumbersInv, BytesRead, OwnSections,
           Landed, [Next]_vars, pc' \notin {"aborted", "linked"}
    PROVE  LocalsLand'
<1> SUFFICES ASSUME pc' \in {"symbols", "records"}, NEW k \in DOMAIN local_symbols',
                    NEW b, b = Len(loaded'), NEW sym, sym = module'.syms[k],
                    NEW x, x = OperandOf(local_symbols'[k])
             PROVE  SymbolLands(b, sym, x)'
    BY DEF LocalsLand, OperandOf
<1>0. /\ i \in Nat \ {0} /\ local_symbols \in Seq(Symbol)
      /\ UNCHANGED << loaded, module >> /\ b = Len(loaded)
      /\ pc \in {"sections", "symbols", "records"}
    BY ReadingKeeps DEF TypeInv, TypeOK
<1>1. ASSUME k \in DOMAIN local_symbols, local_symbols'[k] = local_symbols[k]
      PROVE  SymbolLands(b, sym, x)'
    <2>1. pc # "sections"
        <3>1. DOMAIN << >> = {}
            OBVIOUS
        <3> QED
            BY <1>1, <3>1 DEF LocalsInv
    <2>2. SymbolLands(b, sym, x)
        BY <1>0, <1>1, <2>1 DEF Landed, LocalsLand
    <2>3. Begun(b)
        BY <1>0, <2>1 DEF NowReading, ReadingModule, Begun, TypeInv, TypeOK
    <2> QED
        BY <2>2, <2>3, SymbolLandsStays
<1>2. CASE OneSymbol /\ NextSymbolSeen
    <2>1. PICK sy : sy = Sy
        OBVIOUS
    <2>2. PICK s, y : /\ local_symbols' = Append(local_symbols, s) /\ s \in Symbol
                      /\ y = OperandOf(s) /\ SymbolLands(b, sy, y)'
        BY <1>0, <1>2, <2>1, LocalLands
    <2>3. CASE k \in DOMAIN local_symbols
        BY <1>0, <1>1, <2>2, <2>3
    <2>4. CASE k \notin DOMAIN local_symbols
        <3>1. k = Len(local_symbols) + 1 /\ local_symbols'[k] = s
            BY <1>0, <2>2, <2>4
        <3>2. k = i
            <4>1. Len(local_symbols) = i - 1
                BY <1>2 DEF LocalsInv, NextSymbolSeen, AtSymbol
            <4> QED
                BY <1>0, <3>1, <4>1
        <3>3. sym = sy /\ x = y
            BY <1>0, <2>1, <2>2, <3>1, <3>2 DEF Sy
        <3> QED
            BY <2>2, <3>3
    <2> QED
        BY <2>3, <2>4
<1>3. CASE ~NextSymbolSeen
    <2>1. local_symbols' = local_symbols \/ local_symbols' = << >>
        <3>1. CASE OneSection
            BY <3>1 DEF OneSection, SectionPredefined, SectionNew, SectionKnown,
                   SectionsDone, Abort, frame
        <3>2. CASE OneSymbol
            BY <1>3, <3>2, SymbolCases DEF NextItem, NextSymbolSeen, Abort, SymbolsDone, frame
        <3>3. CASE OneRecord
            BY <3>3 DEF OneRecord, RecordData, RecordSection, RecordOrg, RecordSkipped,
                   RecordExpression, RecordsDone, NextRecord, Abort, frame
        <3> QED
            BY <1>0, <3>1, <3>2, <3>3, PhaseOf DEF Next, Ended, vars
    <2>2. DOMAIN << >> = {}
        OBVIOUS
    <2> QED
        BY <1>1, <2>1, <2>2
<1>4. NextSymbolSeen => OneSymbol
    BY <1>0, PhaseOf DEF Next, NextSymbolSeen, AtSymbol, Ended, vars, Final
<1> QED
    BY <1>2, <1>3, <1>4

(* The expression of a record refers to where its module's symbols lead.   *)
LEMMA NewLanding ==
    ASSUME TypeInv, NowReading, LocalsInv, LocalsLand, AtRecord({"EXPR", "RELEXP"}),
           \A k \in DOMAIN Rec.stack : Convertible(Rec.stack[k])
    PROVE  Landing(NewExpression(Rec))
<1> DEFINE e == NewExpression(Rec)
<1>1. /\ pc = "records" /\ Len(loaded) \in DOMAIN loaded /\ module = loaded[Len(loaded)]
    BY DEF AtRecord, NowReading, ReadingModule, TypeInv, TypeOK
<1>2. /\ e.by = Len(loaded) /\ e.source = Rec.stack
      /\ e.stack = [k \in DOMAIN Rec.stack |-> Converted(Rec.stack[k])]
    BY DEF NewExpression
<1> HIDE DEF e
<1>3. DOMAIN local_symbols = DOMAIN module.syms
    <2>1. module.syms \in Seq(Symbol) /\ local_symbols \in Seq(Symbol)
        BY ModuleParts DEF TypeInv, TypeOK
    <2> QED
        BY <1>1, <2>1 DEF LocalsInv
<1>4. ASSUME NEW k \in DOMAIN Rec.stack, NEW t, t = Rec.stack[k]
      PROVE  OperandLands(Len(loaded), t, Converted(t))
    <2>1. Convertible(t)
        BY <1>4
    <2>2. CASE t.tag = "SYM"
        <3>1. PICK s : s = local_symbols[t.section]
            OBVIOUS
        <3>2. t.section \in DOMAIN local_symbols /\ s.type \in {"UND", "ABS", "REL"}
            <4>1. local_symbols \in Seq(Symbol) /\ t.section \in DOMAIN local_symbols
                BY <2>1, <2>2 DEF Convertible, TypeInv, TypeOK
            <4>2. s \in Symbol
                BY <3>1, <4>1
            <4> QED
                BY <4>1, <4>2 DEF Symbol
        <3>3. Converted(t) = OperandOf(s)
            BY <2>2, <3>1, <3>2 DEF Converted, OperandOf
        <3>4. SymbolLands(Len(loaded), module.syms[t.section], OperandOf(s))
            BY <1>1, <3>1, <3>2 DEF LocalsLand
        <3> QED
            BY <1>1, <1>3, <2>2, <3>2, <3>3, <3>4 DEF OperandLands
    <2>3. CASE t.tag # "SYM"
        <3>1. t.tag # "LOC" => Converted(t) = t
            BY <2>3 DEF Converted
        <3> QED
            BY <2>3, <3>1 DEF OperandLands
    <2> QED
        BY <2>2, <2>3
<1>5. Landing(e)
    BY <1>1, <1>2, <1>4 DEF Landing, Begun
<1> QED
    BY <1>5 DEF e

LEMMA NextExpressionsLand ==
    ASSUME TypeInv, NowReading, LocalsInv, NumbersInv, OwnSections, Landed, [Next]_vars,
           pc' \notin {"aborted", "linked"}
    PROVE  ExpressionsLand'
<1> SUFFICES ASSUME NEW v \in DOMAIN sections', NEW j \in DOMAIN sections'[v].expressions,
                    NEW e, e = sections'[v].expressions[j]
             PROVE  Landing(e)'
    BY DEF ExpressionsLand
<1>1. Landing(e) => Landing(e)'
    BY LandingStays
<1>2. CASE v \in DOMAIN sections /\ j \in DOMAIN sections[v].expressions
               /\ e = sections[v].expressions[j]
    BY <1>1, <1>2 DEF Landed, ExpressionsLand
<1>3. CASE RecordExpression /\ e = NewExpression(Rec)
    <2>1. \A k \in DOMAIN Rec.stack : Convertible(Rec.stack[k])
        BY <1>3, RecordsAdd DEF Adding
    <2>2. AtRecord({"EXPR", "RELEXP"})
        BY <1>3 DEF RecordExpression
    <2>3. Landing(e)
        BY <1>3, <2>1, <2>2, NewLanding DEF Landed
    <2> QED
        BY <1>1, <2>3
<1>4. CASE ~Adding
    BY <1>2, <1>4, SectionsKeep DEF Same, Fresh, Adding
<1>5. CASE Adding
    <2>1. CASE v # current_section
        BY <1>2, <1>5, <2>1, RecordsAdd DEF Same
    <2>2. CASE v = current_section
        <3> DEFINE old == sections[v].expressions
        <3>1. /\ v \in DOMAIN sections /\ old \in Seq(Expression)
              /\ \/ sections'[v].expressions = old
                 \/ /\ sections'[v].expressions = Append(old, NewExpression(Rec))
                    /\ RecordExpression /\ NewExpression(Rec) \in Expression
            <4>1. current_section \in DOMAIN sections /\ sections \in Seq(Section)
                BY <1>5, RecordsAdd
            <4>2. old \in Seq(Expression)
                BY <2>2, <4>1, SectionParts
            <4>3. CASE RecordData
                BY <1>5, <2>2, <4>1, <4>2, <4>3, RecordsAdd
            <4>4. CASE RecordExpression
                BY <1>5, <2>2, <4>1, <4>2, <4>4, RecordsAdd
            <4> QED
                BY <1>5, <4>3, <4>4 DEF Adding
        <3>2. \/ j \in DOMAIN old /\ e = old[j]
              \/ RecordExpression /\ e = NewExpression(Rec)
            BY <3>1
        <3> QED
            BY <1>2, <1>3, <3>1, <3>2
    <2> QED
        BY <2>1, <2>2
<1> QED
    BY <1>4, <1>5

(* The symbol that ends a section has a name of the linker's.              *)
LEMMA NextEndNamed ==
    ASSUME TypeInv, TableInv, NowReading, EndNamed, [Next]_vars,
           pc' \notin {"aborted", "linked"}
    PROVE  EndNamed'
<1>0. /\ LinkerNames \subseteq LinkerNames'
      /\ \A k \in DOMAIN symbols : k \in DOMAIN symbols' /\ symbols'[k].name = symbols[k].name
    BY LoadedGrows, SymbolsStay DEF SymbolStays
<1>1. ASSUME Ends' \subseteq Ends PROVE EndNamed'
    BY <1>0, <1>1 DEF EndNamed
<1>2. CASE OneSection
    <2>0. pc = "sections" /\ Tables
        BY <1>2, PhaseOf, TablesTyped DEF Final
    <2>1. CASE SectionPredefined
        <3> DEFINE k == Sec.number
        <3>1. k \in DOMAIN sections /\ sections \in Seq(Section)
            BY <2>0, <2>1 DEF SectionPredefined, Tables, TypeInv, TypeOK
        <3>2. sections' = [sections EXCEPT ![k].size = @ + Sec.size]
            BY <2>1 DEF SectionPredefined
        <3> HIDE DEF k
        <3>3. DOMAIN sections' = DOMAIN sections
            BY <3>2
        <3>4. \A v \in DOMAIN sections : sections'[v].end_symbol = sections[v].end_symbol
            BY <3>1, <3>2 DEF Section
        <3> QED
            BY <1>1, <3>3, <3>4 DEF Ends
    <2>2. CASE SectionNew
        <3> DEFINE v      == Len(sections) + 1
                   beg    == BegName[Sec.name]
                   end    == EndName[Sec.name]
                   newBeg == ~Unnamed(Sec) /\ beg \notin DOMAIN symbol_map
                   begSym == SectionStart(beg, v)
                   begs   == IF newBeg THEN Append(symbols, begSym) ELSE symbols
                   begMap == IF newBeg THEN Bind(symbol_map, beg, Len(begs))
                                       ELSE symbol_map
                   newEnd == ~Unnamed(Sec) /\ end \notin DOMAIN begMap
                   k      == Len(begs) + 1
                   endSym == UndefinedSymbol(end, k)
                   new    == [name |-> Sec.name, flags |-> Sec.flags, size |-> Sec.size,
                              data |-> << >>, expressions |-> << >>,
                              end_symbol |-> IF newEnd THEN k ELSE 0]
        <3>1. /\ symbols' = IF newEnd THEN Append(begs, endSym) ELSE begs
              /\ sections' = Append(sections, new)
            BY <2>2 DEF SectionNew
        <3>2. sections \in Seq(Section) /\ symbols \in Seq(Symbol)
            BY <2>0 DEF Tables
        <3>3. newEnd => ~Unnamed(Sec)
            OBVIOUS
        <3>4. Len(begs) \in Nat /\ \E S : begs \in Seq(S)
            <4> HIDE DEF newBeg, begSym
            <4>1. Append(symbols, begSym) \in Seq(Symbol \cup {begSym})
                BY <3>2
            <4> QED
                BY <3>2, <4>1
        <3>5. new.end_symbol = IF newEnd THEN k ELSE 0
            OBVIOUS
        <3> HIDE DEF newEnd, begs, new
        <3>6. newEnd => /\ k \in DOMAIN symbols' /\ symbols'[k].name = end
                        /\ end \in LinkerNames
            <4>1. PICK S : begs \in Seq(S)
                BY <3>4
            <4>2. endSym.name = end
                BY DEF UndefinedSymbol
            <4>3. newEnd => symbols'[k] = endSym /\ k \in DOMAIN symbols'
                <5> HIDE DEF endSym
                <5> QED
                    BY <3>1, <4>1
            <4>4. newEnd => end \in LinkerNames
                BY <2>2, <3>3, SectionNamesOwn DEF LinkerNames
            <4> QED
                BY <4>2, <4>3, <4>4
        <3>7. /\ DOMAIN sections' = DOMAIN sections \cup {v} /\ sections'[v] = new
              /\ \A w \in DOMAIN sections : sections'[w] = sections[w]
            BY <3>1, <3>2
        <3> HIDE DEF k, end
        <3>8. \A m \in Ends' : m \in Ends \/ m = IF newEnd THEN k ELSE 0
            BY <3>5, <3>7 DEF Ends
        <3> QED
            BY <1>0, <3>6, <3>8 DEF EndNamed
    <2>3. CASE SectionKnown
        <3>1. CASE Abort
            BY <3>1 DEF Abort
        <3>2. CASE ~Abort
            <4> DEFINE k == section_map[Sec.name]
            <4>1. k \in DOMAIN sections /\ sections \in Seq(Section)
                BY <2>0, <2>3 DEF SectionKnown, Tables
            <4>2. sections' = [sections EXCEPT ![k].size = @ + Sec.size]
                BY <2>3, <3>2 DEF SectionKnown
            <4> HIDE DEF k
            <4>3. DOMAIN sections' = DOMAIN sections
                BY <4>2
            <4>4. \A v \in DOMAIN sections : sections'[v].end_symbol = sections[v].end_symbol
                BY <4>1, <4>2 DEF Section
            <4> QED
                BY <1>1, <4>3, <4>4 DEF Ends
        <3> QED
            BY <3>1, <3>2
    <2>4. CASE SectionsDone
        BY <1>1, <2>4 DEF SectionsDone, globals, Ends
    <2> QED
        BY <1>2, <2>1, <2>2, <2>3, <2>4 DEF OneSection
<1>3. CASE OneSymbol
    BY <1>1, <1>3, SymbolCases DEF Abort, SymbolsDone, globals, Ends
<1>4. CASE OneRecord
    <2>1. CASE Adding
        <3>1. sections \in Seq(Section) /\ DOMAIN sections' = DOMAIN sections
            BY <2>1, RecordsAdd
        <3>2. \A v \in DOMAIN sections : sections'[v].end_symbol = sections[v].end_symbol
            <4>1. CASE RecordData
                <5>1. sections' = [sections EXCEPT ![current_section].data = @ \o Bytes(Rec.n)]
                    BY <4>1 DEF RecordData
                <5> QED
                    BY <3>1, <5>1 DEF Section
            <4>2. CASE RecordExpression
                <5>1. sections' = [sections EXCEPT
                         ![current_section].data = @ \o Bytes(Rec.n),
                         ![current_section].expressions = Append(@, NewExpression(Rec))]
                    BY <4>2 DEF RecordExpression, Abort
                <5> QED
                    BY <3>1, <5>1 DEF Section
            <4> QED
                BY <2>1, <4>1, <4>2 DEF Adding
        <3> QED
            BY <1>1, <3>1, <3>2 DEF Ends
    <2>2. CASE ~Adding
        BY <1>1, <1>4, <2>2 DEF OneRecord, RecordSection, RecordOrg, RecordSkipped,
                  RecordsDone, Adding, Abort, globals, Ends
    <2> QED
        BY <2>1, <2>2
<1>5. CASE OneFile
    BY <1>1, <1>5 DEF OneFile, FileRefused, FileIsLibrary, FileOpened, FileModule,
                      FileDone, FilesDone, globals, Ends
<1>6. CASE OneLibrary
    BY <1>1, <1>6 DEF OneLibrary, LibraryMissing, LibraryNowhere, LibraryOpened,
                      LibraryModule, LibraryRound, LibrariesDone, globals, Ends
<1>7. CASE Finish
    BY <1>1, <1>7 DEF Finish, CheckUndefined, generate_end, simplify, Abort, globals, Ends
<1> QED
    BY <1>1, <1>2, <1>3, <1>4, <1>5, <1>6, <1>7 DEF Next, Ended, vars, Ends

-----------------------------------------------------------------------------
(* What simplify() finds. *)

LEMMA FirstIs ==
    ASSUME NEW S, NEW x \in S, \A y \in S : y \in Nat /\ x <= y
    PROVE  First(S) = x
<1>1. \A z : z \in S /\ (\A y \in S : z <= y) => z = x
    <2> SUFFICES ASSUME NEW z \in S, \A y \in S : z <= y PROVE z = x
        OBVIOUS
    <2>1. x <= z /\ z <= x /\ x \in Nat /\ z \in Nat
        OBVIOUS
    <2> QED
        BY <2>1
<1>2. First(S) \in S /\ \A y \in S : First(S) <= y
    <2>1. \E z \in S : \A y \in S : z <= y
        OBVIOUS
    <2> QED
        BY <2>1, Zenon DEF First
<1> QED
    BY <1>1, <1>2

(* The one that leads is the definition.                                   *)
LEMMA LeaderDefines ==
    ASSUME TypeInv, NEW a, NEW s, s.type = "UND", NEW b, NEW k, Leads(b, k, s.name)
    PROVE  Definition(a, s) = << b, loaded[b].syms[k] >>
<1>1. PICK n : n = s.name
    OBVIOUS
<1> DEFINE K == {j \in DOMAIN loaded[b].syms : /\ loaded[b].syms[j].name = n
                                               /\ loaded[b].syms[j].type # "UND"
                                               /\ loaded[b].syms[j].flags = Global}
<1>2. /\ b \in DOMAIN loaded /\ k \in K
      /\ \A c \in DOMAIN loaded : Defines(loaded[c], n) => b < c \/ b = c
      /\ \A j \in K : k <= j
    <2>1. b \in DOMAIN loaded /\ k \in K
        BY <1>1 DEF Leads, Seen, IsGlobal
    <2>2. \A c \in DOMAIN loaded : Defines(loaded[c], n) => b < c \/ b = c
        BY <1>1 DEF Leads, Defines, IsGlobal
    <2>3. loaded \in Seq(Module)
        BY DEF TypeInv, TypeOK
    <2>4. ~(b < b)
        BY <2>1, <2>3
    <2>5. \A j \in K : k <= j
        BY <1>1, <2>1, <2>4 DEF Leads, IsGlobal
    <2> QED
        BY <2>1, <2>2, <2>5
<1>3. loaded \in Seq(Module) /\ loaded[b].syms \in Seq(Symbol)
    <2>1. loaded \in Seq(Module)
        BY DEF TypeInv, TypeOK
    <2>2. loaded[b] \in Module
        BY <1>2, <2>1
    <2> QED
        BY <2>1, <2>2, ModuleParts
<1>4. First(K) = k
    <2>1. \A j \in K : j \in Nat
        BY <1>3
    <2> HIDE DEF K
    <2> QED
        BY <1>2, <2>1, FirstIs
<1>5. First(Definers(n)) = b
    <2>1. b \in Definers(n)
        BY <1>2 DEF Definers, Defines
    <2>2. \A c \in Definers(n) : c \in Nat /\ b <= c
        <3>1. \A c \in DOMAIN loaded : c \in Nat
            BY <1>3
        <3> QED
            BY <1>2, <3>1 DEF Definers
    <2> QED
        BY <2>1, <2>2, FirstIs
<1> QED
    BY <1>1, <1>4, <1>5, Zenon DEF Definition

(* A byte of a section is where the whole of it is.                        *)
LEMMA PlaceIs ==
    ASSUME TypeInv, pc # "linked", NEW b, NEW section, NEW v, NEW base \in Nat,
           NEW at \in Nat, Whole(b, section, v, base), Placed(b, section, at) # {}
    PROVE  Place(b, section, at) = Loc(v, base + at)
<1>1. ASSUME NEW p \in Placed(b, section, at)
      PROVE  p[1] = v /\ p[2] = base + at + 1
    <2>1. PICK w \in DOMAIN sections : p \in {w} \X DOMAIN sections[w].data
        BY DEF Placed
    <2>2. /\ p[1] = w /\ p[2] \in DOMAIN sections[w].data
          /\ sections[p[1]].data[p[2]] = [by |-> b, section |-> section, at |-> at]
        BY <2>1 DEF Placed
    <2> QED
        BY <2>2 DEF Whole
<1>2. PICK p : p = CHOOSE q \in Placed(b, section, at) : TRUE
    OBVIOUS
<1>3. p \in Placed(b, section, at)
    BY <1>2, Zenon
<1>4. p[1] = v /\ p[2] - 1 = base + at
    BY <1>1, <1>3
<1> QED
    BY <1>2, <1>4 DEF Place

(* An operand that lands where the definition s went is what s means.      *)
LEMMA LandsAtMeaning ==
    ASSUME TypeInv, pc # "linked", NEW b \in DOMAIN loaded, NEW k \in DOMAIN loaded[b].syms,
           NEW s, s = loaded[b].syms[k], NEW x, Lands(b, s, x),
           s.type = "REL" => Placed(b, s.section, s.offset) # {}
    PROVE  /\ x.tag # "SYM"
           /\ x = IF s.type = "ABS" THEN Val(s.offset) ELSE Place(b, s.section, s.offset)
<1>1. s \in Symbol
    <2>1. loaded[b] \in Module
        BY DEF TypeInv, TypeOK
    <2>2. loaded[b].syms \in Seq(Symbol)
        BY <2>1, ModuleParts
    <2> QED
        BY <2>2
<1>2. CASE s.type = "ABS"
    <2>1. x = Val(s.offset)
        BY <1>2 DEF Lands
    <2> QED
        BY <1>2, <2>1 DEF Val
<1>3. CASE s.type = "REL"
    <2>1. PICK base \in Nat : /\ x = Loc(x.section, s.offset + base)
                              /\ Whole(b, s.section, x.section, base)
        BY <1>3 DEF Lands
    <2>2. PICK section, at, v : section = s.section /\ at = s.offset /\ v = x.section
        OBVIOUS
    <2>3. at \in Nat
        BY <1>1, <2>2 DEF Symbol
    <2>4. Place(b, section, at) = Loc(v, base + at)
        BY <1>3, <2>1, <2>2, <2>3, PlaceIs
    <2>5. at + base = base + at
        BY <2>3
    <2>6. x = Place(b, s.section, s.offset)
        BY <2>1, <2>2, <2>4, <2>5
    <2>7. x.tag # "SYM"
        BY <2>1 DEF Loc
    <2> QED
        BY <1>3, <2>6, <2>7
<1> QED
    BY <1>2, <1>3 DEF Lands

(* The operand x of simplify() is what the operand t of the record means.  *)
LEMMA OperandMeans ==
    ASSUME TypeInv, pc = "simplify", NothingUndefined, Landed, OwnNames,
           NEW b \in DOMAIN loaded, NEW t, NEW x, OperandLands(b, t, x), t.tag # "LOC",
           Tangible(b, t),
           x.tag = "SYM" => /\ x.section \in DOMAIN symbols /\ t.tag = "SYM"
                            /\ symbols[x.section].name = loaded[b].syms[t.section].name
    PROVE  Replaced(x) = Meaning(b, t) /\ (x.tag # "SYM" => Replaced(x) = x)
<1>1. x.tag # "SYM" => Replaced(x) = x
    BY DEF Replaced
<1>2. CASE t.tag # "SYM"
    <2>1. x = t /\ Replaced(t) = t /\ Meaning(b, t) = t
        BY <1>2 DEF OperandLands, Replaced, Meaning
    <2> QED
        BY <1>1, <2>1
<1>3. CASE t.tag = "SYM"
    <2>1. PICK s : s = loaded[b].syms[t.section]
        OBVIOUS
    <2>2. /\ t.section \in DOMAIN loaded[b].syms /\ SymbolLands(b, s, x)
        BY <1>3, <2>1 DEF OperandLands
    <2>3. PICK d : d = Definition(b, s)
        OBVIOUS
    <2>4. /\ s.type = "UND" => Definers(s.name) # {}
          /\ d[2].type = "REL" => Placed(d[1], d[2].section, d[2].offset) # {}
          /\ Meaning(b, t) = IF d[2].type = "ABS" THEN Val(d[2].offset)
                             ELSE Place(d[1], d[2].section, d[2].offset)
        BY <1>3, <2>1, <2>3 DEF Tangible, Meaning
    <2>5. CASE s.type # "UND"
        <3>1. d = << b, s >> /\ Lands(b, s, x)
            BY <2>2, <2>3, <2>5 DEF Definition, SymbolLands
        <3>2. d[1] = b /\ d[2] = s
            BY <3>1
        <3> QED
            BY <1>1, <2>1, <2>2, <2>4, <3>1, <3>2, LandsAtMeaning
    <2>6. CASE s.type = "UND"
        <3>1. s.name \notin LinkerNames
            BY <2>4, <2>6 DEF OwnNames, Definers
        <3>2. LandsFirst(s.name, Replaced(x))
            <4>1. CASE x.tag # "SYM"
                BY <1>1, <2>2, <2>6, <3>1, <4>1 DEF SymbolLands
            <4>2. CASE x.tag = "SYM"
                <5>1. PICK g, T : g = x.section /\ T = symbols[g]
                    OBVIOUS
                <5>2. g \in DOMAIN symbols /\ T.name = s.name /\ T.type # "UND"
                    BY <2>1, <4>2, <5>1 DEF NothingUndefined
                <5>3. T.type \in {"ABS", "REL"}
                    <6>1. symbols \in Seq(Symbol)
                        BY DEF TypeInv, TypeOK
                    <6>2. T \in Symbol
                        BY <5>1, <5>2, <6>1
                    <6> QED
                        BY <5>2, <6>2 DEF Symbol
                <5>4. Replaced(x) = OperandOf(T)
                    BY <4>2, <5>1, <5>3 DEF Replaced, OperandOf
                <5> QED
                    BY <3>1, <5>1, <5>2, <5>4 DEF Landed, TableLands
            <4> QED
                BY <4>1, <4>2
        <3>3. PICK a, k : Leads(a, k, s.name) /\ Lands(a, loaded[a].syms[k], Replaced(x))
            BY <3>2 DEF LandsFirst
        <3>4. d = << a, loaded[a].syms[k] >>
            BY <2>3, <2>6, <3>3, LeaderDefines
        <3>5. PICK r, y : r = loaded[a].syms[k] /\ y = Replaced(x)
            OBVIOUS
        <3>6. d[1] = a /\ d[2] = r
            BY <3>4, <3>5
        <3>7. a \in DOMAIN loaded /\ k \in DOMAIN loaded[a].syms /\ Lands(a, r, y)
            BY <3>3, <3>5 DEF Leads, Seen
        <3>8. y = IF r.type = "ABS" THEN Val(r.offset) ELSE Place(a, r.section, r.offset)
            BY <2>4, <3>5, <3>6, <3>7, LandsAtMeaning
        <3> QED
            BY <1>1, <2>4, <3>5, <3>6, <3>8
    <2> QED
        BY <2>5, <2>6
<1> QED
    BY <1>2, <1>3

LEMMA SimplifiedLands ==
    ASSUME TypeInv, pc = "simplify", NothingUndefined, Landed, OwnNames,
           NEW e \in Expression, Faithful(e), Landing(e), With(e.source, {"LOC"}) = {}
    PROVE  Simplified(e).source = e.source /\ LandsRight(Simplified(e))
<1> DEFINE stack == Resolved(e).stack
           f     == Simplified(e)
<1>1. /\ DOMAIN Resolved(e) = DOMAIN e /\ "stack" \in DOMAIN Resolved(e)
      /\ Resolved(e).source = e.source /\ Resolved(e).by = e.by
      /\ stack = IF e.undefined THEN [k \in DOMAIN e.stack |-> Replaced(e.stack[k])]
                                ELSE e.stack
    <2>1. CASE e.undefined
        BY <2>1 DEF Resolved, Expression
    <2>2. CASE ~e.undefined
        BY <2>2 DEF Resolved, Expression
    <2> QED
        BY <2>1, <2>2
<1>2. f.source = e.source /\ f.by = e.by /\ f.stack = Folded(stack).v
    <2> DEFINE r == Resolved(e)
    <2>1. f = [r EXCEPT !.stack = Folded(@).v]
        BY DEF Simplified
    <2>2. /\ "stack" \in DOMAIN r
          /\ "source" \in DOMAIN r /\ "by" \in DOMAIN r
        BY <1>1 DEF Expression
    <2> HIDE DEF r, f
    <2>3. f.source = r.source /\ f.by = r.by /\ f.stack = Folded(r.stack).v
        BY <2>1, <2>2
    <2> QED
        BY <1>1, <2>3 DEF r
<1> HIDE DEF stack, f
<1> SUFFICES ASSUME \A k \in DOMAIN e.source : Tangible(e.by, e.source[k])
             PROVE  f.stack = Folded([k \in DOMAIN e.source |-> Meaning(e.by, e.source[k])]).v
    BY <1>2 DEF LandsRight, f
<1>3. ASSUME NEW k \in DOMAIN e.source
      PROVE  /\ Replaced(e.stack[k]) = Meaning(e.by, e.source[k])
             /\ e.stack[k].tag # "SYM" => Replaced(e.stack[k]) = e.stack[k]
             /\ e.stack[k].tag = "SYM" => e.undefined
    <2>1. PICK b, t, x : b = e.by /\ t = e.source[k] /\ x = e.stack[k]
        OBVIOUS
    <2>2. /\ b \in DOMAIN loaded /\ OperandLands(b, t, x) /\ Tangible(b, t)
          /\ k \in DOMAIN e.stack
        BY <2>1 DEF Landing, Begun
    <2>3. t.tag # "LOC"
        BY <2>1 DEF With
    <2>4. x.tag = "SYM" => /\ x.section \in DOMAIN symbols /\ t.tag = "SYM" /\ e.undefined
                           /\ symbols[x.section].name = loaded[b].syms[t.section].name
        BY <2>1, <2>2 DEF Faithful
    <2> QED
        BY <2>1, <2>2, <2>3, <2>4, OperandMeans
<1>4. DOMAIN e.stack = DOMAIN e.source
    BY DEF Landing
<1>5. stack = [k \in DOMAIN e.source |-> Meaning(e.by, e.source[k])]
    <2>1. CASE e.undefined
        BY <1>1, <1>3, <1>4, <2>1
    <2>2. CASE ~e.undefined
        <3>1. e.stack = [k \in DOMAIN e.stack |-> e.stack[k]]
            <4>1. e.stack \in Seq(Item)
                BY DEF Expression
            <4> QED
                BY <4>1
        <3>2. \A k \in DOMAIN e.source : e.stack[k] = Meaning(e.by, e.source[k])
            BY <1>3, <2>2
        <3> QED
            BY <1>1, <1>4, <2>2, <3>1, <3>2
    <2> QED
        BY <2>1, <2>2
<1> QED
    BY <1>2, <1>5

(* simplify() leaves the bytes where they are.                             *)
LEMMA MeaningKeeps ==
    ASSUME UNCHANGED loaded, DOMAIN sections' = DOMAIN sections,
           \A v \in DOMAIN sections : sections'[v].data = sections[v].data,
           NEW f, LandsRight(f)
    PROVE  LandsRight(f)'
<1>1. \A a, section, at : Placed(a, section, at)' = Placed(a, section, at)
    BY DEF Placed
<1>2. \A a, section, at : Place(a, section, at)' = Place(a, section, at)
    BY <1>1 DEF Place
<1>3. \A n : Definers(n)' = Definers(n)
    BY DEF Definers
<1>4. \A b, s : Definition(b, s)' = Definition(b, s)
    BY <1>3 DEF Definition
<1>5. \A b, t : Meaning(b, t)' = Meaning(b, t)
    BY <1>2, <1>4 DEF Meaning
<1>6. \A b, t : Tangible(b, t)' <=> Tangible(b, t)
    BY <1>1, <1>3, <1>4 DEF Tangible
<1>7. [k \in DOMAIN f.source |-> Meaning(f.by, f.source[k])]'
          = [k \in DOMAIN f.source |-> Meaning(f.by, f.source[k])]
    BY <1>5
<1> QED
    BY <1>6, <1>7 DEF LandsRight

(* Until simplify() every operand leads to its definition; after it every  *)
(* expression has the value of its operands.                               *)
LandInv ==
    /\ OwnSections /\ pc \notin {"linked", "aborted"} => Landed
    /\ pc = "linked" => (OwnNames /\ OwnSections => SymbolReferencesLand)

LEMMA NextLand ==
    ASSUME TypeInv, TableInv, NowReading, HistoryInv, LocalsInv, OperandsInv, BytesRead,
           NumbersInv, LandInv, [Next]_vars
    PROVE  LandInv'
<1>1. CASE UNCHANGED vars
    <2>1. UNCHANGED << pc, loaded, sections, symbols, local_symbols, module, i, remap_section >>
        BY <1>1 DEF vars
    <2>2. CASE pc \in {"linked", "aborted"}
        <3>1. \A f : LandsRight(f) => LandsRight(f)'
            BY <2>1, MeaningKeeps
        <3>2. SymbolReferencesLand => SymbolReferencesLand'
            BY <2>1, <3>1 DEF SymbolReferencesLand
        <3>3. (OwnNames' => OwnNames) /\ (OwnSections' => OwnSections)
            BY <2>1 DEF OwnNames, OwnSections, LinkerNames, SectionSymbols, UserSections
        <3> QED
            BY <2>1, <2>2, <3>2, <3>3 DEF LandInv
    <2>3. CASE pc \notin {"linked", "aborted"} /\ OwnSections'
        <3>1. OwnSections
            BY <2>1, <2>3, LoadedGrows
        <3>2. Landed
            BY <2>3, <3>1 DEF LandInv
        <3>3. TableLands' /\ LocalsLand' /\ ExpressionsLand' /\ EndNamed'
            BY <2>1, <2>3, <3>1, <3>2, NextTableLands, NextLocalsLand, NextExpressionsLand,
               NextEndNamed DEF Landed
        <3> QED
            BY <2>1, <2>3, <3>3 DEF LandInv, Landed
    <2> QED
        BY <2>1, <2>2, <2>3 DEF LandInv
<1>2. CASE pc' = "aborted"
    BY <1>2 DEF LandInv
<1>3. CASE pc' \notin {"linked", "aborted"} /\ OwnSections'
    <2>1. OwnSections
        BY <1>3, LoadedGrows
    <2>2. CASE pc \in {"linked", "aborted"}
        BY <1>1, <2>2, Endings DEF Final
    <2>3. CASE pc \notin {"linked", "aborted"}
        <3>1. Landed
            BY <2>1, <2>3 DEF LandInv
        <3>2. TableLands' /\ LocalsLand' /\ ExpressionsLand' /\ EndNamed'
            BY <1>3, <2>1, <3>1, NextTableLands, NextLocalsLand, NextExpressionsLand,
               NextEndNamed DEF Landed
        <3> QED
            BY <1>3, <3>2 DEF LandInv, Landed
    <2> QED
        BY <2>2, <2>3
<1>4. CASE simplify /\ pc' = "linked" /\ OwnNames' /\ OwnSections'
    <2>1. /\ pc = "simplify" /\ OwnNames /\ OwnSections /\ NothingUndefined
        BY <1>4, LoadedGrows DEF simplify, TableInv
    <2>2. Landed
        BY <2>1 DEF LandInv
    <2> SUFFICES ASSUME NEW v \in DOMAIN sections', NEW j \in DOMAIN sections'[v].expressions,
                        NEW f, f = sections'[v].expressions[j], With(f.source, {"LOC"}) = {}
                 PROVE  LandsRight(f)'
        BY <1>4 DEF LandInv, SymbolReferencesLand
    <2>0. /\ v \in DOMAIN sections /\ j \in DOMAIN sections[v].expressions
          /\ f = Simplified(sections[v].expressions[j])
        BY <1>4, SimplifiedSections
    <2> SUFFICES ASSUME NEW e, e = sections[v].expressions[j] PROVE LandsRight(f)'
        OBVIOUS
    <2>3. e \in Expression
        <3>1. sections[v].expressions \in Seq(Expression)
            BY <1>4, <2>0, SimplifiedSections, SectionParts
        <3> QED
            BY <2>0, <3>1
    <2>4. Faithful(e) /\ Landing(e)
        BY <2>0, <2>1, <2>2 DEF OperandsInv, Landed, ExpressionsLand
    <2>5. f.source = e.source
        <3>1. Resolved(e).source = e.source /\ "source" \in DOMAIN Resolved(e)
            BY <2>3 DEF Resolved, Expression
        <3> QED
            BY <2>0, <3>1 DEF Simplified
    <2>6. LandsRight(f)
        BY <2>0, <2>1, <2>2, <2>3, <2>4, <2>5, SimplifiedLands
    <2> QED
        BY <1>4, <2>6, SimplifiedSections, MeaningKeeps
<1> QED
    BY <1>1, <1>2, <1>3, <1>4, Endings DEF LandInv

(* A reference to a symbol ends up at the byte that the symbol labelled in *)
(* the module that defines it, or at its value, if no module defines one   *)
(* of the linker's own symbols or gives two sections one name.             *)
THEOREM ReferencesLand == Spec => [](OwnNames /\ OwnSections => SymbolReferencesLand)
<1>1. Init => BytesRead /\ LandInv
    <2> SUFFICES ASSUME Init PROVE BytesRead /\ Landed
        BY DEF LandInv, Init
    <2>1. /\ \A v \in DOMAIN sections : sections[v].data = << >>
          /\ \A v \in DOMAIN sections : sections[v].expressions = << >>
          /\ loaded = << >> /\ pc = "file"
        BY DEF Init, PredefinedSection
    <2>2. BytesRead /\ LocalsLand /\ ExpressionsLand
        BY <2>1 DEF BytesRead, LocalsLand, ExpressionsLand
    <2>3. \A k \in DOMAIN symbols : symbols[k].name \in LinkerNames
        <3>1. History /\ undefined_symbols = {}
            BY <2>1, InitHistory DEF Init, HistoryInv
        <3>2. \A n : ~Gives(n)
            BY <2>1 DEF Gives, SeenSymbols
        <3> QED
            BY <3>1, <3>2 DEF History, LinkerNames
    <2>4. Ends \subseteq DOMAIN symbols
        <3>1. /\ sections = [k \in Predefined |-> PredefinedSection(k)]
              /\ DOMAIN symbols = 1 .. 10
            BY DEF Init
        <3>2. \A k \in Predefined : sections[k].end_symbol \in 1 .. 10
            BY <3>1 DEF PredefinedSection, Predefined, PAGE0, UDATA
        <3> QED
            BY <3>1, <3>2 DEF Ends
    <2> QED
        BY <2>2, <2>3, <2>4 DEF Landed, TableLands, EndNamed
<1>2. /\ TypeInv /\ TableInv /\ NowReading /\ HistoryInv /\ LocalsInv /\ OperandsInv
      /\ NumbersInv /\ BytesRead /\ LandInv /\ [Next]_vars
      => BytesRead' /\ LandInv'
    BY BytesReadStays, NextLand
<1>3. LandInv => (OwnNames /\ OwnSections => SymbolReferencesLand)
    BY DEF LandInv, SymbolReferencesLand
<1> QED
    BY <1>1, <1>2, <1>3, InputStaysOpen, TableAlways, ReadingNow, HistoryAlways, LocalsAlways,
       OperandsAlways, NumbersAlways, PTL DEF Spec

-----------------------------------------------------------------------------
(* The end of a section is set from the sizes that the modules declare. It *)
(* is where the section ends if what the records of a module put into a    *)
(* section has the size that the module declares.                          *)

(* The section that the records of m before record j leave in hand.        *)
SectsBefore(m, j) == {k \in DOMAIN m.recs : k < j /\ m.recs[k].op = "SECT"}
Latest(S) == CHOOSE k \in S : \A q \in S : q <= k
InHand(m, j) == IF SectsBefore(m, j) = {} THEN CODE ELSE m.recs[Latest(SectsBefore(m, j))].n

(* The bytes that they put into section n: of record k, the p-th.          *)
Filling == {"DATA", "SPACE", "EXPR", "RELEXP"}
Into(m, n, k) == IF m.recs[k].op \in Filling /\ InHand(m, k) = n THEN m.recs[k].n ELSE 0
Assembled(m, n, j) ==
    UNION {{k} \X (1 .. Into(m, n, k)) : k \in {q \in DOMAIN m.recs : q < j}}
Given(m, n, j) == Cardinality(Assembled(m, n, j))

(* What the first j - 1 sections of m declare for number n.                *)
Declared(m, n, j) ==
    IF \E k \in DOMAIN m.secs : k < j /\ m.secs[k].number = n
    THEN m.secs[CHOOSE k \in DOMAIN m.secs : m.secs[k].number = n].size ELSE 0

(* Sections that are only a size hold no bytes.                            *)
HoldsBytes(m, n) == IF n \in Predefined THEN "REF_ONLY" \notin PredefinedFlags[n]
               ELSE \E k \in DOMAIN m.secs : /\ m.secs[k].number = n
                                             /\ "REF_ONLY" \notin m.secs[k].flags

SizesTrue(m) ==
    /\ \A j, k \in DOMAIN m.secs : m.secs[j].number = m.secs[k].number => j = k
    /\ \A n \in Predefined \cup {m.secs[k].number : k \in DOMAIN m.secs} : HoldsBytes(m, n) =>
           Given(m, n, Len(m.recs) + 1) = Declared(m, n, Len(m.secs) + 1)

TrueSizes == \A b \in DOMAIN loaded : SizesTrue(loaded[b])

LEMMA InHandMoves ==
    ASSUME NEW m \in Module
    PROVE  /\ InHand(m, 1) = CODE
           /\ \A j \in DOMAIN m.recs :
                  InHand(m, j + 1) = IF m.recs[j].op = "SECT" THEN m.recs[j].n ELSE InHand(m, j)
<1>1. m.recs \in Seq(Record) /\ DOMAIN m.recs \subseteq Nat \ {0}
    <2>1. m.recs \in Seq(Record)
        BY ModuleParts
    <2> QED
        BY <2>1
<1>2. SectsBefore(m, 1) = {}
    BY <1>1 DEF SectsBefore
<1>3. ASSUME NEW j \in DOMAIN m.recs, m.recs[j].op = "SECT"
      PROVE  InHand(m, j + 1) = m.recs[j].n
    <2> DEFINE S == SectsBefore(m, j + 1)
    <2>1. j \in S /\ \A q \in S : q <= j /\ q \in Nat
        BY <1>1, <1>3 DEF SectsBefore
    <2>2. PICK k : k = Latest(S)
        OBVIOUS
    <2> HIDE DEF S
    <2>3. k \in S /\ \A q \in S : q <= k
        BY <2>1, <2>2 DEF Latest
    <2>4. k = j
        BY <1>1, <2>1, <2>3
    <2>5. S # {} /\ S = SectsBefore(m, j + 1)
        BY <2>1 DEF S
    <2>6. InHand(m, j + 1) = m.recs[k].n
        BY <2>2, <2>5 DEF InHand
    <2> QED
        BY <2>4, <2>6
<1>4. ASSUME NEW j \in DOMAIN m.recs, m.recs[j].op # "SECT"
      PROVE  InHand(m, j + 1) = InHand(m, j)
    <2>1. SectsBefore(m, j + 1) = SectsBefore(m, j)
        BY <1>1, <1>4 DEF SectsBefore
    <2> QED
        BY <2>1 DEF InHand
<1> QED
    BY <1>2, <1>3, <1>4 DEF InHand

LEMMA GivenGrows ==
    ASSUME NEW m \in Module, NEW n
    PROVE  /\ Given(m, n, 1) = 0
           /\ \A j \in DOMAIN m.recs : /\ Given(m, n, j) \in Nat
                                       /\ Given(m, n, j + 1) = Given(m, n, j) + Into(m, n, j)
<1>0. m.recs \in Seq(Record) /\ DOMAIN m.recs = 1 .. Len(m.recs) /\ Len(m.recs) \in Nat
    <2>1. m.recs \in Seq(Record)
        BY ModuleParts
    <2> QED
        BY <2>1
<1>1. ASSUME NEW j \in DOMAIN m.recs
      PROVE  /\ Into(m, n, j) \in Nat
             /\ Assembled(m, n, j + 1) = Assembled(m, n, j) \cup ({j} \X (1 .. Into(m, n, j)))
             /\ Assembled(m, n, j) \cap ({j} \X (1 .. Into(m, n, j))) = {}
    <2>1. m.recs[j] \in Record
        BY <1>0, <1>1
    <2>2. Into(m, n, j) \in Nat
        BY <2>1 DEF Into, Record
    <2>3. {q \in DOMAIN m.recs : q < j + 1} = {q \in DOMAIN m.recs : q < j} \cup {j}
        BY <1>0, <1>1
    <2>4. Assembled(m, n, j + 1) = Assembled(m, n, j) \cup ({j} \X (1 .. Into(m, n, j)))
        BY <2>3 DEF Assembled
    <2>5. ASSUME NEW x \in Assembled(m, n, j), x \in {j} \X (1 .. Into(m, n, j)) PROVE FALSE
        <3>1. PICK q \in DOMAIN m.recs : q < j /\ x \in {q} \X (1 .. Into(m, n, q))
            BY <2>5 DEF Assembled
        <3>2. x[1] = q
            BY <3>1
        <3>3. x[1] = j
            BY <2>5
        <3>4. j \in Nat
            BY <1>0
        <3> QED
            BY <3>1, <3>2, <3>3, <3>4
    <2> QED
        BY <2>2, <2>4, <2>5
<1>2. ASSUME NEW j \in DOMAIN m.recs, IsFiniteSet(Assembled(m, n, j))
      PROVE  /\ IsFiniteSet(Assembled(m, n, j + 1))
             /\ Given(m, n, j) \in Nat
             /\ Given(m, n, j + 1) = Given(m, n, j) + Into(m, n, j)
    <2>1. PICK c, new, old : /\ c = Into(m, n, j) /\ new = {j} \X (1 .. c)
                             /\ old = Assembled(m, n, j)
        OBVIOUS
    <2>2. c \in Nat /\ Assembled(m, n, j + 1) = old \cup new /\ old \cap new = {}
        BY <1>1, <2>1
    <2>3. IsFiniteSet(1 .. c) /\ Cardinality(1 .. c) = c
        <3>1. 1 \in Int /\ c \in Int
            BY <2>2
        <3>2. IsFiniteSet(1 .. c) /\ Cardinality(1 .. c) = IF 1 > c THEN 0 ELSE c - 1 + 1
            BY <3>1, FS_Interval
        <3> QED
            BY <2>2, <3>2
    <2>4. IsFiniteSet({j}) /\ Cardinality({j}) = 1
        BY FS_Singleton
    <2>5. IsFiniteSet(new) /\ Cardinality(new) = c
        <3>1. IsFiniteSet(new) /\ Cardinality(new) = Cardinality({j}) * Cardinality(1 .. c)
            BY <2>1, <2>3, <2>4, FS_Product
        <3> QED
            BY <2>2, <2>3, <2>4, <3>1
    <2>6. IsFiniteSet(old) /\ Cardinality(old) \in Nat
        BY <1>2, <2>1, FS_CardinalityType
    <2>7. /\ IsFiniteSet(old \cup new)
          /\ Cardinality(old \cup new)
                 = Cardinality(old) + Cardinality(new) - Cardinality(old \cap new)
        BY <2>5, <2>6, FS_Union, Zenon
    <2>8. Cardinality(old \cap new) = 0
        BY <2>2, FS_EmptySet, Zenon
    <2>9. Cardinality(old \cup new) = Cardinality(old) + c
        BY <2>2, <2>5, <2>6, <2>7, <2>8
    <2>10. Given(m, n, j) = Cardinality(old) /\ Given(m, n, j + 1) = Cardinality(old \cup new)
        BY <2>1, <2>2, Zenon DEF Given
    <2> QED
        BY <2>1, <2>2, <2>6, <2>7, <2>9, <2>10
<1>3. Assembled(m, n, 1) = {}
    BY <1>0 DEF Assembled
<1>4. \A j \in DOMAIN m.recs : IsFiniteSet(Assembled(m, n, j))
    <2> DEFINE S == {j \in Nat : j + 1 \in DOMAIN m.recs => IsFiniteSet(Assembled(m, n, j + 1))}
    <2>1. 0 \in S
        BY <1>3, FS_EmptySet
    <2>2. ASSUME NEW j \in Nat, j \in S PROVE j + 1 \in S
        <3> SUFFICES ASSUME j + 1 + 1 \in DOMAIN m.recs
                     PROVE  IsFiniteSet(Assembled(m, n, j + 1 + 1))
            OBVIOUS
        <3>1. j + 1 \in DOMAIN m.recs
            BY <1>0
        <3>2. IsFiniteSet(Assembled(m, n, j + 1))
            BY <2>2, <3>1
        <3> QED
            BY <1>2, <3>1, <3>2
    <2> HIDE DEF S
    <2>3. Nat \subseteq S
        BY <2>1, <2>2, NatSets
    <2>4. ASSUME NEW j \in DOMAIN m.recs PROVE IsFiniteSet(Assembled(m, n, j))
        <3>1. j - 1 \in Nat /\ j - 1 + 1 = j
            BY <1>0
        <3>2. j - 1 \in S
            BY <2>3, <3>1
        <3>3. IsFiniteSet(Assembled(m, n, j - 1 + 1))
            BY <3>1, <3>2 DEF S
        <3> QED
            BY <3>1, <3>3
    <2> QED
        BY <2>4
<1> QED
    BY <1>2, <1>3, <1>4, FS_EmptySet DEF Given

(* When a loop of one_module() is done, all that it goes through was seen. *)
LEMMA AllGiven ==
    ASSUME NEW m \in Module, NEW n, NEW j \in Nat \ {0}
    PROVE  /\ j \notin DOMAIN m.recs => Given(m, n, j) = Given(m, n, Len(m.recs) + 1)
           /\ j \notin DOMAIN m.secs => Declared(m, n, j) = Declared(m, n, Len(m.secs) + 1)
<1>1. /\ DOMAIN m.recs = 1 .. Len(m.recs) /\ Len(m.recs) \in Nat
      /\ DOMAIN m.secs = 1 .. Len(m.secs) /\ Len(m.secs) \in Nat
    <2>1. m.recs \in Seq(Record) /\ m.secs \in Seq(LocalSection)
        BY ModuleParts
    <2> QED
        BY <2>1
<1>2. ASSUME j \notin DOMAIN m.recs
      PROVE  {q \in DOMAIN m.recs : q < j} = {q \in DOMAIN m.recs : q < Len(m.recs) + 1}
    BY <1>1, <1>2
<1>3. ASSUME j \notin DOMAIN m.secs
      PROVE  \A k \in DOMAIN m.secs : k < j <=> k < Len(m.secs) + 1
    BY <1>1, <1>3
<1>4. j \notin DOMAIN m.recs => Assembled(m, n, j) = Assembled(m, n, Len(m.recs) + 1)
    BY <1>2 DEF Assembled
<1>5. ASSUME j \notin DOMAIN m.secs
      PROVE  Declared(m, n, j) = Declared(m, n, Len(m.secs) + 1)
    <2>1. (\E k \in DOMAIN m.secs : k < j /\ m.secs[k].number = n)
          <=> (\E k \in DOMAIN m.secs : k < Len(m.secs) + 1 /\ m.secs[k].number = n)
        BY <1>3, <1>5
    <2> QED
        BY <2>1 DEF Declared
<1> QED
    BY <1>4, <1>5 DEF Given

(* What a step does to the sections, but for the expressions in them.      *)
SameHead(v) ==
    /\ v \in DOMAIN sections'
    /\ sections'[v].flags = sections[v].flags /\ sections'[v].size = sections[v].size
    /\ sections'[v].end_symbol = sections[v].end_symbol

LEMMA OnlySections ==
    ASSUME TypeInv, [Next]_vars, pc' # "aborted", ~OneSection
    PROVE  DOMAIN sections' = DOMAIN sections /\ \A v \in DOMAIN sections : SameHead(v)
<1>1. ASSUME UNCHANGED sections
      PROVE  DOMAIN sections' = DOMAIN sections /\ \A v \in DOMAIN sections : SameHead(v)
    BY <1>1 DEF SameHead
<1>2. CASE OneSymbol
    BY <1>1, <1>2, SymbolCases DEF Abort, SymbolsDone, globals
<1>3. CASE Adding
    <2>1. sections \in Seq(Section) /\ DOMAIN sections' = DOMAIN sections
        BY <1>3, RecordsAdd
    <2>2. CASE RecordData
        <3>1. sections' = [sections EXCEPT ![current_section].data = @ \o Bytes(Rec.n)]
            BY <2>2 DEF RecordData
        <3> QED
            BY <2>1, <3>1 DEF Section, SameHead
    <2>3. CASE RecordExpression
        <3>1. sections' = [sections EXCEPT
                 ![current_section].data = @ \o Bytes(Rec.n),
                 ![current_section].expressions = Append(@, NewExpression(Rec))]
            BY <2>3 DEF RecordExpression, Abort
        <3> QED
            BY <2>1, <3>1 DEF Section, SameHead
    <2> QED
        BY <1>3, <2>2, <2>3 DEF Adding
<1>4. CASE OneRecord /\ ~Adding
    BY <1>1, <1>4 DEF OneRecord, RecordSection, RecordOrg, RecordSkipped, RecordsDone,
                      Adding, Abort, globals
<1>5. CASE OneFile
    BY <1>1, <1>5 DEF OneFile, FileRefused, FileIsLibrary, FileOpened, FileModule,
                      FileDone, FilesDone, globals
<1>6. CASE OneLibrary
    BY <1>1, <1>6 DEF OneLibrary, LibraryMissing, LibraryNowhere, LibraryOpened,
                      LibraryModule, LibraryRound, LibrariesDone, globals
<1>7. CASE simplify
    <2>1. pc' = "linked"
        BY <1>7 DEF simplify, Abort
    <2> QED
        BY <1>7, <2>1, SimplifiedSections DEF Section, SameHead
<1>8. CASE Finish /\ ~simplify
    BY <1>1, <1>8 DEF Finish, CheckUndefined, generate_end, globals
<1> QED
    BY <1>1, <1>2, <1>3, <1>4, <1>5, <1>6, <1>7, <1>8 DEF Next, Ended, vars

(* The section that the section in hand of the module goes to.             *)
Target == IF Sec.number \in Predefined THEN Sec.number
          ELSE IF Sec.name \in DOMAIN section_map THEN section_map[Sec.name]
          ELSE Len(sections) + 1

SectionEnters ==
    /\ Sec \in LocalSection /\ i \in DOMAIN module.secs /\ i' = i + 1
    /\ pc = "sections" /\ pc' = "sections" /\ UNCHANGED << module, loaded, current >>
    /\ remap_section' = IF Sec.number \in Predefined THEN remap_section
                        ELSE Bind(remap_section, Sec.number, Target)
    /\ DOMAIN sections' = DOMAIN sections \cup {Target}
    /\ \A w \in DOMAIN sections : w # Target => sections'[w] = sections[w]
    /\ Target \in DOMAIN sections =>
           /\ sections'[Target].size = sections[Target].size + Sec.size
           /\ sections'[Target].data = sections[Target].data
           /\ sections'[Target].flags = sections[Target].flags
           /\ sections'[Target].end_symbol = sections[Target].end_symbol
    /\ Target \notin DOMAIN sections =>
           sections'[Target].size = Sec.size /\ sections'[Target].data = << >>
    /\ Sec.number \notin Predefined => sections'[Target].flags = Sec.flags

LEMMA SectionsEnter ==
    ASSUME TypeInv, OneSection, pc' # "aborted"
    PROVE  SectionsDone \/ SectionEnters
<1>0. pc = "sections" /\ Tables /\ sections \in Seq(Section)
    BY PhaseOf, TablesTyped DEF Final, Tables
<1> SUFFICES ASSUME AtSection, SectionPredefined \/ SectionNew \/ (SectionKnown /\ ~Abort)
             PROVE  SectionEnters
    BY DEF OneSection, SectionPredefined, SectionNew, SectionKnown, Abort
<1>1. /\ Sec \in LocalSection /\ i \in DOMAIN module.secs /\ i' = i + 1
      /\ pc = "sections" /\ pc' = "sections" /\ UNCHANGED << module, loaded, current >>
    <2>1. NextItem
        BY DEF SectionPredefined, SectionNew, SectionKnown
    <2> QED
        BY <1>0, <2>1, ItemTypes DEF NextItem, AtSection, TypeInv
<1>2. CASE SectionPredefined
    <2>1. /\ Target = Sec.number /\ Target \in DOMAIN sections /\ Sec.number \in Predefined
          /\ UNCHANGED remap_section
          /\ sections' = [sections EXCEPT ![Target].size = @ + Sec.size]
        BY <1>0, <1>2 DEF SectionPredefined, Target, Tables
    <2>2. sections[Target] \in Section
        BY <1>0, <2>1
    <2>3. /\ sections'[Target].size = sections[Target].size + Sec.size
          /\ sections'[Target].data = sections[Target].data
          /\ sections'[Target].flags = sections[Target].flags
          /\ sections'[Target].end_symbol = sections[Target].end_symbol
        BY <1>0, <2>1, <2>2 DEF Section
    <2> QED
        BY <1>0, <1>1, <2>1, <2>3 DEF SectionEnters
<1>3. CASE SectionNew
    <2>1. /\ Target = Len(sections) + 1 /\ Sec.number \notin Predefined
          /\ remap_section' = Bind(remap_section, Sec.number, Target)
        BY <1>3 DEF SectionNew, Target
    <2>2. PICK s : /\ sections' = Append(sections, s) /\ s.size = Sec.size
                   /\ s.data = << >> /\ s.flags = Sec.flags
        BY <1>3 DEF SectionNew
    <2>3. /\ Target \notin DOMAIN sections /\ DOMAIN sections' = DOMAIN sections \cup {Target}
          /\ sections'[Target] = s
          /\ \A w \in DOMAIN sections : sections'[w] = sections[w]
        BY <1>0, <2>1, <2>2
    <2> QED
        BY <1>1, <2>1, <2>2, <2>3 DEF SectionEnters
<1>4. CASE SectionKnown /\ ~Abort
    <2>1. /\ Target = section_map[Sec.name] /\ Sec.number \notin Predefined
          /\ Target \in DOMAIN sections
        BY <1>0, <1>4 DEF SectionKnown, Target, Tables
    <2>2. /\ remap_section' = Bind(remap_section, Sec.number, Target)
          /\ sections' = [sections EXCEPT ![Target].size = @ + Sec.size]
          /\ sections[Target].flags = Sec.flags
        BY <1>4, <2>1 DEF SectionKnown
    <2>3. sections[Target] \in Section
        BY <1>0, <2>1
    <2>4. /\ sections'[Target].size = sections[Target].size + Sec.size
          /\ sections'[Target].data = sections[Target].data
          /\ sections'[Target].flags = sections[Target].flags
          /\ sections'[Target].end_symbol = sections[Target].end_symbol
        BY <1>0, <2>1, <2>2, <2>3 DEF Section
    <2> QED
        BY <1>0, <1>1, <2>1, <2>2, <2>4 DEF SectionEnters
<1> QED
    BY <1>2, <1>3, <1>4

(* How far the sections and the records of the module were read.           *)
SecsRead == IF pc = "sections" THEN i ELSE Len(module.secs) + 1
RecsRead == IF pc = "records" THEN i ELSE 1

(* A section has the flags that its modules give it.                       *)
FlaggedBy(n) ==
    \E k \in DOMAIN module.secs : /\ k < SecsRead /\ module.secs[k].number = n
                                  /\ sections[remap_section[n]].flags = module.secs[k].flags
FlagsInv ==
    /\ \A v \in Predefined : sections[v].flags = PredefinedFlags[v]
    /\ ReadingModule => /\ Predefined \subseteq DOMAIN remap_section
                        /\ \A n \in DOMAIN remap_section \ Predefined : FlaggedBy(n)

LEMMA NextFlags ==
    ASSUME TypeInv, FlagsInv, [Next]_vars
    PROVE  FlagsInv'
<1>0. /\ Predefined \subseteq DOMAIN sections /\ module \in Module
      /\ remap_section \in [DOMAIN remap_section -> DOMAIN sections]
    BY DEF TypeInv, TypeOK
<1>1. CASE pc' = "aborted"
    <2>1. Abort \/ UNCHANGED vars
        BY <1>1, Endings
    <2> QED
        BY <1>1, <2>1 DEF Abort, globals, vars, FlagsInv, ReadingModule
<1>2. CASE pc' # "aborted" /\ OneSection
    <2>0. ReadingModule /\ pc = "sections"
        BY <1>2, PhaseOf DEF ReadingModule
    <2>1. CASE SectionsDone
        <3>1. /\ UNCHANGED << sections, remap_section, module >>
              /\ \A k \in DOMAIN module.secs : k < SecsRead'
            <4>1. module.secs \in Seq(LocalSection)
                BY <1>0, ModuleParts
            <4> QED
                BY <2>1, <4>1 DEF SectionsDone, globals, frame, SecsRead
        <3> QED
            BY <2>0, <3>1 DEF FlagsInv, FlaggedBy
    <2>2. CASE SectionEnters
        <3>1. \A v \in Predefined : sections'[v].flags = sections[v].flags
            BY <1>0, <2>2 DEF SectionEnters
        <3>2. ASSUME NEW n \in DOMAIN remap_section', n \notin Predefined PROVE FlaggedBy(n)'
            <4>1. /\ UNCHANGED module /\ SecsRead' = i + 1 /\ SecsRead = i
                  /\ i \in DOMAIN module.secs /\ i < i + 1 /\ Sec = module.secs[i]
                <5>1. i \in Nat
                    BY DEF TypeInv, TypeOK
                <5> QED
                    BY <2>2, <5>1 DEF SectionEnters, SecsRead, Sec
            <4>2. CASE n = Sec.number
                <5>1. remap_section'[n] = Target
                    BY <2>2, <3>2, <4>2 DEF SectionEnters, Bind
                <5> QED
                    BY <2>2, <3>2, <4>1, <4>2, <5>1 DEF SectionEnters, FlaggedBy
            <4>3. CASE n # Sec.number
                <5>1. n \in DOMAIN remap_section /\ remap_section'[n] = remap_section[n]
                    BY <2>2, <3>2, <4>3 DEF SectionEnters, Bind
                <5>2. sections'[remap_section[n]].flags = sections[remap_section[n]].flags
                    BY <1>0, <2>2, <5>1 DEF SectionEnters
                <5>3. PICK k \in DOMAIN module.secs :
                          /\ k < SecsRead /\ module.secs[k].number = n
                          /\ sections[remap_section[n]].flags = module.secs[k].flags
                    BY <2>0, <3>2, <5>1 DEF FlagsInv, FlaggedBy
                <5>4. k \in Nat /\ i \in Nat
                    <6>1. module.secs \in Seq(LocalSection)
                        BY <1>0, ModuleParts
                    <6> QED
                        BY <6>1 DEF TypeInv, TypeOK
                <5> QED
                    BY <4>1, <5>1, <5>2, <5>3, <5>4 DEF FlaggedBy
            <4> QED
                BY <4>2, <4>3
        <3>3. Predefined \subseteq DOMAIN remap_section'
            BY <2>0, <2>2 DEF SectionEnters, Bind, FlagsInv
        <3> QED
            BY <3>1, <3>2, <3>3 DEF FlagsInv
    <2> QED
        BY <1>2, <2>1, <2>2, SectionsEnter
<1>3. CASE pc' # "aborted" /\ ~OneSection
    <2>1. \A v \in DOMAIN sections : sections'[v].flags = sections[v].flags
        BY <1>3, OnlySections DEF SameHead
    <2>2. CASE \E m : Enter(m)
        <3>1. remap_section' = IdentityRemap
            BY <2>2 DEF Enter
        <3> QED
            BY <1>0, <2>1, <3>1 DEF FlagsInv, IdentityRemap
    <2>3. CASE ReadingModule' /\ ~\E m : Enter(m)
        <3>1. pc' \in {"symbols", "records"} \/ UNCHANGED vars
            <4>1. CASE pc' = "sections"
                <5>1. pc = "sections"
                    BY <2>3, <4>1, Flow DEF Abort
                <5> QED
                    BY <1>3, <5>1, PhaseOf DEF Next, Final
            <4> QED
                BY <2>3, <4>1 DEF ReadingModule
        <3>2. CASE UNCHANGED vars
            BY <3>2 DEF vars, FlagsInv, FlaggedBy, ReadingModule, SecsRead
        <3>3. CASE pc' \in {"symbols", "records"}
            <4>1. UNCHANGED module /\ pc \in {"sections", "symbols", "records"}
                BY <3>3, ReadingKeeps
            <4>2. pc # "sections"
                BY <1>3, <3>3, PhaseOf DEF Next, Ended, vars, Final
            <4>3. UNCHANGED remap_section /\ SecsRead' = SecsRead /\ ReadingModule
                BY <3>3, <4>1, <4>2, ReadingKeeps DEF SecsRead, ReadingModule
            <4> QED
                BY <1>0, <2>1, <4>1, <4>3 DEF FlagsInv, FlaggedBy
        <3> QED
            BY <3>1, <3>2, <3>3
    <2>4. CASE ~ReadingModule'
        BY <1>0, <2>1, <2>4 DEF FlagsInv
    <2> QED
        BY <2>2, <2>3, <2>4
<1> QED
    BY <1>1, <1>2, <1>3

LEMMA FlagsAlways == Spec => []FlagsInv
<1>1. Init => FlagsInv
    BY DEF Init, FlagsInv, ReadingModule, PredefinedSection
<1> QED
    BY <1>1, NextFlags, InputStaysOpen, PTL DEF Spec

(* The bytes of a section and the size declared for it, where the module   *)
(* that is read has yet to put what it declared.                           *)
HasData(s) == "REF_ONLY" \notin s.flags
OpenSection(v) == ReadingModule /\ \E n \in DOMAIN remap_section : remap_section[n] = v
Owing(n) ==
    LET s == sections[remap_section[n]]
    IN  HasData(s) => s.size + Given(module, n, RecsRead)
                          = Len(s.data) + Declared(module, n, SecsRead)

SizesInv ==
    TrueSizes /\ OwnSections /\ pc # "aborted" =>
        /\ \A v \in DOMAIN sections :
               HasData(sections[v]) /\ ~OpenSection(v) => sections[v].size = Len(sections[v].data)
        /\ ReadingModule => /\ current = InHand(module, RecsRead)
                            /\ \A n \in DOMAIN remap_section : Owing(n)

LEMMA TrueSizesBefore ==
    ASSUME TypeInv, NowReading, [Next]_vars, pc' # "aborted", TrueSizes', OwnSections'
    PROVE  /\ TrueSizes /\ OwnSections
           /\ ReadingModule => SizesTrue(module)
           /\ ReadingModule' => SizesTrue(module')
<1>1. \A b \in DOMAIN loaded : b \in DOMAIN loaded' /\ loaded'[b] = loaded[b]
    BY LoadedGrows
<1>2. TrueSizes /\ OwnSections
    BY <1>1, LoadedGrows DEF TrueSizes
<1>3. NowReading'
    BY NextReading
<1>4. loaded \in Seq(Module) /\ loaded' \in Seq(Module)
    BY NextTypes DEF TypeInv, TypeOK
<1>5. ReadingModule => SizesTrue(module)
    <2>1. loaded # << >> => Len(loaded) \in DOMAIN loaded
        BY <1>4
    <2> QED
        BY <1>2, <2>1 DEF NowReading, TrueSizes
<1>6. ReadingModule' => SizesTrue(module')
    <2>1. loaded' # << >> => Len(loaded') \in DOMAIN loaded'
        BY <1>4
    <2> QED
        BY <1>3, <2>1 DEF NowReading, TrueSizes
<1> QED
    BY <1>2, <1>5, <1>6

LEMMA DeclaredGrows ==
    ASSUME NEW m \in Module, NEW n
    PROVE  /\ Declared(m, n, 1) = 0 /\ \A j : Declared(m, n, j) \in Nat
           /\ SizesTrue(m) => \A j \in DOMAIN m.secs :
                  IF m.secs[j].number = n
                  THEN Declared(m, n, j) = 0 /\ Declared(m, n, j + 1) = m.secs[j].size
                  ELSE Declared(m, n, j + 1) = Declared(m, n, j)
<1>1. m.secs \in Seq(LocalSection) /\ DOMAIN m.secs = 1 .. Len(m.secs) /\ Len(m.secs) \in Nat
    <2>1. m.secs \in Seq(LocalSection)
        BY ModuleParts
    <2> QED
        BY <2>1
<1>2. Declared(m, n, 1) = 0
    BY <1>1 DEF Declared
<1>3. PICK c : c = CHOOSE k \in DOMAIN m.secs : m.secs[k].number = n
    OBVIOUS
<1>4. \A k \in DOMAIN m.secs : m.secs[k].number = n => c \in DOMAIN m.secs /\ m.secs[c].number = n
    BY <1>3
<1>5. \A j : Declared(m, n, j) =
          IF \E k \in DOMAIN m.secs : k < j /\ m.secs[k].number = n THEN m.secs[c].size ELSE 0
    BY <1>3 DEF Declared
<1>6. \A j : Declared(m, n, j) \in Nat
    <2>1. \A k \in DOMAIN m.secs : m.secs[k].size \in Nat
        <3>1. \A k \in DOMAIN m.secs : m.secs[k] \in LocalSection
            BY <1>1
        <3> QED
            BY <3>1 DEF LocalSection
    <2> QED
        BY <1>4, <1>5, <2>1
<1>7. ASSUME SizesTrue(m), NEW j \in DOMAIN m.secs, m.secs[j].number = n
      PROVE  Declared(m, n, j) = 0 /\ Declared(m, n, j + 1) = m.secs[j].size
    <2>1. \A k \in DOMAIN m.secs : m.secs[k].number = n => k = j
        BY <1>7 DEF SizesTrue
    <2>2. c = j
        BY <1>4, <1>7, <2>1
    <2>3. j \in Nat /\ j < j + 1 /\ ~(j < j)
        BY <1>1
    <2>4. Declared(m, n, j) = 0
        BY <1>5, <2>1, <2>3
    <2>5. Declared(m, n, j + 1) = m.secs[j].size
        BY <1>5, <1>7, <2>2, <2>3
    <2> QED
        BY <2>4, <2>5
<1>8. ASSUME NEW j \in DOMAIN m.secs, m.secs[j].number # n
      PROVE  Declared(m, n, j + 1) = Declared(m, n, j)
    <2>1. \A k \in DOMAIN m.secs : k < j + 1 <=> k < j \/ k = j
        BY <1>1
    <2>2. (\E k \in DOMAIN m.secs : k < j + 1 /\ m.secs[k].number = n)
          <=> (\E k \in DOMAIN m.secs : k < j /\ m.secs[k].number = n)
        BY <1>8, <2>1
    <2> QED
        BY <1>5, <2>2
<1> QED
    BY <1>2, <1>6, <1>7, <1>8

(* A step that adds nothing to what the module has declared or put.        *)
LEMMA QuietSizes ==
    ASSUME TypeInv, SizesInv, TrueSizes, OwnSections, pc # "aborted",
           DOMAIN sections' = DOMAIN sections,
           \A v \in DOMAIN sections : SameHead(v) /\ sections'[v].data = sections[v].data,
           ReadingModule' <=> ReadingModule,
           ReadingModule =>
               /\ UNCHANGED << module, remap_section >> /\ current' = InHand(module, RecsRead')
               /\ \A n : /\ Given(module, n, RecsRead') = Given(module, n, RecsRead)
                         /\ Declared(module, n, SecsRead') = Declared(module, n, SecsRead)
    PROVE  SizesInv'
<1>1. \A v \in DOMAIN sections :
          /\ HasData(sections'[v]) <=> HasData(sections[v])
          /\ sections'[v].size = sections[v].size /\ sections'[v].data = sections[v].data
    BY DEF SameHead, HasData
<1>2. /\ \A v \in DOMAIN sections :
             HasData(sections[v]) /\ ~OpenSection(v) => sections[v].size = Len(sections[v].data)
      /\ ReadingModule => \A n \in DOMAIN remap_section : Owing(n)
    BY DEF SizesInv
<1>3. \A v : OpenSection(v)' <=> OpenSection(v)
    BY DEF OpenSection
<1>4. ASSUME ReadingModule, NEW n \in DOMAIN remap_section PROVE Owing(n)'
    <2>1. PICK v : v = remap_section[n]
        OBVIOUS
    <2>2. v \in DOMAIN sections /\ remap_section'[n] = v
        BY <1>4, <2>1 DEF TypeInv, TypeOK
    <2>3. /\ Given(module', n, RecsRead') = Given(module, n, RecsRead)
          /\ Declared(module', n, SecsRead') = Declared(module, n, SecsRead)
        BY <1>4
    <2>4. Owing(n)
        BY <1>2, <1>4
    <2>5. HasData(sections[v]) =>
              sections[v].size + Given(module, n, RecsRead)
                  = Len(sections[v].data) + Declared(module, n, SecsRead)
        BY <2>1, <2>4 DEF Owing
    <2>6. HasData(sections'[v]) =>
              sections'[v].size + Given(module', n, RecsRead')
                  = Len(sections'[v].data) + Declared(module', n, SecsRead')
        BY <1>1, <2>2, <2>3, <2>5
    <2> QED
        BY <2>2, <2>6 DEF Owing
<1> QED
    BY <1>1, <1>2, <1>3, <1>4 DEF SizesInv

(* The section in hand goes to none of the sections that other numbers of  *)
(* the module lead to.                                                     *)
LEMMA TargetApart ==
    ASSUME TypeInv, NowReading, NumbersInv, FlagsInv, OwnSections, pc = "sections",
           Len(loaded) \in DOMAIN loaded, i \in DOMAIN module.secs,
           NEW n \in DOMAIN remap_section, n # Sec.number
    PROVE  remap_section[n] # Target
<1>0. ReadingModule /\ module = loaded[Len(loaded)] /\ NumberLeads(n) /\ SectionsApart
    BY DEF ReadingModule, NowReading, NumbersInv
<1>1. CASE Sec.number \in Predefined
    <2>1. Sec.number \in DOMAIN remap_section /\ Target = Sec.number
        BY <1>0, <1>1 DEF FlagsInv, Target
    <2>2. remap_section[Sec.number] = Sec.number
        BY <1>0, <1>1, <2>1 DEF NumbersInv, NumberLeads
    <2> QED
        BY <1>0, <2>1, <2>2, NumbersApart
<1>2. CASE Sec.number \notin Predefined /\ Sec.name \in DOMAIN section_map
    <2>1. Target = section_map[Sec.name] /\ Target \notin Predefined
        BY <1>0, <1>2 DEF Target, SectionsApart
    <2>2. CASE n \in Predefined
        BY <1>0, <2>1, <2>2 DEF NumberLeads
    <2>3. CASE n \notin Predefined
        <3>1. PICK k \in DOMAIN module.secs :
                  /\ module.secs[k].number = n /\ module.secs[k].name \in DOMAIN section_map
                  /\ remap_section[n] = section_map[module.secs[k].name]
            BY <1>0, <2>3 DEF NumberLeads
        <3>2. module.secs[k].name # Sec.name
            BY <1>0, <1>2, <2>3, <3>1 DEF OwnSections, Sec
        <3> QED
            BY <1>0, <1>2, <2>1, <3>1, <3>2 DEF SectionsApart
    <2> QED
        BY <2>2, <2>3
<1>3. CASE Sec.number \notin Predefined /\ Sec.name \notin DOMAIN section_map
    <2>1. sections \in Seq(Section) /\ remap_section[n] \in DOMAIN sections
        BY DEF TypeInv, TypeOK
    <2>2. Target = Len(sections) + 1
        BY <1>3 DEF Target
    <2> QED
        BY <2>1, <2>2
<1> QED
    BY <1>1, <1>2, <1>3

LEMMA SectionSizes ==
    ASSUME TypeInv, NowReading, NumbersInv, FlagsInv, SizesInv, TrueSizes, OwnSections,
           Len(loaded) \in DOMAIN loaded, SizesTrue(module), SectionEnters
    PROVE  SizesInv'
<1>a. PICK c, t : c = Sec.number /\ t = Target
    OBVIOUS
<1>0. /\ pc = "sections" /\ pc' = "sections" /\ ReadingModule /\ ReadingModule'
      /\ UNCHANGED << module, current >> /\ module \in Module
      /\ i \in DOMAIN module.secs /\ i' = i + 1 /\ Sec = module.secs[i] /\ Sec \in LocalSection
      /\ sections \in Seq(Section) /\ remap_section \in [DOMAIN remap_section -> DOMAIN sections]
      /\ c = Sec.number /\ t = Target
    BY <1>a DEF SectionEnters, ReadingModule, TypeInv, TypeOK, Sec
<1>1. /\ \A v \in DOMAIN sections :
             HasData(sections[v]) /\ ~OpenSection(v) => sections[v].size = Len(sections[v].data)
      /\ current = InHand(module, 1)
      /\ \A n \in DOMAIN remap_section : Owing(n)
    BY <1>0 DEF SizesInv, RecsRead
<1>2. /\ SecsRead = i /\ SecsRead' = i + 1 /\ RecsRead = 1 /\ RecsRead' = 1
    BY <1>0 DEF SecsRead, RecsRead
<1>3. \A n : /\ Given(module, n, 1) = 0 /\ Declared(module, n, i) \in Nat
             /\ IF n = c THEN Declared(module, n, i) = 0 /\ Declared(module, n, i + 1) = Sec.size
                ELSE Declared(module, n, i + 1) = Declared(module, n, i)
    <2>1. module \in Module /\ i \in DOMAIN module.secs /\ module.secs[i].number = c
          /\ module.secs[i].size = Sec.size
        BY <1>0
    <2>2. \A n : Given(module, n, 1) = 0
        BY <2>1, GivenGrows
    <2>3. \A n : Declared(module, n, i) \in Nat
        BY <2>1, DeclaredGrows
    <2>4. \A n : IF module.secs[i].number = n
                 THEN Declared(module, n, i) = 0
                      /\ Declared(module, n, i + 1) = module.secs[i].size
                 ELSE Declared(module, n, i + 1) = Declared(module, n, i)
        BY <2>1, DeclaredGrows
    <2> QED
        BY <2>1, <2>2, <2>3, <2>4
<1>4. \A n \in DOMAIN remap_section : n # c => remap_section[n] # t
    BY <1>0, TargetApart
<1>5. /\ DOMAIN remap_section' = DOMAIN remap_section \cup {c} /\ remap_section'[c] = t
      /\ \A n \in DOMAIN remap_section : n # c => remap_section'[n] = remap_section[n]
    <2>1. CASE c \in Predefined
        <3>1. c \in DOMAIN remap_section /\ remap_section[c] = c
            BY <1>0, <2>1 DEF FlagsInv, NumbersInv, NumberLeads
        <3> QED
            BY <1>0, <2>1, <3>1 DEF SectionEnters, Target
    <2>2. CASE c \notin Predefined
        BY <1>0, <2>2 DEF SectionEnters, Bind
    <2> QED
        BY <2>1, <2>2
<1>6. c \notin Predefined => c \notin DOMAIN remap_section
    <2> SUFFICES ASSUME c \notin Predefined, c \in DOMAIN remap_section PROVE FALSE
        OBVIOUS
    <2>1. PICK k \in DOMAIN module.secs : k < i /\ module.secs[k].number = c
        BY <1>0, <1>2 DEF FlagsInv, FlaggedBy
    <2>2. k = i
        BY <1>0, <2>1 DEF SizesTrue
    <2>3. i \in Nat
        BY DEF TypeInv, TypeOK
    <2> QED
        BY <2>1, <2>2, <2>3
<1>7. /\ Sec.size \in Nat /\ \A v \in DOMAIN sections : /\ sections[v].size \in Nat
                                                        /\ Len(sections[v].data) \in Nat
    <2>1. \A v \in DOMAIN sections : sections[v] \in Section
        BY <1>0
    <2> QED
        BY <1>0, <2>1, SectionParts DEF LocalSection
<1>8. /\ \A w \in DOMAIN sections : w # t => sections'[w] = sections[w]
      /\ t \in DOMAIN sections =>
             /\ sections'[t].size = sections[t].size + Sec.size
             /\ sections'[t].data = sections[t].data
             /\ HasData(sections'[t]) <=> HasData(sections[t])
      /\ t \notin DOMAIN sections =>
             sections'[t].size = Sec.size /\ sections'[t].data = << >>
      /\ DOMAIN sections' = DOMAIN sections \cup {t}
    BY <1>0 DEF SectionEnters, HasData
<1>9. Owing(c)'
    <2> SUFFICES ASSUME HasData(sections'[t])
                 PROVE  sections'[t].size = Len(sections'[t].data) + Sec.size
        <3> SUFFICES (HasData(sections'[t]) =>
                         sections'[t].size + Given(module', c, RecsRead')
                             = Len(sections'[t].data) + Declared(module', c, SecsRead'))
            BY <1>5 DEF Owing
        <3> SUFFICES ASSUME HasData(sections'[t])
                     PROVE  sections'[t].size + 0 = Len(sections'[t].data) + Sec.size
            BY <1>0, <1>2, <1>3
        <3> QED
            BY <1>7, <1>8
    <2>1. CASE t \notin DOMAIN sections
        BY <1>7, <1>8, <2>1
    <2>2. CASE t \in DOMAIN sections
        <3>1. HasData(sections[t])
            BY <1>8, <2>2
        <3>2. sections[t].size = Len(sections[t].data)
            <4>1. CASE c \in Predefined
                <5>1. c \in DOMAIN remap_section /\ remap_section[c] = t
                    BY <1>0, <4>1 DEF FlagsInv, NumbersInv, NumberLeads, Target
                <5>2. Owing(c)
                    BY <1>1, <5>1
                <5>3. sections[t].size + 0 = Len(sections[t].data) + 0
                    BY <1>2, <1>3, <3>1, <5>1, <5>2 DEF Owing
                <5> QED
                    BY <1>7, <2>2, <5>3
            <4>2. CASE c \notin Predefined
                <5>1. ~OpenSection(t)
                    BY <1>4, <1>6, <4>2 DEF OpenSection
                <5> QED
                    BY <1>1, <2>2, <3>1, <5>1
            <4> QED
                BY <4>1, <4>2
        <3> QED
            BY <1>8, <2>2, <3>2
    <2> QED
        BY <2>1, <2>2
<1>10. ASSUME NEW n \in DOMAIN remap_section, n # c PROVE Owing(n)'
    <2>1. PICK v : v = remap_section[n]
        OBVIOUS
    <2>2. v \in DOMAIN sections /\ remap_section'[n] = v /\ sections'[v] = sections[v]
        BY <1>0, <1>4, <1>5, <1>8, <1>10, <2>1
    <2>3. Owing(n)
        BY <1>1
    <2>4. HasData(sections[v]) =>
              sections[v].size + Given(module, n, 1)
                  = Len(sections[v].data) + Declared(module, n, i)
        BY <1>2, <2>1, <2>3 DEF Owing
    <2>5. HasData(sections'[v]) =>
              sections'[v].size + Given(module', n, RecsRead')
                  = Len(sections'[v].data) + Declared(module', n, SecsRead')
        <3>1. Declared(module, n, i + 1) = Declared(module, n, i)
            BY <1>3, <1>10
        <3> QED
            BY <1>0, <1>2, <2>2, <2>4, <3>1
    <2> QED
        BY <2>2, <2>5 DEF Owing
<1>11. ASSUME NEW v \in DOMAIN sections', HasData(sections'[v]), ~OpenSection(v)'
       PROVE  sections'[v].size = Len(sections'[v].data)
    <2>1. v # t
        BY <1>0, <1>5, <1>11 DEF OpenSection
    <2>2. v \in DOMAIN sections /\ sections'[v] = sections[v]
        BY <1>8, <2>1
    <2>3. ~OpenSection(v)
        <3> SUFFICES ASSUME NEW n \in DOMAIN remap_section, remap_section[n] = v PROVE FALSE
            BY DEF OpenSection
        <3>1. CASE n # c
            BY <1>0, <1>5, <1>11, <3>1 DEF OpenSection
        <3>2. CASE n = c
            BY <1>0, <1>6, <2>1, <3>2 DEF NumbersInv, NumberLeads, Target
        <3> QED
            BY <3>1, <3>2
    <2> QED
        BY <1>1, <1>11, <2>2, <2>3
<1>12. \A n \in DOMAIN remap_section' : Owing(n)'
    BY <1>5, <1>9, <1>10
<1>13. current' = InHand(module', RecsRead')
    BY <1>0, <1>1, <1>2
<1> QED
    BY <1>11, <1>12, <1>13 DEF SizesInv

(* The bytes of a record are some of those that the module declared.       *)
LEMMA RecordSizes ==
    ASSUME TypeInv, NowReading, NumbersInv, SizesInv, TrueSizes, OwnSections,
           Len(loaded) \in DOMAIN loaded, Adding, pc' # "aborted"
    PROVE  SizesInv'
<1>a. PICK c, v : c = current /\ v = current_section
    OBVIOUS
<1>0. /\ pc = "records" /\ pc' = "records" /\ ReadingModule /\ ReadingModule'
      /\ UNCHANGED << module, remap_section, current >> /\ module \in Module
      /\ remap_section \in [DOMAIN remap_section -> DOMAIN sections]
      /\ c \in DOMAIN remap_section /\ remap_section[c] = v /\ v \in DOMAIN sections
      /\ Rec.n \in Nat
    BY <1>a, RecordsAdd DEF ReadingModule, TypeInv, TypeOK, Record, current_section
<1>1. i \in DOMAIN module.recs /\ i' = i + 1 /\ Rec.op \in Filling /\ Rec.op # "SECT"
    BY DEF Adding, RecordData, RecordExpression, AtRecord, NextRecord, NextItem, Abort, Filling
<1>2. /\ SecsRead' = SecsRead /\ RecsRead = i /\ RecsRead' = i + 1
    BY <1>0, <1>1 DEF SecsRead, RecsRead
<1>3. /\ \A w \in DOMAIN sections :
             HasData(sections[w]) /\ ~OpenSection(w) => sections[w].size = Len(sections[w].data)
      /\ c = InHand(module, i) /\ \A n \in DOMAIN remap_section : Owing(n)
    BY <1>0, <1>2, <1>a DEF SizesInv
<1>4. /\ InHand(module, i + 1) = c
      /\ \A n : /\ Given(module, n, i) \in Nat
                /\ Given(module, n, i + 1) = Given(module, n, i) + IF n = c THEN Rec.n ELSE 0
    <2>1. InHand(module, i + 1) = c
        BY <1>0, <1>1, <1>3, InHandMoves DEF Rec
    <2>2. ASSUME NEW n PROVE Into(module, n, i) = IF n = c THEN Rec.n ELSE 0
        BY <1>1, <1>3 DEF Into, Rec
    <2> QED
        BY <1>0, <1>1, <2>1, <2>2, GivenGrows
<1>5. /\ DOMAIN sections' = DOMAIN sections
      /\ \A w \in DOMAIN sections : /\ HasData(sections'[w]) <=> HasData(sections[w])
                                    /\ sections'[w].size = sections[w].size
                                    /\ w # v => sections'[w].data = sections[w].data
    <2>1. ~OneSection /\ [Next]_vars
        BY <1>0, PhaseOf DEF Next, OneRecord, Adding
    <2>2. DOMAIN sections' = DOMAIN sections /\ \A w \in DOMAIN sections : SameHead(w)
        BY <2>1, OnlySections
    <2> QED
        BY <2>2, <1>a, RecordsAdd DEF SameHead, Same, HasData
<1>6. Len(sections'[v].data) = Len(sections[v].data) + Rec.n
    <2>1. sections'[v].data = sections[v].data \o Bytes(Rec.n)
        BY <1>a, RecordsAdd
    <2>2. Bytes(Rec.n) \in Seq(Byte) /\ Len(Bytes(Rec.n)) = Rec.n
        BY <1>0, BytesParts
    <2>3. sections[v].data \in Seq(Byte)
        <3>1. sections \in Seq(Section)
            BY RecordsAdd
        <3>2. sections[v] \in Section
            BY <1>0, <3>1
        <3> QED
            BY <3>2, SectionParts
    <2>4. PICK a, b : a = sections[v].data /\ b = Bytes(Rec.n)
        OBVIOUS
    <2>5. Len(a \o b) = Len(a) + Len(b)
        BY <2>2, <2>3, <2>4
    <2> QED
        BY <2>1, <2>2, <2>4, <2>5
<1>7. \A w \in DOMAIN sections : sections[w].size \in Nat /\ Len(sections[w].data) \in Nat
    <2>1. \A w \in DOMAIN sections : sections[w] \in Section
        BY RecordsAdd
    <2> QED
        BY <2>1, SectionParts
<1>8. \A n : Declared(module, n, SecsRead) \in Nat
    BY <1>0, DeclaredGrows
<1>9. ASSUME NEW n \in DOMAIN remap_section PROVE Owing(n)'
    <2>1. PICK w : w = remap_section[n]
        OBVIOUS
    <2>2. w \in DOMAIN sections /\ remap_section'[n] = w
        BY <1>0, <2>1
    <2>3. HasData(sections[w]) =>
              sections[w].size + Given(module, n, i)
                  = Len(sections[w].data) + Declared(module, n, SecsRead)
        BY <1>2, <1>3, <2>1 DEF Owing
    <2>4. HasData(sections[w]) =>
              sections'[w].size + Given(module, n, i + 1)
                  = Len(sections'[w].data) + Declared(module, n, SecsRead)
        <3>1. CASE n = c
            <4>1. /\ w = v /\ sections'[w].size = sections[w].size
                  /\ Given(module, n, i + 1) = Given(module, n, i) + Rec.n
                  /\ Len(sections'[w].data) = Len(sections[w].data) + Rec.n
                <5>1. w = v /\ v \in DOMAIN sections
                    BY <1>0, <2>1, <3>1
                <5>2. sections'[w].size = sections[w].size
                    BY <1>5, <5>1
                <5>3. Given(module, n, i + 1) = Given(module, n, i) + Rec.n
                    BY <1>4, <3>1
                <5> QED
                    BY <1>6, <5>1, <5>2, <5>3
            <4>2. PICK z, g, b, d : /\ z = sections[w].size /\ g = Given(module, n, i)
                                    /\ b = Len(sections[w].data)
                                    /\ d = Declared(module, n, SecsRead)
                OBVIOUS
            <4>3. z \in Nat /\ g \in Nat /\ b \in Nat /\ d \in Nat /\ Rec.n \in Nat
                BY <1>0, <1>4, <1>7, <1>8, <2>2, <4>2
            <4>4. HasData(sections[w]) => z + (g + Rec.n) = (b + Rec.n) + d
                <5>1. HasData(sections[w]) => z + g = b + d
                    BY <2>3, <4>2, Zenon
                <5> QED
                    BY <4>3, <5>1
            <4>5. sections'[w].size = z /\ Given(module, n, i + 1) = g + Rec.n
                BY <4>1, <4>2
            <4>6. /\ Len(sections'[w].data) = b + Rec.n
                  /\ Declared(module, n, SecsRead) = d
                BY <4>1, <4>2
            <4> QED
                BY <4>4, <4>5, <4>6
        <3>2. CASE n # c
            <4>1. w # v
                BY <1>0, <2>1, <3>2, NumbersApart
            <4>2. /\ sections'[w].size = sections[w].size
                  /\ sections'[w].data = sections[w].data
                  /\ Given(module, n, i + 1) = Given(module, n, i)
                BY <1>4, <1>5, <2>2, <3>2, <4>1
            <4> QED
                BY <2>3, <4>2
        <3> QED
            BY <3>1, <3>2
    <2>5. HasData(sections'[w]) =>
              sections'[w].size + Given(module', n, RecsRead')
                  = Len(sections'[w].data) + Declared(module', n, SecsRead')
        BY <1>0, <1>2, <1>5, <2>2, <2>4
    <2> QED
        BY <2>2, <2>5 DEF Owing
<1>10. ASSUME NEW w \in DOMAIN sections', HasData(sections'[w]), ~OpenSection(w)'
       PROVE  sections'[w].size = Len(sections'[w].data)
    <2>1. ~OpenSection(w) /\ w # v
        BY <1>0, <1>10 DEF OpenSection
    <2> QED
        BY <1>3, <1>5, <1>10, <2>1
<1>11. current' = InHand(module', RecsRead')
    BY <1>0, <1>2, <1>4, <1>a
<1>12. \A n \in DOMAIN remap_section' : Owing(n)'
    BY <1>0, <1>9
<1> QED
    BY <1>10, <1>11, <1>12 DEF SizesInv

(* The end of a module: its sections hold what it declared.                *)
LEMMA ModuleSizes ==
    ASSUME TypeInv, NumbersInv, FlagsInv, SizesInv, TrueSizes, OwnSections,
           SizesTrue(module), RecordsDone
    PROVE  SizesInv'
<1>0. /\ pc = "records" /\ ReadingModule /\ ~ReadingModule' /\ UNCHANGED sections
      /\ i \notin DOMAIN module.recs /\ i \in Nat \ {0} /\ module \in Module
      /\ SecsRead = Len(module.secs) + 1 /\ RecsRead = i
    BY DEF RecordsDone, ReadingModule, globals, SecsRead, RecsRead, TypeInv, TypeOK
<1>1. /\ \A v \in DOMAIN sections :
             HasData(sections[v]) /\ ~OpenSection(v) => sections[v].size = Len(sections[v].data)
      /\ \A n \in DOMAIN remap_section : Owing(n)
    BY <1>0 DEF SizesInv
<1>2. \A v \in DOMAIN sections : sections[v].size \in Nat /\ Len(sections[v].data) \in Nat
    <2>1. sections \in Seq(Section)
        BY <1>0 DEF TypeInv, TypeOK
    <2> QED
        BY <2>1, SectionParts
<1>3. ASSUME NEW n \in DOMAIN remap_section, NEW v \in DOMAIN sections, v = remap_section[n],
             HasData(sections[v])
      PROVE  sections[v].size = Len(sections[v].data)
    <2>1. /\ HoldsBytes(module, n)
          /\ n \in Predefined \cup {module.secs[k].number : k \in DOMAIN module.secs}
        <3>1. CASE n \in Predefined
            BY <1>0, <1>3, <3>1 DEF NumbersInv, NumberLeads, FlagsInv, HoldsBytes, HasData
        <3>2. CASE n \notin Predefined
            <4>1. FlaggedBy(n)
                BY <1>0, <1>3, <3>2 DEF FlagsInv
            <4> QED
                BY <1>3, <3>2, <4>1 DEF FlaggedBy, HoldsBytes, HasData
        <3> QED
            BY <3>1, <3>2
    <2>2. Given(module, n, Len(module.recs) + 1) = Declared(module, n, Len(module.secs) + 1)
        BY <2>1 DEF SizesTrue
    <2>3. Given(module, n, i) = Declared(module, n, Len(module.secs) + 1)
        BY <1>0, <2>2, AllGiven
    <2>4. PICK d : d = Given(module, n, i) /\ d = Declared(module, n, SecsRead)
        BY <1>0, <2>3
    <2>5. d \in Nat
        <3>1. \A j : Declared(module, n, j) \in Nat
            BY <1>0, DeclaredGrows
        <3> QED
            BY <2>4, <3>1
    <2>6. sections[v].size + d = Len(sections[v].data) + d
        BY <1>0, <1>1, <1>3, <2>4 DEF Owing
    <2> QED
        BY <1>2, <2>5, <2>6
<1>4. \A v \in DOMAIN sections : HasData(sections[v]) => sections[v].size = Len(sections[v].data)
    BY <1>1, <1>3 DEF OpenSection
<1> QED
    BY <1>0, <1>4 DEF SizesInv

LEMMA EnterSizes ==
    ASSUME TypeInv, SizesInv, TrueSizes, OwnSections, pc # "aborted", ~ReadingModule,
           UNCHANGED sections, NEW m \in Module, Enter(m)
    PROVE  SizesInv'
<1>1. /\ ReadingModule' /\ module' = m /\ current' = CODE /\ remap_section' = IdentityRemap
      /\ SecsRead' = 1 /\ RecsRead' = 1
    BY DEF Enter, ReadingModule, SecsRead, RecsRead
<1>2. \A v \in DOMAIN sections : HasData(sections[v]) => sections[v].size = Len(sections[v].data)
    BY DEF SizesInv, OpenSection
<1>3. \A n : Given(m, n, 1) = 0 /\ Declared(m, n, 1) = 0
    BY GivenGrows, DeclaredGrows
<1>4. ASSUME NEW n \in DOMAIN remap_section' PROVE Owing(n)'
    <2>1. n \in Predefined /\ remap_section'[n] = n /\ n \in DOMAIN sections
        BY <1>1, <1>4 DEF IdentityRemap, TypeInv, TypeOK
    <2>2. Given(module', n, RecsRead') = 0 /\ Declared(module', n, SecsRead') = 0
        BY <1>1, <1>3
    <2>3. HasData(sections'[n]) => sections'[n].size = Len(sections'[n].data)
        BY <1>2, <2>1
    <2> QED
        BY <2>1, <2>2, <2>3 DEF Owing
<1>5. current' = InHand(module', RecsRead')
    BY <1>1, InHandMoves
<1> QED
    BY <1>2, <1>4, <1>5 DEF SizesInv

LEMMA NextSizes ==
    ASSUME TypeInv, NowReading, NumbersInv, FlagsInv, SizesInv, [Next]_vars
    PROVE  SizesInv'
<1> SUFFICES ASSUME TrueSizes', OwnSections', pc' # "aborted" PROVE SizesInv'
    BY DEF SizesInv
<1>1. /\ TrueSizes /\ OwnSections /\ module \in Module
      /\ ReadingModule => SizesTrue(module) /\ Len(loaded) \in DOMAIN loaded
    <2>1. loaded # << >> => Len(loaded) \in DOMAIN loaded
        BY DEF TypeInv, TypeOK
    <2> QED
        BY <2>1, TrueSizesBefore DEF NowReading, TypeInv, TypeOK
<1>2. pc # "aborted"
    BY PhaseOf DEF Next, Ended, vars
<1>3. ReadingModule => current = InHand(module, RecsRead)
    BY <1>1, <1>2 DEF SizesInv
<1>4. ASSUME UNCHANGED << sections, module, remap_section, current >>, ReadingModule,
             ReadingModule', RecsRead' = RecsRead, SecsRead' = SecsRead
      PROVE  SizesInv'
    <2>1. \A v \in DOMAIN sections : SameHead(v) /\ sections'[v].data = sections[v].data
        BY <1>4 DEF SameHead
    <2> QED
        BY <1>1, <1>2, <1>3, <1>4, <2>1, QuietSizes
<1>5. ASSUME ~ReadingModule, ~ReadingModule', UNCHANGED sections PROVE SizesInv'
    <2>1. \A v \in DOMAIN sections : SameHead(v) /\ sections'[v].data = sections[v].data
        BY <1>5 DEF SameHead
    <2> QED
        BY <1>1, <1>2, <1>5, <2>1, QuietSizes
<1>6. CASE UNCHANGED vars
    <2>1. RecsRead' = RecsRead /\ SecsRead' = SecsRead /\ (ReadingModule' <=> ReadingModule)
        BY <1>6 DEF vars, RecsRead, SecsRead, ReadingModule
    <2> QED
        BY <1>4, <1>5, <1>6, <2>1 DEF vars
<1>7. CASE OneSection
    <2>0. pc = "sections" /\ ReadingModule
        BY <1>7, PhaseOf DEF ReadingModule
    <2>1. CASE SectionEnters
        BY <1>1, <2>0, <2>1, SectionSizes
    <2>2. CASE SectionsDone
        <3>1. /\ UNCHANGED << sections, module, remap_section, current >>
              /\ ReadingModule' /\ i \notin DOMAIN module.secs /\ i \in Nat \ {0}
              /\ SecsRead = i /\ SecsRead' = Len(module.secs) + 1
              /\ RecsRead = 1 /\ RecsRead' = 1
            BY <2>2 DEF SectionsDone, frame, globals, ReadingModule, SecsRead, RecsRead, TypeInv,
                        TypeOK
        <3>2. \A v \in DOMAIN sections : SameHead(v) /\ sections'[v].data = sections[v].data
            BY <3>1 DEF SameHead
        <3>3. \A n : Declared(module, n, SecsRead') = Declared(module, n, SecsRead)
            BY <1>1, <3>1, AllGiven
        <3> QED
            BY <1>1, <1>2, <1>3, <2>0, <3>1, <3>2, <3>3, QuietSizes
    <2> QED
        BY <1>7, <2>1, <2>2, SectionsEnter
<1>8. CASE OneSymbol
    <2>0. pc = "symbols" /\ ReadingModule
        BY <1>8, PhaseOf DEF ReadingModule
    <2>1. /\ UNCHANGED << sections, module, remap_section, current >>
          /\ pc' \in {"symbols", "records"} /\ (pc' = "records" => i' = 1)
        BY <1>8, <2>0, SymbolCases DEF SymbolsDone, Abort, globals, frame, NextItem
    <2>2. ReadingModule' /\ RecsRead' = RecsRead /\ SecsRead' = SecsRead
        BY <2>0, <2>1 DEF ReadingModule, RecsRead, SecsRead
    <2> QED
        BY <1>4, <2>0, <2>1, <2>2
<1>9. CASE OneRecord
    <2>0. pc = "records" /\ ReadingModule
        BY <1>9, PhaseOf DEF ReadingModule
    <2>1. CASE Adding
        BY <1>1, <2>0, <2>1, RecordSizes
    <2>2. CASE RecordsDone
        BY <1>1, <2>0, <2>2, ModuleSizes
    <2>3. CASE RecordSection \/ RecordSkipped
        <3>1. /\ UNCHANGED << sections, module, remap_section, pc >>
              /\ i \in DOMAIN module.recs /\ i' = i + 1 /\ module.recs[i].op \notin Filling
              /\ current' = IF module.recs[i].op = "SECT" THEN module.recs[i].n ELSE current
            BY <2>3 DEF RecordSection, RecordSkipped, AtRecord, NextRecord, NextItem, Abort,
                        globals, Rec, Filling
        <3>2. /\ ReadingModule' /\ RecsRead = i /\ RecsRead' = i + 1 /\ SecsRead' = SecsRead
            BY <2>0, <3>1 DEF ReadingModule, RecsRead, SecsRead
        <3>3. ASSUME NEW n PROVE Given(module, n, i + 1) = Given(module, n, i)
            <4>1. Into(module, n, i) = 0
                BY <3>1 DEF Into
            <4>2. /\ Given(module, n, i) \in Nat
                  /\ Given(module, n, i + 1) = Given(module, n, i) + Into(module, n, i)
                BY <1>1, <3>1, GivenGrows
            <4> QED
                BY <4>1, <4>2
        <3>4. current' = InHand(module, i + 1)
            BY <1>1, <1>3, <2>0, <3>1, <3>2, InHandMoves
        <3>5. \A v \in DOMAIN sections : SameHead(v) /\ sections'[v].data = sections[v].data
            BY <3>1 DEF SameHead
        <3> QED
            BY <1>1, <1>2, <2>0, <3>1, <3>2, <3>3, <3>4, <3>5, QuietSizes
    <2> QED
        BY <1>9, <2>1, <2>2, <2>3 DEF OneRecord, Adding, RecordOrg, Abort
<1>10. CASE (OneFile \/ OneLibrary) /\ \E m : Enter(m)
    <2>1. PICK m : Enter(m)
        BY <1>10
    <2>2. module' = m /\ m \in Module
        <3>1. TypeInv'
            BY NextTypes
        <3> QED
            BY <2>1, <3>1 DEF Enter, TypeInv, TypeOK
    <2>3. ~ReadingModule /\ UNCHANGED sections
        <3>1. pc \in {"file", "module", "library", "round"}
            BY <1>10, PhaseOf
        <3>2. FileModule \/ LibraryModule
            BY <1>10, <2>1 DEF OneFile, OneLibrary, FileRefused, FileIsLibrary, FileOpened,
                        FileDone, FilesDone, LibraryMissing, LibraryNowhere, LibraryOpened,
                        LibraryRound, LibrariesDone, AtFile, AtLibrary, NextLibrary, Enter
        <3> QED
            BY <3>1, <3>2 DEF FileModule, LibraryModule, globals, ReadingModule
    <2> QED
        BY <1>1, <1>2, <2>1, <2>2, <2>3, EnterSizes
<1>11. CASE OneFile /\ ~\E m : Enter(m)
    <2>1. UNCHANGED sections /\ pc' \in {pc, "file", "module", "generate_end", "library"}
        BY <1>11 DEF OneFile, FileRefused, FileIsLibrary, FileOpened, FileModule, FileDone,
                     FilesDone, globals
    <2> QED
        BY <1>5, <1>11, <2>1, PhaseOf DEF ReadingModule
<1>12. CASE OneLibrary /\ ~\E m : Enter(m)
    <2>1. UNCHANGED sections /\ pc' \in {pc, "round", "library", "resolved"}
        BY <1>12 DEF OneLibrary, LibraryMissing, LibraryNowhere, LibraryOpened, LibraryModule,
                     LibraryRound, LibrariesDone, NextLibrary, globals
    <2> QED
        BY <1>5, <1>12, <2>1, PhaseOf DEF ReadingModule
<1>13. CASE Finish
    <2>1. ~ReadingModule /\ ~ReadingModule' /\ ~OneSection
        BY <1>13, PhaseOf DEF ReadingModule, Finish, CheckUndefined, generate_end, simplify,
                              Abort
    <2>2. CASE ~simplify
        BY <1>5, <1>13, <2>1, <2>2 DEF Finish, CheckUndefined, generate_end, globals
    <2>3. CASE simplify
        <3>1. pc' = "linked"
            BY <2>3 DEF simplify, Abort
        <3>2. \A v \in DOMAIN sections : SameHead(v) /\ sections'[v].data = sections[v].data
            BY <2>1, <2>3, <3>1, OnlySections, SimplifiedSections
        <3> QED
            BY <1>1, <1>2, <2>1, <2>3, <3>1, <3>2, QuietSizes, SimplifiedSections
    <2> QED
        BY <2>2, <2>3
<1> QED
    BY <1>6, <1>7, <1>8, <1>9, <1>10, <1>11, <1>12, <1>13 DEF Next, Ended

(* The symbol that ends a section ends no other.                           *)
EndsApart ==
    \A v \in DOMAIN sections : sections[v].end_symbol # 0 =>
        /\ sections[v].end_symbol \in DOMAIN symbols
        /\ \A w \in DOMAIN sections :
               w # v => sections[w].end_symbol # sections[v].end_symbol

(* generate_end() sets it to the size that was declared.                   *)
EndsSet ==
    pc \in {"simplify", "linked"} =>
        \A v \in DOMAIN sections :
            LET k == sections[v].end_symbol
            IN  k # 0 => symbols[k].section = v /\ symbols[k].offset = sections[v].size

LEMMA NewEnd ==
    ASSUME TypeInv, SectionNew
    PROVE  /\ Len(sections) + 1 \notin DOMAIN sections
           /\ DOMAIN sections' = DOMAIN sections \cup {Len(sections) + 1}
           /\ \A w \in DOMAIN sections : sections'[w] = sections[w]
           /\ LET e == sections'[Len(sections) + 1].end_symbol
              IN  e # 0 => e \notin DOMAIN symbols /\ e \in DOMAIN symbols'
<1>0. sections \in Seq(Section) /\ symbols \in Seq(Symbol)
    BY DEF TypeInv, TypeOK, SectionNew, AtSection
<1> DEFINE v      == Len(sections) + 1
           beg    == BegName[Sec.name]
           end    == EndName[Sec.name]
           newBeg == ~Unnamed(Sec) /\ beg \notin DOMAIN symbol_map
           begSym == SectionStart(beg, v)
           begs   == IF newBeg THEN Append(symbols, begSym) ELSE symbols
           begMap == IF newBeg THEN Bind(symbol_map, beg, Len(begs)) ELSE symbol_map
           newEnd == ~Unnamed(Sec) /\ end \notin DOMAIN begMap
           k      == Len(begs) + 1
           endSym == UndefinedSymbol(end, k)
           new    == [name |-> Sec.name, flags |-> Sec.flags, size |-> Sec.size,
                      data |-> << >>, expressions |-> << >>,
                      end_symbol |-> IF newEnd THEN k ELSE 0]
<1>1. /\ symbols' = IF newEnd THEN Append(begs, endSym) ELSE begs
      /\ sections' = Append(sections, new)
    BY DEF SectionNew
<1>2. new.end_symbol = IF newEnd THEN k ELSE 0
    OBVIOUS
<1>3. /\ Len(begs) \in Nat /\ Len(symbols) <= Len(begs) /\ \E S : begs \in Seq(S)
    <2> HIDE DEF newBeg, begSym
    <2>1. Append(symbols, begSym) \in Seq(Symbol \cup {begSym})
        BY <1>0
    <2>2. Len(Append(symbols, begSym)) = Len(symbols) + 1
        BY <1>0
    <2> QED
        BY <1>0, <2>1, <2>2
<1> HIDE DEF newEnd, begs, new, endSym
<1>4. newEnd => k \in DOMAIN symbols' /\ k \notin DOMAIN symbols
    <2>1. PICK S : begs \in Seq(S)
        BY <1>3
    <2>2. newEnd => k \in DOMAIN symbols'
        BY <1>1, <2>1
    <2>3. k \notin DOMAIN symbols
        BY <1>0, <1>3
    <2> QED
        BY <2>2, <2>3
<1> HIDE DEF k
<1>5. /\ v \notin DOMAIN sections /\ DOMAIN sections' = DOMAIN sections \cup {v}
      /\ sections'[v] = new /\ \A w \in DOMAIN sections : sections'[w] = sections[w]
    BY <1>0, <1>1
<1> QED
    BY <1>2, <1>4, <1>5

LEMMA NextEndsApart ==
    ASSUME TypeInv, TableInv, EndsApart, [Next]_vars
    PROVE  EndsApart'
<1>1. CASE UNCHANGED << sections, symbols >>
    BY <1>1 DEF EndsApart
<1>2. CASE pc' # "aborted" /\ SectionNew
    <2>1. PICK t, e : t = Len(sections) + 1 /\ e = sections'[t].end_symbol
        OBVIOUS
    <2>2. /\ t \notin DOMAIN sections /\ DOMAIN sections' = DOMAIN sections \cup {t}
          /\ \A w \in DOMAIN sections : sections'[w] = sections[w]
          /\ e # 0 => e \notin DOMAIN symbols /\ e \in DOMAIN symbols'
        BY <1>2, <2>1, NewEnd
    <2>3. \A k \in DOMAIN symbols : k \in DOMAIN symbols'
        BY SymbolsStay DEF SymbolStays
    <2> QED
        BY <2>1, <2>2, <2>3 DEF EndsApart
<1>3. CASE pc' # "aborted" /\ ~SectionNew /\ ~UNCHANGED << sections, symbols >>
    <2>1. /\ DOMAIN sections' = DOMAIN sections
          /\ \A v \in DOMAIN sections : sections'[v].end_symbol = sections[v].end_symbol
        <3>1. CASE OneSection
            <4>1. SectionEnters
                BY <1>3, <3>1, SectionsEnter DEF SectionsDone, globals
            <4>2. Target \in DOMAIN sections
                <5>1. SectionPredefined \/ SectionKnown
                    BY <1>3, <3>1 DEF OneSection, SectionsDone, globals
                <5>2. Predefined \subseteq DOMAIN sections
                      /\ section_map \in [DOMAIN section_map -> DOMAIN sections]
                    BY DEF TypeInv, TypeOK
                <5> QED
                    BY <5>1, <5>2 DEF SectionPredefined, SectionKnown, Target
            <4> QED
                BY <4>1, <4>2 DEF SectionEnters
        <3>2. CASE ~OneSection
            BY <1>3, <3>2, OnlySections DEF SameHead
        <3> QED
            BY <3>1, <3>2
    <2>2. \A k \in DOMAIN symbols : k \in DOMAIN symbols'
        BY SymbolsStay DEF SymbolStays
    <2> QED
        BY <2>1, <2>2 DEF EndsApart
<1> QED
    BY <1>1, <1>2, <1>3, Endings DEF Abort, globals, vars

LEMMA NextEndsSet ==
    ASSUME TypeInv, EndsApart, EndsSet, [Next]_vars
    PROVE  EndsSet'
<1>1. CASE UNCHANGED vars
    BY <1>1 DEF vars, EndsSet
<1>2. CASE generate_end
    <2>1. /\ UNCHANGED sections /\ symbols' = [k \in DOMAIN symbols |-> AfterEnd(k)]
        BY <1>2 DEF generate_end
    <2>2. ASSUME NEW v \in DOMAIN sections, NEW k, k = sections[v].end_symbol, k # 0
          PROVE  symbols'[k].section = v /\ symbols'[k].offset = sections[v].size
        <3>1. k \in DOMAIN symbols /\ EndOf(k) = {v}
            BY <2>2 DEF EndsApart, EndOf
        <3>2. (CHOOSE w \in EndOf(k) : TRUE) = v /\ EndOf(k) # {}
            BY <3>1
        <3>3. AfterEnd(k) = Defined(symbols[k].name, v, sections[v].size)
            BY <3>2 DEF AfterEnd
        <3>4. symbols'[k] = Defined(symbols[k].name, v, sections[v].size)
            BY <2>1, <3>1, <3>3
        <3> QED
            BY <3>4 DEF Defined
    <2> QED
        BY <2>1, <2>2 DEF EndsSet
<1>3. CASE simplify /\ pc' # "aborted"
    <2>1. pc = "simplify" /\ pc' = "linked" /\ UNCHANGED symbols /\ ~OneSection
        BY <1>3, PhaseOf DEF simplify, Abort, Finish
    <2>2. DOMAIN sections' = DOMAIN sections /\ \A v \in DOMAIN sections : SameHead(v)
        BY <1>3, <2>1, OnlySections
    <2> QED
        BY <2>1, <2>2 DEF EndsSet, SameHead
<1>4. CASE ~generate_end /\ ~simplify /\ ~UNCHANGED vars
    <2>1. pc' \notin {"simplify", "linked"}
        <3>1. OneSymbol => pc' \notin {"simplify", "linked"}
            BY SymbolCases, PhaseOf DEF Abort, SymbolsDone, NextItem
        <3>2. OneSection => pc' \notin {"simplify", "linked"}
            BY DEF OneSection, SectionPredefined, SectionNew, SectionKnown, SectionsDone, AtSection,
                   NextItem, Abort
        <3>3. OneRecord => pc' \notin {"simplify", "linked"}
            BY DEF OneRecord, RecordData, RecordSection, RecordOrg, RecordSkipped,
                   RecordExpression, RecordsDone, AtRecord, NextRecord, NextItem, Abort
        <3>4. OneFile => pc' \notin {"simplify", "linked"}
            BY DEF OneFile, FileRefused, FileIsLibrary, FileOpened, FileModule, FileDone,
                   FilesDone, AtFile, Enter
        <3>5. OneLibrary => pc' \notin {"simplify", "linked"}
            BY DEF OneLibrary, LibraryMissing, LibraryNowhere, LibraryOpened, LibraryModule,
                   LibraryRound, LibrariesDone, NextLibrary, AtLibrary, Enter
        <3>6. CheckUndefined => pc' \notin {"simplify", "linked"}
            BY DEF CheckUndefined
        <3> QED
            BY <1>4, <3>1, <3>2, <3>3, <3>4, <3>5, <3>6 DEF Next, Finish, Ended
    <2> QED
        BY <2>1 DEF EndsSet
<1>5. CASE pc' = "aborted"
    BY <1>5 DEF EndsSet
<1> QED
    BY <1>1, <1>2, <1>3, <1>4, <1>5

(* The _END_ symbol of a section with data is the offset just after its    *)
(* last byte, if every module puts into its sections as many bytes as it   *)
(* declares and gives no two sections one name.                            *)
THEOREM EndsAreAtEnd == Spec => [](TrueSizes /\ OwnSections => EndSymbolAtEnd)
<1>1. Init => SizesInv /\ EndsApart /\ EndsSet
    <2> SUFFICES ASSUME Init PROVE SizesInv /\ EndsApart /\ EndsSet
        OBVIOUS
    <2>1. /\ pc = "file" /\ DOMAIN sections = Predefined /\ DOMAIN symbols = 1 .. 10
          /\ \A v \in Predefined : /\ sections[v].size = 0 /\ sections[v].data = << >>
                                   /\ sections[v].end_symbol = 2 * v
        BY DEF Init, PredefinedSection
    <2>2. SizesInv /\ EndsSet
        BY <2>1 DEF SizesInv, EndsSet, ReadingModule
    <2>3. EndsApart
        BY <2>1 DEF EndsApart, Predefined, PAGE0, UDATA
    <2> QED
        BY <2>2, <2>3
<1>2. TypeInv /\ NowReading /\ NumbersInv /\ FlagsInv /\ SizesInv /\ [Next]_vars => SizesInv'
    BY NextSizes
<1>3. TypeInv /\ TableInv /\ EndsApart /\ EndsSet /\ [Next]_vars => EndsApart' /\ EndsSet'
    BY NextEndsApart, NextEndsSet
<1>4. SizesInv /\ EndsSet => (TrueSizes /\ OwnSections => EndSymbolAtEnd)
    BY DEF SizesInv, EndsSet, EndSymbolAtEnd, OpenSection, ReadingModule, HasData
<1> QED
    BY <1>1, <1>2, <1>3, <1>4, InputStaysOpen, TableAlways, ReadingNow, NumbersAlways,
       FlagsAlways, PTL DEF Spec
=============================================================================
