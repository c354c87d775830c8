---------------------------- MODULE HistoryProofs ----------------------------
(***************************************************************************)
(* Proofs about the symbol table over time: what a definition, a reference *)
(* or an operand of an expression stands for does not change when modules  *)
(* are read later, and what the table and the list of undefined symbols    *)
(* hold is what the modules read so far say, in whatever order they came.  *)
(***************************************************************************)
EXTENDS ResolutionProofs

-----------------------------------------------------------------------------
(* How the symbols change. *)

(* The symbols of S are the first of T, as they were. *)
Extended(S, T) == \A k \in DOMAIN S : k \in DOMAIN T /\ T[k] = S[k]

LEMMA AppendExtends ==
    ASSUME NEW S \in Seq(Symbol), NEW s \in Symbol
    PROVE  /\ Append(S, s) \in Seq(Symbol) /\ Extended(S, Append(S, s))
           /\ \A k \in DOMAIN Append(S, s) : k \in DOMAIN S \/ Append(S, s)[k] = s
           /\ \E k \in DOMAIN Append(S, s) : Append(S, s)[k] = s
<1>1. Len(S) + 1 \in DOMAIN Append(S, s) /\ Append(S, s)[Len(S) + 1] = s
    OBVIOUS
<1> QED
    BY <1>1 DEF Extended

(* A new section appends its own symbols, if it has a name. *)
LEMMA SectionExtends ==
    ASSUME TypeInv, SectionNew
    PROVE  /\ Extended(symbols, symbols')
           /\ \A k \in DOMAIN symbols' : k \in DOMAIN symbols \/
                  /\ ~Unnamed(Sec)
                  /\ symbols'[k].name \in {BegName[Sec.name], EndName[Sec.name]}
<1> DEFINE v      == Len(sections) + 1
           beg    == BegName[Sec.name]
           end    == EndName[Sec.name]
           newBeg == ~Unnamed(Sec) /\ beg \notin DOMAIN symbol_map
           begSym == SectionStart(beg, v)
           begs   == IF newBeg THEN Append(symbols, begSym) ELSE symbols
           begMap == IF newBeg THEN Bind(symbol_map, beg, Len(begs)) ELSE symbol_map
           newEnd == ~Unnamed(Sec) /\ end \notin DOMAIN begMap
           endSym == UndefinedSymbol(end, Len(begs) + 1)
<1>1. symbols' = IF newEnd THEN Append(begs, endSym) ELSE begs
    BY DEF SectionNew
<1>2. pc = "sections" /\ AtSection /\ Tables
    <2>1. pc = "sections" /\ AtSection
        BY DEF SectionNew, AtSection
    <2> QED
        BY <2>1, TablesTyped DEF Final
<1>3. /\ Sec.name \in SectionNames /\ beg \in Names /\ end \in Names
      /\ symbols \in Seq(Symbol) /\ sections \in Seq(Section)
    BY <1>2, ItemTypes, NamesAssumption DEF TypeInv, LocalSection, Tables
<1>4. begSym \in Symbol /\ begSym.name = beg
    BY <1>3 DEF SectionStart, Symbol, Global
<1>5. newBeg => ~Unnamed(Sec)
    OBVIOUS
<1>6. newEnd => ~Unnamed(Sec)
    OBVIOUS
<1> HIDE DEF beg, end, begMap, begSym, newEnd, newBeg
<1>7. /\ begs \in Seq(Symbol) /\ Extended(symbols, begs)
      /\ \A k \in DOMAIN begs : k \in DOMAIN symbols \/ (newBeg /\ begs[k] = begSym)
    BY <1>3, <1>4, AppendExtends DEF Extended
<1> HIDE DEF begs
<1>8. endSym \in Symbol /\ endSym.name = end
    BY <1>3, <1>7 DEF UndefinedSymbol, Symbol
<1> HIDE DEF endSym
<1>9. CASE newEnd
    <2>1. /\ Extended(begs, symbols')
          /\ \A k \in DOMAIN symbols' : k \in DOMAIN begs \/ symbols'[k] = endSym
        BY <1>1, <1>7, <1>8, <1>9, AppendExtends
    <2>2. Extended(symbols, symbols')
        BY <1>7, <2>1 DEF Extended
    <2>3. \A k \in DOMAIN begs : symbols'[k] = begs[k]
        BY <2>1 DEF Extended
    <2> QED
        BY <1>4, <1>5, <1>6, <1>7, <1>8, <1>9, <2>1, <2>2, <2>3 DEF beg, end
<1>10. CASE ~newEnd
    BY <1>1, <1>4, <1>5, <1>7, <1>10 DEF beg
<1> QED
    BY <1>9, <1>10

(* The turns of the loop over the symbols, by what they do to the table.   *)
LEMMA SymbolTyped ==
    ASSUME TypeInv, pc = "symbols"
    PROVE  Tables /\ (AtSymbol => Sy \in Symbol)
BY TablesTyped, ItemTypes DEF TypeInv, Final

LEMMA ReferenceNewAdds ==
    ASSUME TypeInv, TableInv, ReferenceNew
    PROVE  /\ Sy.type = "UND" /\ Sy.name \notin DOMAIN symbol_map
           /\ Extended(symbols, symbols')
           /\ \A k \in DOMAIN symbols' : k \in DOMAIN symbols \/
                  (symbols'[k].name = Sy.name /\ symbols'[k].type = "UND")
           /\ \E k \in DOMAIN symbols' : symbols'[k].name = Sy.name
           /\ undefined_symbols' = undefined_symbols \cup {Sy.name}
<1> DEFINE n == Len(symbols) + 1
           s == [Sy EXCEPT !.section = n]
<1>1. /\ symbols' = Append(symbols, s) /\ Sy.name \notin DOMAIN symbol_map
      /\ undefined_symbols' = undefined_symbols \cup {s.name}
      /\ AtSymbol /\ pc = "symbols" /\ Sy.type = "UND"
    BY DEF ReferenceNew, AtSymbol
<1>2. n \in Nat /\ symbols \in Seq(Symbol) /\ Sy \in Symbol
    BY <1>1, SymbolTyped DEF Tables
<1> HIDE DEF n
<1>3. s \in Symbol /\ s.name = Sy.name /\ s.type = "UND"
    BY <1>1, <1>2 DEF Symbol
<1> HIDE DEF s
<1>4. /\ Extended(symbols, symbols')
      /\ \A k \in DOMAIN symbols' : k \in DOMAIN symbols \/ symbols'[k] = s
      /\ \E k \in DOMAIN symbols' : symbols'[k] = s
    BY <1>1, <1>2, <1>3, AppendExtends
<1> QED
    BY <1>1, <1>3, <1>4

LEMMA DefineNewAdds ==
    ASSUME TypeInv, TableInv, DefineNew
    PROVE  /\ Sy.type # "UND" /\ Sy.flags = Global
           /\ Relocated(Sy).name = Sy.name /\ Relocated(Sy).type = Sy.type
           /\ Extended(symbols, symbols')
           /\ \A k \in DOMAIN symbols' : k \in DOMAIN symbols \/ symbols'[k] = Relocated(Sy)
           /\ \E k \in DOMAIN symbols' : symbols'[k] = Relocated(Sy)
           /\ UNCHANGED undefined_symbols
<1>1. /\ AtDefinition /\ Relocatable /\ pc = "symbols" /\ Sy.type # "UND"
      /\ Sy.flags = Global /\ symbols' = Append(symbols, Relocated(Sy))
      /\ UNCHANGED undefined_symbols
    BY DEF DefineNew, AtDefinition, AtSymbol
<1>2. Relocated(Sy) \in Symbol /\ Relocated(Sy).name = Sy.name /\ Relocated(Sy).type = Sy.type
    BY <1>1, DefinitionKept
<1>3. symbols \in Seq(Symbol)
    BY <1>1, SymbolTyped DEF Tables
<1> QED
    BY <1>1, <1>2, <1>3, AppendExtends

LEMMA DefineReferencedSets ==
    ASSUME TypeInv, TableInv, DefineReferenced
    PROVE  /\ Sy.type # "UND" /\ Sy.flags = Global
           /\ DOMAIN symbols' = DOMAIN symbols
           /\ \E k \in DOMAIN symbols :
                  /\ symbols[k].name = Sy.name /\ symbols[k].type = "UND"
                  /\ symbols'[k].name = Sy.name /\ symbols'[k].type = Sy.type
                  /\ \A j \in DOMAIN symbols : j # k => symbols'[j] = symbols[j]
           /\ undefined_symbols' = undefined_symbols \ {Sy.name}
<1> DEFINE k == symbol_map[Sy.name]
<1>1. /\ AtDefinition /\ Relocatable /\ Sy.type # "UND" /\ Sy.flags = Global
      /\ k \in DOMAIN symbols /\ symbols[k].name = Sy.name /\ symbols[k].type = "UND"
      /\ symbols' = [symbols EXCEPT ![k] = Relocated(Sy)]
      /\ undefined_symbols' = undefined_symbols \ {Sy.name}
    BY DEF DefineReferenced, AtDefinition, TableInv, Table
<1>2. Relocated(Sy).name = Sy.name /\ Relocated(Sy).type = Sy.type
    BY <1>1, DefinitionKept
<1> HIDE DEF k
<1> QED
    BY <1>1, <1>2

LEMMA SymbolCases ==
    ASSUME OneSymbol
    PROVE  /\ \/ Abort
              \/ SymbolsDone
              \/ /\ AtSymbol /\ NextItem
                 /\ UNCHANGED << remap_section, sections, section_map >>
                 /\ \/ ReferenceNew \/ ReferenceKnown \/ DefineLocal
                    \/ DefineNew \/ DefineReferenced \/ DefineAgain
           /\ ReferenceKnown \/ DefineLocal \/ DefineAgain => UNCHANGED globals
BY DEF OneSymbol, ReferenceNew, ReferenceKnown, DefineLocal, DefineNew, DefineReferenced,
       DefineAgain, DefineUnmapped, NextSymbol, AtDefinition, globals

(* What a step may do to a symbol. *)
SymbolStays(k) ==
    /\ k \in DOMAIN symbols'
    /\ symbols'[k].name = symbols[k].name
    /\ symbols[k].type # "UND" => \/ symbols'[k] = symbols[k]
                                  \/ pc = "generate_end" /\ EndOf(k) # {}
    /\ symbols[k].type # "UND" => symbols'[k].type # "UND"

LEMMA SymbolsStay ==
    ASSUME TypeInv, TableInv, [Next]_vars
    PROVE  \A k \in DOMAIN symbols : SymbolStays(k)
<1>1. ASSUME UNCHANGED symbols PROVE \A k \in DOMAIN symbols : SymbolStays(k)
    BY <1>1 DEF SymbolStays
<1>2. ASSUME Extended(symbols, symbols') PROVE \A k \in DOMAIN symbols : SymbolStays(k)
    BY <1>2 DEF SymbolStays, Extended
<1>3. CASE OneSection
    <2>1. CASE SectionNew
        BY <1>2, <2>1, SectionExtends
    <2>2. CASE ~SectionNew
        BY <1>1, <1>3, <2>2 DEF OneSection, SectionPredefined, SectionKnown, SectionsDone,
                                Abort, globals
    <2> QED
        BY <2>1, <2>2
<1>4. CASE OneSymbol
    <2>1. CASE DefineReferenced
        BY <2>1, DefineReferencedSets DEF SymbolStays
    <2>2. CASE ~DefineReferenced
        <3>1. UNCHANGED symbols \/ Extended(symbols, symbols')
            BY <1>4, <2>2, SymbolCases, ReferenceNewAdds, DefineNewAdds
               DEF Abort, SymbolsDone, globals
        <3> QED
            BY <1>1, <1>2, <3>1
    <2> QED
        BY <2>1, <2>2
<1>5. CASE OneRecord
    BY <1>1, <1>5 DEF OneRecord, RecordData, RecordSection, RecordOrg, RecordSkipped,
                      RecordExpression, RecordsDone, NextRecord, Abort, globals
<1>6. CASE OneFile
    BY <1>1, <1>6 DEF OneFile, FileRefused, FileIsLibrary, FileOpened, FileModule,
                      FileDone, FilesDone, globals
<1>7. CASE OneLibrary
    BY <1>1, <1>7 DEF OneLibrary, LibraryMissing, LibraryNowhere, LibraryOpened,
                      LibraryModule, LibraryRound, LibrariesDone, globals
<1>8. CASE Finish
    <2>1. CASE generate_end
        <3>1. /\ pc = "generate_end"
              /\ symbols' = [k \in DOMAIN symbols |-> AfterEnd(k)]
            BY <2>1 DEF generate_end
        <3>2. \A k \in DOMAIN symbols : symbols'[k].name = symbols[k].name
            BY <3>1, AfterEndType
        <3>3. \A k \in DOMAIN symbols :
                  symbols[k].type # "UND" /\ EndOf(k) = {} => symbols'[k] = symbols[k]
            BY <3>1 DEF AfterEnd, NamedAfter
        <3>4. \A k \in DOMAIN symbols : symbols[k].type # "UND" => symbols'[k].type # "UND"
            BY <3>1 DEF AfterEnd, Defined, NamedAfter
        <3> QED
            BY <3>1, <3>2, <3>3, <3>4 DEF SymbolStays
    <2>2. CASE ~generate_end
        BY <1>1, <1>8, <2>2 DEF Finish, CheckUndefined, simplify, Abort, globals
    <2> QED
        BY <2>1, <2>2
<1> QED
    BY <1>1, <1>3, <1>4, <1>5, <1>6, <1>7, <1>8 DEF Next, Ended, vars

(* A definition is never taken back or moved, whatever is read later; only *)
(* the end of a section is set once more, when the sections are complete.  *)
THEOREM DefinitionsAreFinal == Spec => DefinitionsStay
<1>1. TypeInv /\ TableInv /\ [Next]_vars =>
          [\A k \in DOMAIN symbols :
              /\ k \in DOMAIN symbols'
              /\ symbols'[k].name = symbols[k].name
              /\ symbols[k].type # "UND" => \/ symbols'[k] = symbols[k]
                                            \/ pc = "generate_end" /\ EndOf(k) # {}]_vars
    BY SymbolsStay DEF SymbolStays
<1> QED
    BY <1>1, InputStaysOpen, TableAlways, PTL DEF Spec, DefinitionsStay

-----------------------------------------------------------------------------
(* The modules read so far, and in the last one the symbols read so far.   *)

ReadingModule == pc \in {"sections", "symbols", "records"}

(* The module that is read is the last of those that were.                 *)
NowReading == ReadingModule => loaded # << >> /\ module = loaded[Len(loaded)]

Seen(b, k) ==
    /\ b \in DOMAIN loaded /\ k \in DOMAIN loaded[b].syms
    /\ b = Len(loaded) => pc # "sections" /\ (pc = "symbols" => k < i)

SeenSymbols == UNION {{loaded[b].syms[k] : k \in {j \in DOMAIN loaded[b].syms : Seen(b, j)}}
                      : b \in DOMAIN loaded}

(* How a step moves through the modules. *)
LEMMA Flow ==
    ASSUME [Next]_vars
    PROVE  \/ Abort
           \/ pc \in {"module", "round"} /\ \E m : Enter(m)
           \/ /\ UNCHANGED << module, loaded >>
              /\ \/ UNCHANGED << pc, i >>
                 \/ /\ {pc, pc'} \cap {"sections", "symbols"} = {}
                    /\ pc' = "records" => pc = "records"
                 \/ pc = "sections" /\ pc' = "sections"
                 \/ pc = "sections" /\ pc' = "symbols" /\ i' = 1
                 \/ AtSymbol /\ pc' = "symbols" /\ i' = i + 1
                 \/ pc = "symbols" /\ i \notin DOMAIN module.syms /\ pc' = "records"
<1>1. CASE OneSection
    BY <1>1 DEF OneSection, SectionPredefined, SectionNew, SectionKnown, SectionsDone,
                AtSection, NextItem, frame
<1>2. CASE OneSymbol
    <2>1. CASE ReferenceNew \/ ReferenceKnown \/ DefineLocal \/ DefineNew
               \/ DefineReferenced \/ DefineAgain
        BY <2>1 DEF ReferenceNew, ReferenceKnown, DefineLocal, DefineNew,
                    DefineReferenced, DefineAgain, AtDefinition, AtSymbol, NextSymbol,
                    NextItem
    <2>2. CASE DefineUnmapped \/ SymbolsDone
        BY <2>2 DEF DefineUnmapped, SymbolsDone, frame
    <2> QED
        BY <1>2, <2>1, <2>2 DEF OneSymbol
<1>3. CASE OneRecord
    BY <1>3 DEF OneRecord, RecordData, RecordSection, RecordOrg, RecordSkipped,
                RecordExpression, RecordsDone, AtRecord, NextRecord, NextItem, frame
<1>4. CASE OneFile
    BY <1>4 DEF OneFile, FileRefused, FileIsLibrary, FileOpened, FileModule, FileDone,
                FilesDone, AtFile, frame
<1>5. CASE OneLibrary
    BY <1>5 DEF OneLibrary, LibraryMissing, LibraryNowhere, LibraryOpened,
                LibraryModule, LibraryRound, LibrariesDone, AtLibrary, NextLibrary, frame
<1>6. CASE Finish
    BY <1>6 DEF Finish, CheckUndefined, generate_end, simplify, frame
<1> QED
    BY <1>1, <1>2, <1>3, <1>4, <1>5, <1>6 DEF Next, Ended, vars

LEMMA NextReading == TypeInv /\ NowReading /\ [Next]_vars => NowReading'
<1> SUFFICES ASSUME TypeInv, NowReading, [Next]_vars PROVE NowReading'
    OBVIOUS
<1>1. CASE \E m : Enter(m)
    <2>1. PICK m : Enter(m)
        BY <1>1
    <2>2. loaded \in Seq(Module) /\ module' = m /\ loaded' = Append(loaded, m)
        BY <2>1 DEF Enter, TypeInv, TypeOK
    <2>3. loaded' # << >> /\ loaded'[Len(loaded')] = m
        BY <2>2
    <2> QED
        BY <2>2, <2>3 DEF NowReading
<1>2. CASE ~\E m : Enter(m)
    BY <1>2, Flow DEF NowReading, ReadingModule, Abort, frame, AtSymbol
<1> QED
    BY <1>1, <1>2

LEMMA ReadingNow == Spec => []NowReading
<1>1. Init => NowReading
    BY DEF Init, NowReading, ReadingModule
<1> QED
    BY <1>1, NextReading, InputStaysOpen, PTL DEF Spec

(* A turn of the loop over the symbols. *)
NextSymbolSeen == AtSymbol /\ i' = i + 1

(* Such a turn sees the next symbol of the module, and no other step sees  *)
(* a symbol.                                                               *)
LEMMA SeenSteps ==
    ASSUME TypeInv, NowReading, [Next]_vars, pc' # "aborted"
    PROVE  /\ \A b \in DOMAIN loaded : b \in DOMAIN loaded' /\ loaded'[b] = loaded[b]
           /\ ~NextSymbolSeen => \A b, k : Seen(b, k)' <=> Seen(b, k)
           /\ NextSymbolSeen =>
                 /\ UNCHANGED << pc, loaded >> /\ Len(loaded) \in DOMAIN loaded
                 /\ module = loaded[Len(loaded)]
                 /\ \A b, k : Seen(b, k)' <=> Seen(b, k) \/ (b = Len(loaded) /\ k = i)
<1>0. /\ loaded \in Seq(Module) /\ i \in Nat \ {0}
      /\ \A b \in DOMAIN loaded : loaded[b].syms \in Seq(Symbol)
    <2>1. loaded \in Seq(Module) /\ i \in Nat \ {0}
        BY DEF TypeInv, TypeOK
    <2> QED
        BY <2>1, ModuleParts
<1>1. CASE pc \in {"module", "round"} /\ \E m : Enter(m)
    <2>1. PICK m : Enter(m)
        BY <1>1
    <2>2. loaded' = Append(loaded, m) /\ pc' = "sections" /\ ~NextSymbolSeen
        BY <1>1, <2>1 DEF Enter, NextSymbolSeen, AtSymbol
    <2>3. /\ DOMAIN loaded' = DOMAIN loaded \cup {Len(loaded) + 1}
          /\ Len(loaded') = Len(loaded) + 1 /\ Len(loaded) + 1 \notin DOMAIN loaded
          /\ \A b \in DOMAIN loaded : loaded'[b] = loaded[b]
        BY <1>0, <2>2
    <2> QED
        BY <1>1, <2>2, <2>3 DEF Seen
<1>2. CASE NextSymbolSeen /\ pc' = "symbols" /\ UNCHANGED << module, loaded >>
    <2>1. loaded # << >> /\ module = loaded[Len(loaded)] /\ pc = "symbols"
        BY <1>2 DEF NowReading, ReadingModule, AtSymbol, NextSymbolSeen
    <2>2. Len(loaded) \in DOMAIN loaded /\ i \in DOMAIN loaded[Len(loaded)].syms
        BY <1>0, <1>2, <2>1 DEF AtSymbol, NextSymbolSeen
    <2>3. \A b \in DOMAIN loaded : \A k \in DOMAIN loaded[b].syms : k < i + 1 <=> k < i \/ k = i
        BY <1>0
    <2>4. \A b, k : Seen(b, k)' <=> Seen(b, k) \/ (b = Len(loaded) /\ k = i)
        BY <1>2, <2>1, <2>2, <2>3 DEF Seen, NextSymbolSeen
    <2> QED
        BY <1>2, <2>1, <2>2, <2>4
<1>3. CASE UNCHANGED << module, loaded >> /\ ~NextSymbolSeen
    <2>1. CASE UNCHANGED << pc, i >> \/ (pc = "sections" /\ pc' = "sections")
        BY <1>3, <2>1 DEF Seen
    <2>2. CASE {pc, pc'} \cap {"sections", "symbols"} = {}
        BY <1>3, <2>2 DEF Seen
    <2>3. CASE pc = "sections" /\ pc' = "symbols" /\ i' = 1
        <3>1. \A b \in DOMAIN loaded : \A k \in DOMAIN loaded[b].syms : ~(k < 1)
            BY <1>0
        <3> QED
            BY <1>3, <2>3, <3>1 DEF Seen
    <2>4. CASE pc = "symbols" /\ i \notin DOMAIN module.syms /\ pc' = "records"
        <3>1. module = loaded[Len(loaded)] /\ Len(loaded) \in DOMAIN loaded
            BY <1>0, <2>4 DEF NowReading, ReadingModule
        <3>2. \A k \in DOMAIN loaded[Len(loaded)].syms : k < i
            BY <1>0, <2>4, <3>1
        <3> QED
            BY <1>3, <2>4, <3>2 DEF Seen
    <2> QED
        BY <1>3, <2>1, <2>2, <2>3, <2>4, Flow DEF Abort, Enter, NextSymbolSeen, AtSymbol
<1>4. \/ pc \in {"module", "round"} /\ \E m : Enter(m)
      \/ NextSymbolSeen /\ pc' = "symbols" /\ UNCHANGED << module, loaded >>
      \/ UNCHANGED << module, loaded >> /\ ~NextSymbolSeen
    <2>1. i + 1 # i /\ (i \in DOMAIN module.syms => i + 1 # 1)
        BY <1>0
    <2> QED
        BY <2>1, Flow DEF Abort, NextSymbolSeen, AtSymbol
<1> QED
    BY <1>1, <1>2, <1>3, <1>4

LEMMA SeenSymbolsSteps ==
    ASSUME TypeInv, NowReading, [Next]_vars, pc' # "aborted"
    PROVE  SeenSymbols' = SeenSymbols \cup (IF NextSymbolSeen THEN {Sy} ELSE {})
<1>0. /\ \A x : x \in SeenSymbols <=> \E b, k : Seen(b, k) /\ x = loaded[b].syms[k]
      /\ \A x : x \in SeenSymbols' <=> \E b, k : Seen(b, k)' /\ x = loaded'[b].syms[k]
    BY DEF SeenSymbols, Seen
<1>1. /\ \A b \in DOMAIN loaded : b \in DOMAIN loaded' /\ loaded'[b] = loaded[b]
      /\ \A b, k : Seen(b, k) => b \in DOMAIN loaded
    BY SeenSteps DEF Seen
<1>2. CASE ~NextSymbolSeen
    <2>1. \A b, k : Seen(b, k)' <=> Seen(b, k)
        BY <1>2, SeenSteps
    <2>2. \A x : x \in SeenSymbols' <=> x \in SeenSymbols
        BY <1>0, <1>1, <2>1
    <2> QED
        BY <1>2, <2>2
<1>3. CASE NextSymbolSeen
    <2>1. /\ UNCHANGED loaded /\ loaded[Len(loaded)].syms[i] = Sy
          /\ \A b, k : Seen(b, k)' <=> Seen(b, k) \/ (b = Len(loaded) /\ k = i)
        BY <1>3, SeenSteps DEF Sy
    <2>2. \A x : x \in SeenSymbols' <=> x \in SeenSymbols \/ x = Sy
        BY <1>0, <2>1
    <2> QED
        BY <1>3, <2>2
<1> QED
    BY <1>2, <1>3

-----------------------------------------------------------------------------
(* What the modules read so far refer to and define, in the table.         *)

Refers(n) == \E s \in SeenSymbols : s.type = "UND" /\ s.name = n
Gives(n)  == \E s \in SeenSymbols : s.type # "UND" /\ s.flags = Global /\ s.name = n

Named(n)  == \E k \in DOMAIN symbols : symbols[k].name = n
DefinedNow(n) == \E k \in DOMAIN symbols : symbols[k].name = n /\ symbols[k].type # "UND"

History ==
    /\ \A n : Refers(n) => Named(n)
    /\ \A n : Gives(n) => DefinedNow(n)
    /\ \A n \in InitialNames : Named(n)
    /\ \A n \in undefined_symbols : Refers(n) /\ n \notin InitialNames
    /\ \A k \in DOMAIN symbols :
           \/ symbols[k].name \in undefined_symbols \cup InitialNames \cup SectionSymbols
           \/ Gives(symbols[k].name)

HistoryInv == pc # "aborted" => History

LEMMA SectionSymbolsGrow ==
    ASSUME \A b \in DOMAIN loaded : b \in DOMAIN loaded' /\ loaded'[b] = loaded[b]
    PROVE  SectionSymbols \subseteq SectionSymbols'
<1>1. UserSections \subseteq UserSections'
    BY DEF UserSections
<1> QED
    BY <1>1 DEF SectionSymbols

(* What is known stays known. *)
LEMMA HistoryStays ==
    ASSUME TypeInv, TableInv, NowReading, [Next]_vars, pc' # "aborted"
    PROVE  /\ \A n : Named(n) => Named(n)'
           /\ \A n : DefinedNow(n) => DefinedNow(n)'
           /\ \A n : Refers(n)' <=> Refers(n) \/ (NextSymbolSeen /\ Sy.type = "UND" /\ Sy.name = n)
           /\ \A n : Gives(n)' <=> Gives(n) \/ (NextSymbolSeen /\ Sy.type # "UND"
                                               /\ Sy.flags = Global /\ Sy.name = n)
           /\ SectionSymbols \subseteq SectionSymbols'
<1>1. \A n : Named(n) => Named(n)'
    BY SymbolsStay DEF Named, SymbolStays
<1>2. \A n : DefinedNow(n) => DefinedNow(n)'
    BY SymbolsStay DEF DefinedNow, SymbolStays
<1>3. SeenSymbols' = SeenSymbols \cup (IF NextSymbolSeen THEN {Sy} ELSE {})
    BY SeenSymbolsSteps
<1>4. \A n : Refers(n)' <=> Refers(n) \/ (NextSymbolSeen /\ Sy.type = "UND" /\ Sy.name = n)
    BY <1>3 DEF Refers
<1>5. \A n : Gives(n)' <=> Gives(n) \/ (NextSymbolSeen /\ Sy.type # "UND"
                                               /\ Sy.flags = Global /\ Sy.name = n)
    BY <1>3 DEF Gives
<1>6. SectionSymbols \subseteq SectionSymbols'
    BY SeenSteps, SectionSymbolsGrow
<1> QED
    BY <1>1, <1>2, <1>4, <1>5, <1>6

LEMMA InitHistory == Init => HistoryInv
<1> SUFFICES ASSUME Init PROVE History
    BY DEF HistoryInv
<1> USE DEF Predefined, PAGE0, CODE, KDATA, DATA, UDATA
<1>1. /\ symbols = [j \in 1 .. 10 |-> PredefinedSymbol(j)]
      /\ undefined_symbols = {} /\ loaded = << >>
    BY DEF Init
<1>2. \A n : ~Refers(n) /\ ~Gives(n)
    BY <1>1 DEF Refers, Gives, SeenSymbols
<1>3. \A k \in 1 .. 10 : symbols[k].name \in InitialNames
    <2> SUFFICES ASSUME NEW k \in 1 .. 10 PROVE PredefinedSymbol(k).name \in InitialNames
        BY <1>1
    <2>1. (k + 1) \div 2 \in Predefined
        OBVIOUS
    <2> QED
        BY <2>1 DEF PredefinedSymbol, SectionStart, UndefinedSymbol, InitialNames
<1>4. ASSUME NEW v \in Predefined
      PROVE  Named(PredefinedBeg[v]) /\ Named(PredefinedEnd[v])
    <2> DEFINE j == 2 * v - 1
               k == 2 * v
    <2>1. /\ j \in 1 .. 10 /\ j % 2 = 1 /\ (j + 1) \div 2 = v
          /\ k \in 1 .. 10 /\ k % 2 = 0 /\ (k + 1) \div 2 = v
        OBVIOUS
    <2>2. symbols[j].name = PredefinedBeg[v]
        BY <1>1, <2>1 DEF PredefinedSymbol, SectionStart
    <2>3. symbols[k].name = PredefinedEnd[v]
        BY <1>1, <2>1 DEF PredefinedSymbol, UndefinedSymbol
    <2> HIDE DEF j, k
    <2> QED
        BY <1>1, <2>1, <2>2, <2>3 DEF Named
<1>5. \A n \in InitialNames : Named(n)
    BY <1>4 DEF InitialNames
<1> QED
    BY <1>1, <1>2, <1>3, <1>5 DEF History

(* A step that leaves the table alone. *)
LEMMA HistoryKept ==
    ASSUME TypeInv, TableInv, NowReading, [Next]_vars, pc' # "aborted", History,
           ~NextSymbolSeen, UNCHANGED << symbols, undefined_symbols >>
    PROVE  History'
<1>1. \A n : (Named(n)' <=> Named(n)) /\ (DefinedNow(n)' <=> DefinedNow(n))
    BY DEF Named, DefinedNow
<1>2. \A n : (Refers(n)' <=> Refers(n)) /\ (Gives(n)' <=> Gives(n))
    BY HistoryStays
<1>3. InitialNames' = InitialNames
    BY DEF InitialNames
<1> QED
    BY <1>1, <1>2, <1>3, HistoryStays DEF History

LEMMA KnownSymbols ==
    ASSUME TypeInv, TableInv
    PROVE  /\ \A n : n \in DOMAIN symbol_map <=> Named(n)
           /\ \A n \in undefined_symbols : Named(n) /\ ~DefinedNow(n)
           /\ \A n \in DOMAIN symbol_map :
                  DefinedNow(n) <=> symbols[symbol_map[n]].type # "UND"
<1>1. /\ symbol_map \in [DOMAIN symbol_map -> DOMAIN symbols]
      /\ \A k \in DOMAIN symbols : symbols[k].name \in DOMAIN symbol_map
                                   /\ symbol_map[symbols[k].name] = k
      /\ \A n \in DOMAIN symbol_map : symbols[symbol_map[n]].name = n
      /\ \A n \in undefined_symbols : n \in DOMAIN symbol_map
                                      /\ symbols[symbol_map[n]].type = "UND"
    BY DEF TableInv, Table
<1>2. \A n : n \in DOMAIN symbol_map <=> Named(n)
    BY <1>1 DEF Named
<1>3. \A n \in DOMAIN symbol_map : DefinedNow(n) <=> symbols[symbol_map[n]].type # "UND"
    BY <1>1 DEF DefinedNow
<1> QED
    BY <1>1, <1>2, <1>3

LEMMA SymbolHistory ==
    ASSUME TypeInv, TableInv, NowReading, History, OneSymbol, NextSymbolSeen,
           pc' # "aborted"
    PROVE  History'
<1>0. [Next]_vars /\ ~Abort /\ ~SymbolsDone
    BY DEF Next, Abort, SymbolsDone, NextSymbolSeen, AtSymbol
<1> SUFFICES ASSUME NEW name, name = Sy.name,
                    NEW open \in BOOLEAN, open <=> Sy.type = "UND",
                    NEW new \in BOOLEAN, new <=> Sy.type # "UND" /\ Sy.flags = Global
             PROVE  History'
    OBVIOUS
<1>1. /\ \A n : Refers(n)' <=> Refers(n) \/ (open /\ name = n)
      /\ \A n : Gives(n)' <=> Gives(n) \/ (new /\ name = n)
      /\ \A n : Named(n) => Named(n)'
      /\ \A n : DefinedNow(n) => DefinedNow(n)'
      /\ SectionSymbols \subseteq SectionSymbols' /\ InitialNames' = InitialNames
    BY <1>0, HistoryStays DEF InitialNames
<1>2. \A k \in DOMAIN symbols : k \in DOMAIN symbols' /\ symbols'[k].name = symbols[k].name
    BY <1>0, SymbolsStay DEF SymbolStays
<1>4. /\ open => Named(name)'
      /\ new => DefinedNow(name)'
      /\ \A n \in undefined_symbols' :
             n \in undefined_symbols \/ (n = name /\ open /\ ~Named(name))
      /\ \A n \in undefined_symbols : n \in undefined_symbols' \/ (n = name /\ new)
      /\ \A k \in DOMAIN symbols' :
             \/ k \in DOMAIN symbols
             \/ symbols'[k].name = name /\ (name \in undefined_symbols' \/ new)
    <2>1. CASE ReferenceNew
        <3>1. name \in undefined_symbols' /\ ~Named(name) /\ Named(name)' /\ ~new
            BY <2>1, KnownSymbols, ReferenceNewAdds DEF Named
        <3>2. \A k \in DOMAIN symbols' : k \in DOMAIN symbols \/ symbols'[k].name = name
            BY <2>1, ReferenceNewAdds
        <3> QED
            BY <2>1, <3>1, <3>2, ReferenceNewAdds
    <2>2. CASE DefineNew
        BY <2>2, DefineNewAdds DEF DefinedNow
    <2>3. CASE DefineReferenced
        BY <2>3, DefineReferencedSets DEF DefinedNow
    <2>4. CASE ReferenceKnown \/ DefineLocal \/ DefineAgain
        <3>1. /\ open => Named(name)
              /\ new => DefinedNow(name)
            BY <2>4, KnownSymbols DEF ReferenceKnown, DefineLocal, DefineAgain, AtDefinition
        <3> QED
            BY <1>1, <2>4, <3>1, SymbolCases DEF globals
    <2> QED
        BY <1>0, <2>1, <2>2, <2>3, <2>4, SymbolCases
<1>5. \A n : Refers(n)' => Named(n)'
    BY <1>1, <1>4 DEF History
<1>6. \A n : Gives(n)' => DefinedNow(n)'
    BY <1>1, <1>4 DEF History
<1>7. \A n \in InitialNames' : Named(n)'
    BY <1>1 DEF History
<1>8. \A n \in undefined_symbols' : Refers(n)' /\ n \notin InitialNames'
    BY <1>1, <1>4 DEF History
<1>9. ASSUME NEW k, NEW n, k \in DOMAIN symbols', n = symbols'[k].name
      PROVE  n \in (undefined_symbols \cup InitialNames \cup SectionSymbols)' \/ Gives(n)'
    <2>1. CASE k \in DOMAIN symbols
        <3>1. n \in undefined_symbols \cup InitialNames \cup SectionSymbols \/ Gives(n)
            BY <1>2, <1>9, <2>1 DEF History
        <3> QED
            BY <1>1, <1>4, <3>1
    <2>2. CASE k \notin DOMAIN symbols
        BY <1>1, <1>4, <1>9, <2>2
    <2> QED
        BY <2>1, <2>2
<1> QED
    BY <1>5, <1>6, <1>7, <1>8, <1>9 DEF History

LEMMA SectionHistory ==
    ASSUME TypeInv, TableInv, NowReading, History, SectionNew, pc' # "aborted"
    PROVE  History'
<1>0. [Next]_vars /\ ~NextSymbolSeen /\ pc = "sections"
    BY DEF Next, OneSection, SectionNew, AtSection, NextSymbolSeen, AtSymbol
<1>1. /\ \A n : (Refers(n)' <=> Refers(n)) /\ (Gives(n)' <=> Gives(n))
      /\ \A n : Named(n) => Named(n)'
      /\ \A n : DefinedNow(n) => DefinedNow(n)'
      /\ SectionSymbols \subseteq SectionSymbols' /\ InitialNames' = InitialNames
    BY <1>0, HistoryStays DEF InitialNames
<1>2. ~Unnamed(Sec) => {BegName[Sec.name], EndName[Sec.name]} \subseteq SectionSymbols
    <2>1. /\ loaded \in Seq(Module) /\ loaded # << >> /\ module = loaded[Len(loaded)]
          /\ i \in DOMAIN module.secs /\ Sec.number \notin Predefined
        BY <1>0 DEF NowReading, ReadingModule, TypeInv, TypeOK, SectionNew, AtSection
    <2>2. Len(loaded) \in DOMAIN loaded
        BY <2>1
    <2>3. ~Unnamed(Sec) => Sec \in UserSections
        BY <2>1, <2>2 DEF UserSections, Sec
    <2> QED
        BY <2>3 DEF SectionSymbols
<1>3. /\ \A k \in DOMAIN symbols : k \in DOMAIN symbols' /\ symbols'[k] = symbols[k]
      /\ \A k \in DOMAIN symbols' : k \in DOMAIN symbols \/ symbols'[k].name \in SectionSymbols
    BY <1>2, SectionExtends DEF Extended
<1>4. undefined_symbols' = undefined_symbols
    BY DEF SectionNew
<1>5. ASSUME NEW k, NEW n, k \in DOMAIN symbols', n = symbols'[k].name
      PROVE  n \in (undefined_symbols \cup InitialNames \cup SectionSymbols)' \/ Gives(n)'
    <2>1. CASE k \in DOMAIN symbols
        <3>1. n \in undefined_symbols \cup InitialNames \cup SectionSymbols \/ Gives(n)
            BY <1>3, <1>5, <2>1 DEF History
        <3> QED
            BY <1>1, <1>4, <3>1
    <2>2. CASE k \notin DOMAIN symbols
        BY <1>1, <1>3, <1>5, <2>2
    <2> QED
        BY <2>1, <2>2
<1> QED
    BY <1>1, <1>4, <1>5 DEF History

(* generate_end() runs with an empty list, and leaves it empty. *)
LEMMA EndHistory ==
    ASSUME TypeInv, TableInv, NowReading, History, generate_end
    PROVE  History'
<1>0. /\ [Next]_vars /\ ~NextSymbolSeen /\ pc' # "aborted"
      /\ undefined_symbols = {} /\ undefined_symbols' = {}
    BY DEF Next, Finish, generate_end, NextSymbolSeen, AtSymbol, TableInv
<1>1. /\ \A n : (Refers(n)' <=> Refers(n)) /\ (Gives(n)' <=> Gives(n))
      /\ \A n : Named(n) => Named(n)'
      /\ \A n : DefinedNow(n) => DefinedNow(n)'
      /\ SectionSymbols \subseteq SectionSymbols' /\ InitialNames' = InitialNames
    BY <1>0, HistoryStays DEF InitialNames
<1>2. /\ DOMAIN symbols' = DOMAIN symbols
      /\ \A k \in DOMAIN symbols : symbols'[k].name = symbols[k].name
    BY <1>0, SymbolsStay DEF SymbolStays, generate_end
<1> QED
    BY <1>0, <1>1, <1>2 DEF History

(* Every group of actions by the values of pc it runs at. *)
LEMMA PhaseOf ==
    /\ OneSection => pc = "sections"
    /\ OneSymbol => pc = "symbols"
    /\ OneRecord => pc = "records"
    /\ OneFile => pc \in {"file", "module"}
    /\ OneLibrary => pc \in {"library", "round"}
    /\ Finish => pc \in {"resolved", "generate_end", "simplify"}
    /\ Ended => pc \in Final
<1>1. OneSection => pc = "sections"
    BY DEF OneSection, SectionPredefined, SectionNew, SectionKnown, SectionsDone, AtSection
<1>2. OneSymbol => pc = "symbols"
    BY DEF OneSymbol, ReferenceNew, ReferenceKnown, DefineUnmapped, DefineLocal,
           DefineNew, DefineReferenced, DefineAgain, SymbolsDone, AtDefinition, AtSymbol
<1>3. OneRecord => pc = "records"
    BY DEF OneRecord, RecordData, RecordSection, RecordOrg, RecordSkipped,
           RecordExpression, RecordsDone, AtRecord
<1>4. OneFile => pc \in {"file", "module"}
    BY DEF OneFile, FileRefused, FileIsLibrary, FileOpened, FileModule, FileDone,
           FilesDone, AtFile
<1>5. OneLibrary => pc \in {"library", "round"}
    BY DEF OneLibrary, LibraryMissing, LibraryNowhere, LibraryOpened, LibraryModule,
           LibraryRound, LibrariesDone, AtLibrary
<1>6. Finish => pc \in {"resolved", "generate_end", "simplify"}
    BY DEF Finish, CheckUndefined, generate_end, simplify
<1> QED
    BY <1>1, <1>2, <1>3, <1>4, <1>5, <1>6 DEF Ended

LEMMA NextHistory ==
    ASSUME TypeInv, TableInv, NowReading, HistoryInv, [Next]_vars
    PROVE  HistoryInv'
<1> SUFFICES ASSUME pc' # "aborted" PROVE History'
    BY DEF HistoryInv
<1>0. pc # "aborted" /\ History
    <2>1. pc # "aborted"
        BY PhaseOf DEF Next, Ended, vars
    <2> QED
        BY <2>1 DEF HistoryInv
<1>1. CASE NextSymbolSeen
    <2>1. OneSymbol \/ UNCHANGED vars
        BY <1>1, PhaseOf DEF Next, NextSymbolSeen, AtSymbol, Ended
    <2>2. i + 1 # i
        BY DEF TypeInv, TypeOK
    <2> QED
        BY <1>0, <1>1, <2>1, <2>2, SymbolHistory DEF vars, NextSymbolSeen
<1>2. CASE SectionNew
    BY <1>0, <1>2, SectionHistory
<1>3. CASE generate_end
    BY <1>0, <1>3, EndHistory
<1>4. CASE ~NextSymbolSeen /\ ~SectionNew /\ ~generate_end
    <2>1. ASSUME OneSymbol
         PROVE  UNCHANGED << symbols, undefined_symbols >>
        BY <1>4, <2>1, SymbolCases DEF Abort, SymbolsDone, NextItem, NextSymbolSeen, globals
    <2>2. ASSUME OneSection \/ OneRecord
         PROVE  UNCHANGED << symbols, undefined_symbols >>
        BY <1>4, <2>2 DEF OneSection, SectionPredefined, SectionKnown, SectionsDone,
               OneRecord, RecordData, RecordSection, RecordOrg, RecordSkipped,
               RecordExpression, RecordsDone, NextRecord, Abort, globals
    <2>3. ASSUME OneFile
         PROVE  UNCHANGED << symbols, undefined_symbols >>
        BY <2>3 DEF OneFile, FileRefused, FileIsLibrary, FileOpened, FileModule,
                    FileDone, FilesDone, globals
    <2>4. ASSUME OneLibrary
         PROVE  UNCHANGED << symbols, undefined_symbols >>
        BY <2>4 DEF OneLibrary, LibraryMissing, LibraryNowhere, LibraryOpened,
                    LibraryModule, LibraryRound, LibrariesDone, globals
    <2>5. ASSUME CheckUndefined \/ simplify \/ Ended \/ UNCHANGED vars
         PROVE  UNCHANGED << symbols, undefined_symbols >>
        BY <2>5 DEF CheckUndefined, simplify, Ended, Abort, globals, vars
    <2>6. UNCHANGED << symbols, undefined_symbols >>
        BY <1>4, <2>1, <2>2, <2>3, <2>4, <2>5 DEF Next, Finish
    <2> QED
        BY <1>0, <1>4, <2>6, HistoryKept
<1> QED
    BY <1>1, <1>2, <1>3, <1>4

LEMMA HistoryAlways == Spec => []HistoryInv
BY InputStaysOpen, TableAlways, ReadingNow, InitHistory, NextHistory, PTL DEF Spec

(* Between modules every symbol of every module was seen.                  *)
LEMMA AllSeen ==
    ASSUME BetweenModules
    PROVE  /\ \A n : n \in Referenced <=> Refers(n)
           /\ \A n \in Names : n \in DefinedNames <=> Gives(n)
<1>1. \A x : x \in SeenSymbols <=>
                \E b \in DOMAIN loaded : \E k \in DOMAIN loaded[b].syms : x = loaded[b].syms[k]
    BY DEF SeenSymbols, Seen, BetweenModules
<1>2. \A n : n \in Referenced <=> Refers(n)
    <2>1. \A n : n \in Referenced <=>
              \E b \in DOMAIN loaded : \E k \in DOMAIN loaded[b].syms :
                  loaded[b].syms[k].type = "UND" /\ n = loaded[b].syms[k].name
        BY DEF Referenced
    <2> QED
        BY <1>1, <2>1 DEF Refers
<1>3. \A n \in Names : n \in DefinedNames <=> Gives(n)
    BY <1>1 DEF DefinedNames, Defines, Gives
<1> QED
    BY <1>2, <1>3

(* Between modules the list of undefined symbols is what the modules refer *)
(* to and neither they nor the linker define, in whatever order references *)
(* and definitions came (undefined_symbols in one_module()).               *)
THEOREM ListIsExact == Spec => []UndefinedExactly
<1>1. TypeInv /\ TableInv /\ HistoryInv => UndefinedExactly
    <2> SUFFICES ASSUME TypeInv, TableInv, History, BetweenModules, pc # "aborted"
                 PROVE  UndefinedExactly
        BY DEF HistoryInv, UndefinedExactly
    <2>1. \A n \in undefined_symbols :
              /\ Refers(n) /\ n \notin InitialNames /\ ~Gives(n) /\ n \in Names
        BY KnownSymbols DEF History, TypeInv, TypeOK
    <2>2. ASSUME NEW n, Refers(n), n \notin undefined_symbols,
                 n \notin InitialNames, n \notin SectionSymbols
          PROVE  n \in Names /\ Gives(n)
        <3>1. PICK k \in DOMAIN symbols : symbols[k].name = n
            BY <2>2 DEF History, Named
        <3>2. symbols[k] \in Symbol
            BY <3>1 DEF TypeInv, TypeOK
        <3> QED
            BY <2>2, <3>1, <3>2 DEF History, Symbol
    <2> QED
        BY <2>1, <2>2, AllSeen DEF UndefinedExactly
<1> QED
    BY <1>1, InputStaysOpen, TableAlways, HistoryAlways, PTL

-----------------------------------------------------------------------------
(* one_lib(): the rounds over a library leave nothing that it defines      *)
(* undefined. While a library is read, every missing name that it defines  *)
(* is either defined by a module some round asked for, or noted for the    *)
(* next round; and every module that was processed was read.               *)

InLibrary == l # 0 /\ (pc = "round" \/ ReadingModule)

Wanted ==
    \A n \in undefined_symbols \cap DOMAIN Lib.dict :
        Lib.dict[n] \in DOMAIN modules \/ n \in local_undefined

ProcessedRead ==
    \A m \in DOMAIN modules : modules[m] = "processed" /\ Lib.mods[m].intact =>
        \E b \in DOMAIN loaded : loaded[b] = Lib.mods[m]

LibraryInv == InLibrary => Wanted /\ ProcessedRead

(* A step in a library that is not one of one_lib() itself lists a name as *)
(* undefined only if it notes it for the next round.                       *)
LEMMA ModuleInLibrary ==
    ASSUME TypeInv, TableInv, OneSection \/ OneSymbol \/ OneRecord, InLibrary'
    PROVE  /\ InLibrary /\ UNCHANGED << cmd, l, L, modules, loaded >>
           /\ \A n \in undefined_symbols' : n \in undefined_symbols \cup local_undefined'
           /\ local_undefined \subseteq local_undefined'
<1>1. InLibrary /\ UNCHANGED << cmd, l, L, modules, loaded >>
    <2>1. UNCHANGED << cmd, l, L, modules, loaded >>
        <3>1. CASE OneSection
            BY <3>1 DEF OneSection, SectionPredefined, SectionNew, SectionKnown,
                        SectionsDone, NextItem, Abort, input, frame
        <3>2. CASE OneSymbol
            BY <3>2, SymbolCases DEF SymbolsDone, NextItem, Abort, input, frame
        <3>3. CASE OneRecord
            BY <3>3 DEF OneRecord, RecordData, RecordSection, RecordOrg, RecordSkipped,
                        RecordExpression, RecordsDone, NextRecord, NextItem, Abort,
                        input, frame
        <3> QED
            BY <3>1, <3>2, <3>3
    <2>2. ReadingModule
        BY PhaseOf DEF ReadingModule
    <2> QED
        BY <2>1, <2>2 DEF InLibrary
<1>2. CASE OneSection \/ OneRecord
    <2>1. UNCHANGED << undefined_symbols, local_undefined >>
        BY <1>2 DEF OneSection, SectionPredefined, SectionNew, SectionKnown, SectionsDone,
                    OneRecord, RecordData, RecordSection, RecordOrg, RecordSkipped,
                    RecordExpression, RecordsDone, NextRecord, Abort, globals
    <2> QED
        BY <1>1, <2>1
<1>3. CASE OneSymbol
    <2>1. CASE ReferenceNew
        <3>1. /\ undefined_symbols' = undefined_symbols \cup {Sy.name}
              /\ Sy.type = "UND"
            BY <2>1, ReferenceNewAdds
        <3>2. local_undefined' = local_undefined \cup {Sy.name}
            <4> DEFINE s == [Sy EXCEPT !.section = Len(symbols) + 1]
            <4>1. NoteUndefined(s) /\ Sy \in Symbol
                BY <1>3, <2>1, PhaseOf, SymbolTyped DEF ReferenceNew
            <4>2. s.type = "UND" /\ s.name = Sy.name
                BY <3>1, <4>1 DEF Symbol
            <4> HIDE DEF s
            <4> QED
                BY <1>1, <4>1, <4>2 DEF NoteUndefined, InLibrary
        <3> QED
            BY <1>1, <3>1, <3>2
    <2>2. CASE ReferenceKnown
        <3>1. UNCHANGED undefined_symbols /\ local_undefined \subseteq local_undefined'
            BY <2>2 DEF ReferenceKnown, NoteUndefined
        <3> QED
            BY <1>1, <3>1
    <2>3. CASE DefineReferenced
        BY <1>1, <2>3 DEF DefineReferenced
    <2>4. CASE ~ReferenceNew /\ ~ReferenceKnown /\ ~DefineReferenced
        <3>1. UNCHANGED << undefined_symbols, local_undefined >>
            BY <1>3, <2>4 DEF OneSymbol, DefineUnmapped, DefineLocal, DefineNew,
                              DefineAgain, SymbolsDone, Abort, globals
        <3> QED
            BY <1>1, <3>1
    <2> QED
        BY <2>1, <2>2, <2>3, <2>4
<1> QED
    BY <1>2, <1>3

LEMMA NextLibraryInv ==
    ASSUME TypeInv, TableInv, LibraryInv, [Next]_vars
    PROVE  LibraryInv'
<1> SUFFICES ASSUME InLibrary' PROVE Wanted' /\ ProcessedRead'
    BY DEF LibraryInv
<1>1. CASE OneSection \/ OneSymbol \/ OneRecord
    BY <1>1, ModuleInLibrary DEF LibraryInv, Wanted, ProcessedRead, Lib
<1>2. CASE OneFile
    BY <1>2, PhaseOf DEF OneFile, FileRefused, FileIsLibrary, FileOpened, FileModule,
             FileDone, FilesDone, InLibrary, ReadingModule, TypeInv, InputOpen
<1>3. CASE LibraryOpened
    <2>1. /\ UNCHANGED << cmd, l, L, undefined_symbols >>
          /\ modules' = [m \in intersection(Lib.dict, undefined_symbols) |-> "pending"]
        BY <1>3 DEF LibraryOpened, NextLibrary, InLibrary, ReadingModule, globals
    <2>2. Lib' = Lib
        BY <2>1 DEF Lib
    <2> QED
        BY <2>1, <2>2 DEF Wanted, ProcessedRead, intersection
<1>4. CASE LibraryModule
    <2>1. PICK m \in Pending :
              /\ modules' = [modules EXCEPT ![m] = "processed"]
              /\ \/ Lib.mods[m].intact /\ Enter(Lib.mods[m])
                 \/ ~Lib.mods[m].intact /\ UNCHANGED << frame, pc, i >>
              /\ pc = "round" /\ UNCHANGED << cmd, l, L, globals, local_undefined >>
        BY <1>4 DEF LibraryModule
    <2>2. Lib' = Lib /\ DOMAIN modules' = DOMAIN modules /\ Wanted /\ ProcessedRead
        BY <2>1 DEF Lib, LibraryInv, InLibrary
    <2>3. Wanted'
        BY <2>1, <2>2 DEF Wanted, globals
    <2>4. /\ \A b \in DOMAIN loaded : b \in DOMAIN loaded' /\ loaded'[b] = loaded[b]
          /\ Lib.mods[m].intact => \E b \in DOMAIN loaded' : loaded'[b] = Lib.mods[m]
        <3>1. CASE Lib.mods[m].intact
            <4>1. loaded' = Append(loaded, Lib.mods[m]) /\ loaded \in Seq(Module)
                BY <2>1, <3>1 DEF Enter, TypeInv, TypeOK
            <4>2. Len(loaded) + 1 \in DOMAIN loaded' /\ loaded'[Len(loaded) + 1] = Lib.mods[m]
                BY <4>1
            <4> QED
                BY <4>1, <4>2
        <3>2. CASE ~Lib.mods[m].intact
            BY <2>1, <3>2 DEF frame
        <3> QED
            BY <3>1, <3>2
    <2>5. ASSUME NEW k \in DOMAIN modules, modules'[k] = "processed", Lib.mods[k].intact
          PROVE  \E b \in DOMAIN loaded' : loaded'[b] = Lib.mods[k]
        BY <2>1, <2>2, <2>4, <2>5 DEF ProcessedRead
    <2> QED
        BY <2>2, <2>3, <2>5 DEF ProcessedRead
<1>5. CASE LibraryRound
    <2> DEFINE more == intersection(Lib.dict, local_undefined) \ DOMAIN modules
    <2>1. /\ pc = "round" /\ UNCHANGED << cmd, l, L, undefined_symbols, loaded >>
          /\ modules' = [m \in DOMAIN modules \cup more |->
                            IF m \in more THEN "pending" ELSE modules[m]]
        BY <1>5 DEF LibraryRound, NextLibrary, InLibrary, ReadingModule, globals, frame
    <2>2. Lib' = Lib /\ DOMAIN modules' = DOMAIN modules \cup more
        BY <2>1 DEF Lib
    <2>3. Wanted /\ ProcessedRead
        BY <2>1 DEF LibraryInv, InLibrary
    <2>4. Wanted'
        BY <2>1, <2>2, <2>3 DEF Wanted, intersection
    <2>5. ProcessedRead'
        BY <2>1, <2>2, <2>3 DEF ProcessedRead
    <2> QED
        BY <2>4, <2>5
<1>6. CASE LibraryMissing \/ LibraryNowhere \/ LibrariesDone
    BY <1>6 DEF LibraryMissing, LibraryNowhere, LibrariesDone, AtLibrary, NextLibrary,
                InLibrary, ReadingModule
<1>7. CASE Finish
    BY <1>7 DEF Finish, CheckUndefined, generate_end, simplify, Abort, InLibrary,
                ReadingModule
<1>8. CASE Ended \/ UNCHANGED vars
    BY <1>8 DEF Ended, vars, LibraryInv, InLibrary, ReadingModule, Wanted, ProcessedRead, Lib
<1> QED
    BY <1>1, <1>2, <1>3, <1>4, <1>5, <1>6, <1>7, <1>8 DEF Next, OneLibrary

LEMMA LibraryAlways == Spec => []LibraryInv
<1>1. Init => LibraryInv
    BY DEF Init, LibraryInv, InLibrary
<1> QED
    BY <1>1, NextLibraryInv, InputStaysOpen, TableAlways, PTL DEF Spec

(* When one_lib() returns, nothing that the library defines is missing:    *)
(* not what its own modules asked for in later rounds either, if its       *)
(* dictionary tells the truth.                                             *)
THEOREM LibrariesAreExhausted == Spec => LibraryExhausted
<1> DEFINE Leaves == pc = "round" /\ pc' \in {"library", "resolved"} /\ Accurate(Lib) =>
                         undefined_symbols' \cap DOMAIN Lib.dict = {}
<1>1. ASSUME TypeInv, TableInv, HistoryInv, LibraryInv, InputOpen, [Next]_vars,
             pc = "round", pc' \in {"library", "resolved"}, Accurate(Lib),
             NEW n \in undefined_symbols' \cap DOMAIN Lib.dict
      PROVE  FALSE
    <2>1. LibraryRound
        <3>1. OneLibrary \/ UNCHANGED vars
            BY <1>1, PhaseOf DEF Next, Final
        <3>2. LibraryModule => pc' \in {"round", "sections"}
            BY DEF LibraryModule, Enter
        <3>3. LibraryMissing \/ LibraryNowhere \/ LibraryOpened \/ LibrariesDone => pc = "library"
            BY DEF LibraryMissing, LibraryNowhere, LibraryOpened, LibrariesDone, AtLibrary
        <3> QED
            BY <1>1, <3>1, <3>2, <3>3 DEF OneLibrary, vars
    <2>2. /\ Pending = {} /\ UNCHANGED undefined_symbols
          /\ intersection(Lib.dict, local_undefined) \subseteq DOMAIN modules
        BY <1>1, <2>1 DEF LibraryRound, globals
    <2>3. InLibrary /\ l # 0
        BY <1>1 DEF InLibrary, InputOpen
    <2>4. Lib.dict[n] \in DOMAIN modules
        BY <1>1, <2>2, <2>3 DEF LibraryInv, Wanted, intersection
    <2> DEFINE m == Lib.dict[n]
    <2>5. modules[m] = "processed" /\ Lib.mods[m].intact /\ Defines(Lib.mods[m], n)
        BY <1>1, <2>2, <2>4 DEF Pending, TypeInv, TypeOK, Accurate
    <2>6. PICK b \in DOMAIN loaded : Defines(loaded[b], n)
        BY <1>1, <2>3, <2>4, <2>5 DEF LibraryInv, ProcessedRead
    <2>7. Gives(n)
        <3>1. PICK k \in DOMAIN loaded[b].syms :
                  /\ loaded[b].syms[k].name = n /\ loaded[b].syms[k].type # "UND"
                  /\ loaded[b].syms[k].flags = Global
            BY <2>6 DEF Defines
        <3>2. loaded[b].syms[k] \in SeenSymbols
            BY <1>1, <2>6, <3>1 DEF SeenSymbols, Seen
        <3> QED
            BY <3>1, <3>2 DEF Gives
    <2>8. DefinedNow(n) /\ n \in undefined_symbols
        BY <1>1, <2>2, <2>7 DEF HistoryInv, History
    <2> QED
        BY <1>1, <2>8, KnownSymbols
<1>2. TypeInv /\ TableInv /\ HistoryInv /\ LibraryInv /\ [Next]_vars => [Leaves]_vars
    BY <1>1 DEF TypeInv
<1> QED
    BY <1>2, InputStaysOpen, TableAlways, HistoryAlways, LibraryAlways, PTL
       DEF Spec, LibraryExhausted

-----------------------------------------------------------------------------
(* one_lib() reads no module a second time. What it asks for was missing   *)
(* when it asked, so no module that defines it had been read by then.      *)

(* The dictionary takes no name to a module that does not define it, and   *)
(* no two modules of the library are the same.                             *)
Truthful(lib) ==
    /\ \A n \in DOMAIN lib.dict :
           lib.mods[lib.dict[n]].intact => Defines(lib.mods[lib.dict[n]], n)
    /\ \A j, k \in DOMAIN lib.mods : lib.mods[j] = lib.mods[k] => j = k

TruthfulLibraries ==
    \A o \in DOMAIN cmd.libs : \A d \in DOMAIN cmd.libs[o] :
        cmd.libs[o][d].kind = "library" => Truthful(cmd.libs[o][d])

(* No module that was read is module m of the library.                     *)
Unread(m) == Lib.mods[m].intact => \A b \in DOMAIN loaded : loaded[b] # Lib.mods[m]

ReadHere == ReadingModule => \E m \in DOMAIN modules : loaded[Len(loaded)] = Lib.mods[m]

AskedFresh ==
    /\ \A m \in Pending : Unread(m)
    /\ \A n \in local_undefined \cap DOMAIN Lib.dict :
           Lib.dict[n] \notin DOMAIN modules => Unread(Lib.dict[n])
    /\ ReadHere

OnceInv ==
    TruthfulLibraries =>
        /\ InLibrary => Lib.kind = "library" /\ AskedFresh
        /\ LibraryModuleOnce

(* A module that was read to its end does not define what is not defined.  *)
LEMMA ReadDefines ==
    ASSUME History, NEW b \in DOMAIN loaded, \A k \in DOMAIN loaded[b].syms : Seen(b, k),
           NEW n, Defines(loaded[b], n)
    PROVE  DefinedNow(n)
<1>1. PICK k \in DOMAIN loaded[b].syms :
          /\ loaded[b].syms[k].name = n /\ loaded[b].syms[k].type # "UND"
          /\ loaded[b].syms[k].flags = Global
    BY DEF Defines
<1>2. loaded[b].syms[k] \in SeenSymbols
    BY <1>1 DEF SeenSymbols
<1>3. Gives(n)
    BY <1>1, <1>2 DEF Gives
<1> QED
    BY <1>3 DEF History

(* The names that one_module() notes are not defined.                      *)
LEMMA NotesUndefined ==
    ASSUME TypeInv, TableInv, OneSymbol, NEW n \in local_undefined', n \notin local_undefined
    PROVE  ~DefinedNow(n)
<1>1. Sy \in Symbol /\ pc = "symbols"
    BY PhaseOf, SymbolTyped DEF OneSymbol, ReferenceNew, ReferenceKnown, NoteUndefined,
       DefineUnmapped, DefineLocal, DefineNew, DefineReferenced, DefineAgain, SymbolsDone,
       AtDefinition, Abort
<1>2. CASE ReferenceNew
    <2>1. PICK s : s = [Sy EXCEPT !.section = Len(symbols) + 1]
        OBVIOUS
    <2>2. s.name = Sy.name /\ NoteUndefined(s) /\ Sy.name \notin DOMAIN symbol_map
        BY <1>1, <1>2, <2>1 DEF ReferenceNew, Symbol
    <2>3. n = Sy.name
        BY <2>2 DEF NoteUndefined
    <2> QED
        BY <2>2, <2>3, KnownSymbols DEF Named, DefinedNow
<1>3. CASE ReferenceKnown
    <2>1. PICK s : s = symbols[symbol_map[Sy.name]]
        OBVIOUS
    <2>2. NoteUndefined(s) /\ Sy.name \in DOMAIN symbol_map
        BY <1>3, <2>1 DEF ReferenceKnown
    <2>3. n = s.name /\ s.type = "UND"
        BY <2>2 DEF NoteUndefined
    <2>4. s.name = Sy.name
        BY <2>1, <2>2 DEF TableInv, Table
    <2> QED
        BY <2>1, <2>2, <2>3, <2>4, KnownSymbols
<1>4. CASE ~ReferenceNew /\ ~ReferenceKnown
    BY <1>4 DEF OneSymbol, DefineUnmapped, DefineLocal, DefineNew, DefineReferenced,
                DefineAgain, SymbolsDone, Abort
<1> QED
    BY <1>2, <1>3, <1>4

LEMMA NextOnce ==
    ASSUME TypeInv, TableInv, NowReading, HistoryInv, OnceInv, [Next]_vars
    PROVE  OnceInv'
<1> SUFFICES ASSUME TruthfulLibraries'
             PROVE  /\ InLibrary' => (Lib.kind = "library" /\ AskedFresh)'
                    /\ LibraryModuleOnce'
    BY DEF OnceInv
<1>0. UNCHANGED cmd
    <2>1. CASE OneSection \/ OneRecord
        BY <2>1 DEF OneSection, SectionPredefined, SectionNew, SectionKnown, SectionsDone,
                    OneRecord, RecordData, RecordSection, RecordOrg, RecordSkipped,
                    RecordExpression, RecordsDone, NextRecord, NextItem, Abort, input
    <2>2. CASE OneSymbol
        BY <2>2, SymbolCases DEF SymbolsDone, NextItem, Abort, input
    <2>3. CASE OneFile \/ OneLibrary
        BY <2>3 DEF OneFile, FileRefused, FileIsLibrary, FileOpened, FileModule, FileDone,
                    FilesDone, OneLibrary, LibraryMissing, LibraryNowhere, LibraryOpened,
                    LibraryModule, LibraryRound, LibrariesDone, input
    <2>4. CASE Finish
        BY <2>4 DEF Finish, CheckUndefined, generate_end, simplify, Abort, input
    <2> QED
        BY <2>1, <2>2, <2>3, <2>4 DEF Next, Ended, vars
<1>1. TruthfulLibraries /\ LibraryModuleOnce /\ (InLibrary => Lib.kind = "library" /\ AskedFresh)
    BY <1>0 DEF TruthfulLibraries, OnceInv
<1>2. ASSUME UNCHANGED loaded PROVE LibraryModuleOnce'
    BY <1>0, <1>1, <1>2 DEF LibraryModuleOnce
<1>3. CASE OneSection \/ OneSymbol \/ OneRecord
    <2>1. UNCHANGED loaded
        <3>1. CASE OneSection \/ OneRecord
            BY <3>1 DEF OneSection, SectionPredefined, SectionNew, SectionKnown,
                        SectionsDone, OneRecord, RecordData, RecordSection, RecordOrg,
                        RecordSkipped, RecordExpression, RecordsDone, NextRecord, NextItem,
                        Abort, frame
        <3>2. CASE OneSymbol
            BY <3>2, SymbolCases DEF SymbolsDone, NextItem, Abort, frame
        <3> QED
            BY <1>3, <3>1, <3>2
    <2>2. ASSUME InLibrary' PROVE (Lib.kind = "library" /\ AskedFresh)'
        <3>1. InLibrary /\ UNCHANGED << cmd, l, L, modules, loaded >>
            BY <1>3, <2>2, ModuleInLibrary
        <3>2. Lib' = Lib /\ Pending' = Pending /\ \A m : Unread(m)' <=> Unread(m)
            BY <3>1 DEF Lib, Pending, Unread
        <3>3. AskedFresh /\ Lib.kind = "library"
            BY <1>1, <3>1
        <3>4. ReadingModule
            BY <1>3, PhaseOf DEF ReadingModule
        <3>5. PICK p \in DOMAIN modules : loaded[Len(loaded)] = Lib.mods[p]
            BY <3>3, <3>4 DEF AskedFresh, ReadHere
        <3>6. ASSUME NEW n \in local_undefined', n \in DOMAIN Lib.dict,
                     Lib.dict[n] \notin DOMAIN modules
              PROVE  Unread(Lib.dict[n])
            <4>1. CASE n \in local_undefined
                BY <3>3, <3>6, <4>1 DEF AskedFresh
            <4>2. CASE n \notin local_undefined
                <5> SUFFICES ASSUME Lib.mods[Lib.dict[n]].intact, NEW b \in DOMAIN loaded,
                                    loaded[b] = Lib.mods[Lib.dict[n]]
                             PROVE  FALSE
                    BY DEF Unread
                <5>1. OneSymbol
                    <6>1. OneSection \/ OneRecord => UNCHANGED local_undefined
                        BY DEF OneSection, SectionPredefined, SectionNew, SectionKnown,
                               SectionsDone, OneRecord, RecordData, RecordSection, RecordOrg,
                               RecordSkipped, RecordExpression, RecordsDone, NextRecord, Abort
                    <6> QED
                        BY <1>3, <3>6, <4>2, <6>1
                <5>2. ~DefinedNow(n)
                    BY <3>6, <4>2, <5>1, NotesUndefined
                <5>3. pc = "symbols" /\ Truthful(Lib)
                    <6>1. l \in DOMAIN cmd.libs /\ L \in DOMAIN cmd.libs[l]
                        BY <3>1, <3>4 DEF TypeInv, InputOpen, InLibrary, ReadingModule
                    <6> QED
                        BY <1>1, <3>3, <5>1, <6>1, PhaseOf DEF TruthfulLibraries, Lib
                <5>4. b # Len(loaded)
                    <6>1. /\ DOMAIN modules \subseteq DOMAIN Lib.mods
                          /\ l \in DOMAIN cmd.libs /\ L \in DOMAIN cmd.libs[l]
                        BY <3>1, <3>4 DEF TypeInv, InputOpen, InLibrary, ReadingModule
                    <6>2. Lib.dict[n] \in DOMAIN Lib.mods
                        BY <3>6, <6>1, LibraryParts DEF intersection
                    <6> QED
                        BY <3>5, <3>6, <5>3, <6>1, <6>2 DEF Truthful
                <5>5. \A k \in DOMAIN loaded[b].syms : Seen(b, k)
                    BY <5>4 DEF Seen
                <5>6. Defines(loaded[b], n)
                    BY <3>6, <5>3 DEF Truthful
                <5>7. History
                    BY <5>3 DEF HistoryInv
                <5> QED
                    BY <5>2, <5>5, <5>6, <5>7, ReadDefines
            <4> QED
                BY <4>1, <4>2
        <3>7. ReadHere'
            BY <3>1, <3>2, <3>5 DEF ReadHere
        <3>8. (\A n \in local_undefined \cap DOMAIN Lib.dict :
                   Lib.dict[n] \notin DOMAIN modules => Unread(Lib.dict[n]))'
            BY <3>1, <3>2, <3>6 DEF Lib
        <3>9. (\A m \in Pending : Unread(m))'
            BY <3>2, <3>3 DEF AskedFresh
        <3> QED
            BY <3>2, <3>3, <3>7, <3>8, <3>9 DEF AskedFresh
    <2> QED
        BY <1>2, <2>1, <2>2
<1>4. CASE OneFile
    <2>1. ~InLibrary'
        BY <1>4, PhaseOf DEF OneFile, FileRefused, FileIsLibrary, FileOpened, FileModule,
                 FileDone, FilesDone, Enter, InLibrary, ReadingModule, TypeInv, InputOpen
    <2>2. CASE FileModule
        <3>1. PICK f, k : f = file /\ k = modno
            OBVIOUS
        <3>2. /\ f \in DOMAIN cmd.objs /\ k \in DOMAIN cmd.objs[f].mods
              /\ loaded' = Append(loaded, cmd.objs[f].mods[k])
            BY <2>2, <3>1 DEF FileModule, HasModule, Enter, Files, TypeInv, InputOpen
        <3>3. loaded \in Seq(Module)
            BY DEF TypeInv, TypeOK
        <3>4. /\ \A b \in DOMAIN loaded' : \/ b \in DOMAIN loaded /\ loaded'[b] = loaded[b]
                                           \/ loaded'[b] = cmd.objs[f].mods[k]
                                              /\ b = Len(loaded) + 1
            BY <3>2, <3>3
        <3> QED
            BY <1>0, <1>1, <2>1, <3>2, <3>4 DEF LibraryModuleOnce
    <2>3. CASE ~FileModule
        <3>1. UNCHANGED loaded
            BY <1>4, <2>3 DEF OneFile, FileRefused, FileIsLibrary, FileOpened, FileDone,
                              FilesDone, frame
        <3> QED
            BY <1>2, <2>1, <3>1
    <2> QED
        BY <2>2, <2>3
<1>5. CASE LibraryOpened
    <2>1. /\ UNCHANGED << cmd, undefined_symbols, loaded >> /\ pc = "library"
          /\ Lib.kind = "library"
        BY <1>5 DEF LibraryOpened, globals, frame, AtLibrary
    <2>2. ASSUME InLibrary' PROVE (Lib.kind = "library" /\ AskedFresh)'
        <3>1. /\ UNCHANGED << l, L >> /\ local_undefined' = {} /\ pc' = "round"
              /\ modules' = [m \in intersection(Lib.dict, undefined_symbols) |-> "pending"]
              /\ l \in DOMAIN cmd.libs /\ L \in DOMAIN cmd.libs[l]
            BY <1>5, <2>2 DEF LibraryOpened, NextLibrary, InLibrary, ReadingModule, AtLibrary
        <3>2. Lib' = Lib /\ \A m : Unread(m)' <=> Unread(m)
            BY <2>1, <3>1 DEF Lib, Unread
        <3>3. Truthful(Lib)
            BY <1>1, <2>1, <3>1 DEF TruthfulLibraries, Lib
        <3>4. ASSUME NEW m \in intersection(Lib.dict, undefined_symbols) PROVE Unread(m)
            <4>1. PICK n \in undefined_symbols \cap DOMAIN Lib.dict : m = Lib.dict[n]
                BY <3>4 DEF intersection
            <4> SUFFICES ASSUME Lib.mods[m].intact, NEW b \in DOMAIN loaded,
                                loaded[b] = Lib.mods[m]
                         PROVE  FALSE
                BY DEF Unread
            <4>2. Defines(loaded[b], n)
                BY <3>3, <4>1 DEF Truthful
            <4>3. \A k \in DOMAIN loaded[b].syms : Seen(b, k)
                BY <2>1 DEF Seen
            <4>4. DefinedNow(n)
                BY <2>1, <4>2, <4>3, ReadDefines DEF HistoryInv
            <4> QED
                BY <4>1, <4>4, KnownSymbols
        <3>5. Pending' \subseteq intersection(Lib.dict, undefined_symbols) /\ ~ReadingModule'
            BY <3>1 DEF Pending, ReadingModule
        <3> QED
            BY <2>1, <3>1, <3>2, <3>4, <3>5 DEF AskedFresh, ReadHere
    <2> QED
        BY <1>2, <2>1, <2>2
<1>6. CASE LibraryModule
    <2>1. PICK m \in Pending :
              /\ modules' = [modules EXCEPT ![m] = "processed"]
              /\ \/ Lib.mods[m].intact /\ Enter(Lib.mods[m])
                 \/ ~Lib.mods[m].intact /\ UNCHANGED << frame, pc, i >>
              /\ pc = "round" /\ UNCHANGED << cmd, l, L, globals, local_undefined >>
        BY <1>6 DEF LibraryModule
    <2>2. Lib' = Lib /\ DOMAIN modules' = DOMAIN modules /\ m \in DOMAIN modules
        BY <2>1 DEF Lib, Pending
    <2>3. /\ InLibrary /\ DOMAIN modules \subseteq DOMAIN Lib.mods
          /\ l \in DOMAIN cmd.libs /\ L \in DOMAIN cmd.libs[l]
        BY <2>1 DEF TypeInv, InputOpen, InLibrary
    <2>4. AskedFresh /\ Lib.kind = "library"
        BY <1>1, <2>3
    <2>5. Truthful(Lib)
        BY <1>1, <2>3, <2>4 DEF TruthfulLibraries, Lib
    <2>6. Pending' = Pending \ {m}
        BY <2>1, <2>2 DEF Pending
    <2>7. CASE ~Lib.mods[m].intact
        <3>1. UNCHANGED loaded /\ ~ReadingModule'
            BY <2>1, <2>7 DEF frame, ReadingModule
        <3>2. \A k : Unread(k)' <=> Unread(k)
            BY <2>2, <3>1 DEF Unread
        <3> QED
            BY <1>2, <2>1, <2>2, <2>4, <2>6, <3>1, <3>2 DEF AskedFresh, ReadHere
    <2>8. CASE Lib.mods[m].intact
        <3>1. loaded' = Append(loaded, Lib.mods[m]) /\ loaded \in Seq(Module)
            BY <2>1, <2>8 DEF Enter, TypeInv, TypeOK
        <3>2. /\ \A b \in DOMAIN loaded' : \/ b \in DOMAIN loaded /\ loaded'[b] = loaded[b]
                                           \/ loaded'[b] = Lib.mods[m] /\ b = Len(loaded) + 1
              /\ Len(loaded') \in DOMAIN loaded' /\ loaded'[Len(loaded')] = Lib.mods[m]
            BY <3>1
        <3>3. Unread(m)
            BY <2>4 DEF AskedFresh
        <3>4. LibraryModuleOnce'
            BY <1>0, <1>1, <2>8, <3>2, <3>3 DEF LibraryModuleOnce, Unread
        <3>5. ASSUME NEW k \in DOMAIN Lib.mods, Unread(k), k # m PROVE Unread(k)'
            <4>1. Lib.mods[m] # Lib.mods[k]
                BY <2>2, <2>3, <2>5, <3>5 DEF Truthful
            <4> QED
                BY <2>2, <3>2, <3>5, <4>1 DEF Unread
        <3>6. ReadHere'
            BY <2>2, <3>2 DEF ReadHere
        <3>7. \A k \in Pending' : Unread(k)'
            <4>1. Pending \subseteq DOMAIN Lib.mods
                BY <2>3 DEF Pending
            <4> QED
                BY <2>4, <2>6, <3>5, <4>1 DEF AskedFresh
        <3>8. ASSUME NEW n \in local_undefined, n \in DOMAIN Lib.dict,
                     Lib.dict[n] \notin DOMAIN modules
              PROVE  Unread(Lib.dict[n])'
            <4>1. PICK k : k = Lib.dict[n]
                OBVIOUS
            <4>2. k \in DOMAIN Lib.mods
                BY <2>3, <3>8, <4>1, LibraryParts DEF intersection
            <4>3. Unread(k) /\ k # m
                BY <2>2, <2>4, <3>8, <4>1 DEF AskedFresh
            <4>4. Unread(k)'
                BY <3>5, <4>2, <4>3
            <4> QED
                BY <2>2, <4>1, <4>4
        <3> QED
            BY <2>1, <2>2, <2>4, <3>4, <3>6, <3>7, <3>8 DEF AskedFresh
    <2> QED
        BY <2>7, <2>8
<1>7. CASE LibraryRound
    <2> DEFINE more == intersection(Lib.dict, local_undefined) \ DOMAIN modules
    <2>1. /\ pc = "round" /\ Pending = {} /\ UNCHANGED << cmd, loaded >>
        BY <1>7 DEF LibraryRound, frame
    <2>2. ASSUME InLibrary' PROVE (Lib.kind = "library" /\ AskedFresh)'
        <3>1. /\ UNCHANGED << l, L, pc >> /\ local_undefined' = {}
              /\ modules' = [m \in DOMAIN modules \cup more |->
                                IF m \in more THEN "pending" ELSE modules[m]]
            BY <1>7, <2>2 DEF LibraryRound, NextLibrary, InLibrary, ReadingModule
        <3>2. Lib' = Lib /\ \A m : Unread(m)' <=> Unread(m)
            BY <2>1, <3>1 DEF Lib, Unread
        <3>3. AskedFresh /\ Lib.kind = "library"
            BY <1>1, <2>1 DEF InLibrary, TypeInv, InputOpen
        <3>4. ASSUME NEW m \in more PROVE Unread(m)
            BY <3>3, <3>4 DEF AskedFresh, intersection
        <3>5. Pending' \subseteq more /\ ~ReadingModule'
            BY <2>1, <3>1 DEF Pending, ReadingModule
        <3> QED
            BY <3>1, <3>2, <3>3, <3>4, <3>5 DEF AskedFresh, ReadHere
    <2> QED
        BY <1>2, <2>1, <2>2
<1>8. CASE LibraryMissing \/ LibraryNowhere \/ LibrariesDone
    <2>1. UNCHANGED loaded /\ ~InLibrary'
        BY <1>8 DEF LibraryMissing, LibraryNowhere, LibrariesDone, AtLibrary, NextLibrary,
                    InLibrary, ReadingModule, frame
    <2> QED
        BY <1>2, <2>1
<1>9. CASE Finish
    <2>1. UNCHANGED loaded /\ ~InLibrary'
        BY <1>9 DEF Finish, CheckUndefined, generate_end, simplify, Abort, InLibrary,
                    ReadingModule, frame
    <2> QED
        BY <1>2, <2>1
<1>10. CASE Ended \/ UNCHANGED vars
    <2>1. UNCHANGED << loaded, cmd, l, L, pc, modules, local_undefined >>
        BY <1>10 DEF Ended, vars
    <2> QED
        BY <1>1, <1>2, <2>1 DEF InLibrary, ReadingModule, AskedFresh, Unread, Pending, ReadHere, Lib
<1> QED
    BY <1>3, <1>4, <1>5, <1>6, <1>7, <1>8, <1>9, <1>10 DEF Next, OneLibrary

(* No module of a library is read twice, be it wanted for several names,   *)
(* in several rounds or from a library that is named again: one_lib() asks *)
(* for what is missing, and what was read is not.                          *)
THEOREM ModulesReadOnce == Spec => [](TruthfulLibraries => LibraryModuleOnce)
<1>1. Init => OnceInv
    BY DEF Init, OnceInv, InLibrary, LibraryModuleOnce
<1>2. OnceInv => (TruthfulLibraries => LibraryModuleOnce)
    BY DEF OnceInv
<1> QED
    BY <1>1, <1>2, NextOnce, InputStaysOpen, TableAlways, ReadingNow, HistoryAlways, PTL DEF Spec
=============================================================================
