-------------------------- MODULE ResolutionProofs --------------------------
(***************************************************************************)
(* Proofs that the linker resolves every symbol before it folds the        *)
(* expressions. The inductive invariant says, of the symbol table and the  *)
(* list of undefined symbols together, that they never disagree:           *)
(* an undefined symbol is on the list or is the end of a section. When     *)
(* generate_end() is reached the list is empty, so the undefined symbols   *)
(* are those it defines.                                                   *)
(***************************************************************************)
EXTENDS LinkerProofs

(* The invariant, of any table: symbols S, map M, list U, end symbols E.   *)
Table(S, M, U, E) ==
    /\ S \in Seq(Symbol) /\ M \in [DOMAIN M -> DOMAIN S]
    /\ \A k \in DOMAIN S : S[k].name \in DOMAIN M /\ M[S[k].name] = k
    /\ \A n \in DOMAIN M : S[M[n]].name = n
    /\ \A k \in DOMAIN S : S[k].type = "UND" => S[k].section = k
    /\ \A n \in U : n \in DOMAIN M /\ S[M[n]].type = "UND"
    /\ \A k \in DOMAIN S : S[k].type = "UND" => S[k].name \in U \/ k \in E

Ends == {sections[v].end_symbol : v \in DOMAIN sections}

TableInv ==
    /\ Table(symbols, symbol_map, undefined_symbols, Ends)
    /\ pc = "generate_end" => undefined_symbols = {}
    /\ NothingUndefined

-----------------------------------------------------------------------------
(* What the linker does to a table keeps the invariant. *)

LEMMA AppendDefined ==
    ASSUME NEW S, NEW M, NEW U, NEW E, Table(S, M, U, E),
           NEW s \in Symbol, s.name \notin DOMAIN M, s.type # "UND"
    PROVE  Table(Append(S, s), Bind(M, s.name, Len(S) + 1), U, E)
<1> DEFINE T == Append(S, s)
           N == Bind(M, s.name, Len(S) + 1)
<1>1. /\ T \in Seq(Symbol) /\ DOMAIN T = DOMAIN S \cup {Len(S) + 1}
      /\ T[Len(S) + 1] = s /\ Len(S) + 1 \notin DOMAIN S
      /\ \A k \in DOMAIN S : T[k] = S[k]
    BY DEF Table
<1>2. /\ DOMAIN N = DOMAIN M \cup {s.name} /\ N[s.name] = Len(S) + 1
      /\ \A n \in DOMAIN M : N[n] = M[n]
      /\ N = [n \in DOMAIN N |-> N[n]]
    BY DEF Bind
<1> HIDE DEF T, N
<1>3. DOMAIN M \subseteq DOMAIN N /\ (\A n \in DOMAIN M : M[n] \in DOMAIN S)
    BY <1>2 DEF Table
<1>4. N \in [DOMAIN N -> DOMAIN T]
    BY <1>1, <1>2, <1>3
<1>5. \A k \in DOMAIN T : T[k].name \in DOMAIN N /\ N[T[k].name] = k
    BY <1>1, <1>2 DEF Table
<1>6. \A n \in DOMAIN N : T[N[n]].name = n
    BY <1>1, <1>2, <1>3 DEF Table
<1>7. \A k \in DOMAIN T : T[k].type = "UND" => T[k].section = k
    BY <1>1 DEF Table
<1>8. \A n \in U : n \in DOMAIN N /\ T[N[n]].type = "UND"
    BY <1>1, <1>2, <1>3 DEF Table
<1>9. \A k \in DOMAIN T : T[k].type = "UND" => T[k].name \in U \/ k \in E
    BY <1>1 DEF Table
<1> QED
    BY <1>1, <1>4, <1>5, <1>6, <1>7, <1>8, <1>9 DEF Table, T, N

LEMMA AppendUndefined ==
    ASSUME NEW S, NEW M, NEW U, NEW E, NEW V, NEW F, Table(S, M, U, E),
           NEW s \in Symbol, s.name \notin DOMAIN M,
           s.type = "UND", s.section = Len(S) + 1,
           \/ V = U \cup {s.name} /\ F = E
           \/ V = U /\ F = E \cup {Len(S) + 1}
    PROVE  Table(Append(S, s), Bind(M, s.name, Len(S) + 1), V, F)
<1> DEFINE T == Append(S, s)
           N == Bind(M, s.name, Len(S) + 1)
<1>1. /\ T \in Seq(Symbol) /\ DOMAIN T = DOMAIN S \cup {Len(S) + 1}
      /\ T[Len(S) + 1] = s /\ Len(S) + 1 \notin DOMAIN S
      /\ \A k \in DOMAIN S : T[k] = S[k]
    BY DEF Table
<1>2. /\ DOMAIN N = DOMAIN M \cup {s.name} /\ N[s.name] = Len(S) + 1
      /\ \A n \in DOMAIN M : N[n] = M[n]
      /\ N = [n \in DOMAIN N |-> N[n]]
    BY DEF Bind
<1> HIDE DEF T, N
<1>3. DOMAIN M \subseteq DOMAIN N /\ (\A n \in DOMAIN M : M[n] \in DOMAIN S)
    BY <1>2 DEF Table
<1>4. N \in [DOMAIN N -> DOMAIN T]
    BY <1>1, <1>2, <1>3
<1>5. \A k \in DOMAIN T : T[k].name \in DOMAIN N /\ N[T[k].name] = k
    BY <1>1, <1>2 DEF Table
<1>6. \A n \in DOMAIN N : T[N[n]].name = n
    BY <1>1, <1>2, <1>3 DEF Table
<1>7. \A k \in DOMAIN T : T[k].type = "UND" => T[k].section = k
    BY <1>1 DEF Table
<1>8. \A n \in V : n \in DOMAIN N /\ T[N[n]].type = "UND"
    BY <1>1, <1>2, <1>3 DEF Table
<1>9. \A k \in DOMAIN T : T[k].type = "UND" => T[k].name \in V \/ k \in F
    BY <1>1 DEF Table
<1> QED
    BY <1>1, <1>4, <1>5, <1>6, <1>7, <1>8, <1>9 DEF Table, T, N

LEMMA ReplaceUndefined ==
    ASSUME NEW S, NEW M, NEW U, NEW E, Table(S, M, U, E),
           NEW s \in Symbol, s.name \in DOMAIN M, s.type # "UND"
    PROVE  Table([S EXCEPT ![M[s.name]] = s], M, U \ {s.name}, E)
<1> DEFINE k == M[s.name]
           T == [S EXCEPT ![k] = s]
<1>1. k \in DOMAIN S /\ S[k].name = s.name
    BY DEF Table
<1>2. /\ T \in Seq(Symbol) /\ DOMAIN T = DOMAIN S /\ T[k] = s
      /\ \A j \in DOMAIN S : j # k => T[j] = S[j]
    BY <1>1 DEF Table
<1>3. \A n \in DOMAIN M : n # s.name => M[n] # k
    BY <1>1 DEF Table
<1> HIDE DEF T, k
<1>4. M \in [DOMAIN M -> DOMAIN T] /\ (\A n \in DOMAIN M : M[n] \in DOMAIN S) /\ M[s.name] = k
    BY <1>2 DEF Table, k
<1>5. \A j \in DOMAIN T : T[j].name \in DOMAIN M /\ M[T[j].name] = j
    BY <1>1, <1>2, <1>4 DEF Table
<1>6. \A n \in DOMAIN M : T[M[n]].name = n
    BY <1>1, <1>2, <1>4 DEF Table
<1>7. \A j \in DOMAIN T : T[j].type = "UND" => T[j].section = j
    BY <1>2 DEF Table
<1>8. \A n \in U \ {s.name} : n \in DOMAIN M /\ T[M[n]].type = "UND"
    BY <1>2, <1>3, <1>4 DEF Table
<1>9. \A j \in DOMAIN T : T[j].type = "UND" => T[j].name \in U \ {s.name} \/ j \in E
    <2> SUFFICES ASSUME NEW j \in DOMAIN T, T[j].type = "UND", j \notin E
                 PROVE  T[j].name \in U \ {s.name}
        OBVIOUS
    <2>1. j # k /\ T[j] = S[j] /\ j \in DOMAIN S
        BY <1>2
    <2>2. S[j].name \in U
        BY <2>1 DEF Table
    <2>3. S[j].name # s.name
        BY <2>1, <1>4 DEF Table
    <2> QED
        BY <2>1, <2>2, <2>3
<1> QED
    BY <1>2, <1>4, <1>5, <1>6, <1>7, <1>8, <1>9 DEF Table, k, T

LEMMA MoreEnds ==
    ASSUME NEW S, NEW M, NEW U, NEW E, NEW F, Table(S, M, U, E), E \subseteq F
    PROVE  Table(S, M, U, F)
BY DEF Table

-----------------------------------------------------------------------------
LEMMA InitTable == Init => TableInv
<1> SUFFICES ASSUME Init PROVE TableInv
    OBVIOUS
<1> USE DEF Predefined, PAGE0, CODE, KDATA, DATA, UDATA
<1>1. TypeInv
    BY InitTypes
<1>2. /\ symbols = [j \in 1 .. 10 |-> PredefinedSymbol(j)] /\ DOMAIN symbols = 1 .. 10
      /\ DOMAIN symbol_map = {PredefinedSymbol(j).name : j \in 1 .. 10}
      /\ \A n \in DOMAIN symbol_map :
             symbol_map[n] = CHOOSE j \in 1 .. 10 : PredefinedSymbol(j).name = n
      /\ symbols \in Seq(Symbol) /\ symbol_map \in [DOMAIN symbol_map -> DOMAIN symbols]
    BY <1>1 DEF Init, TypeInv, TypeOK
<1>3. \A j, k \in 1 .. 10 : PredefinedSymbol(j).name = PredefinedSymbol(k).name => j = k
    <2> DEFINE half(j) == (j + 1) \div 2
    <2>1. \A j \in 1 .. 10 :
             /\ half(j) \in 1 .. 5
             /\ j % 2 = 1 => j = 2 * half(j) - 1
             /\ j % 2 = 1 => PredefinedSymbol(j).name = PredefinedBeg[half(j)]
             /\ j % 2 # 1 => j = 2 * half(j)
             /\ j % 2 # 1 => PredefinedSymbol(j).name = PredefinedEnd[half(j)]
        BY DEF PredefinedSymbol, SectionStart, UndefinedSymbol
    <2>2. \A v, w \in 1 .. 5 :
             /\ PredefinedBeg[v] # PredefinedEnd[w]
             /\ PredefinedBeg[v] = PredefinedBeg[w] => v = w
             /\ PredefinedEnd[v] = PredefinedEnd[w] => v = w
        BY DEF PredefinedBeg, PredefinedEnd
    <2> HIDE DEF half
    <2> QED
        BY <2>1, <2>2
<1>4. \A k \in 1 .. 10 : /\ symbols[k].name \in DOMAIN symbol_map
                         /\ symbol_map[symbols[k].name] = k
    BY <1>2, <1>3
<1>5. \A n \in DOMAIN symbol_map : symbols[symbol_map[n]].name = n
    BY <1>2, <1>4
<1>6. ASSUME NEW k \in 1 .. 10, symbols[k].type = "UND"
      PROVE  symbols[k].section = k /\ k \in Ends
    <2> DEFINE v == (k + 1) \div 2
    <2>0. PredefinedSymbol(k).type = "UND"
        BY <1>2, <1>6
    <2>1. k % 2 = 0
        BY <2>0 DEF PredefinedSymbol, SectionStart
    <2>2. k = 2 * v /\ v \in Predefined
        BY <1>6, <2>1
    <2>3. symbols[k].section = k
        <3>1. symbols[k] = PredefinedSymbol(k)
            BY <1>2
        <3>2. PredefinedSymbol(k) = UndefinedSymbol(PredefinedEnd[v], k)
            BY <2>1 DEF PredefinedSymbol
        <3> QED
            BY <3>1, <3>2 DEF UndefinedSymbol
    <2>4. v \in DOMAIN sections /\ sections[v].end_symbol = k
        <3>1. sections = [j \in Predefined |-> PredefinedSection(j)]
            BY DEF Init
        <3>2. PredefinedSection(v).end_symbol = 2 * v
            BY DEF PredefinedSection
        <3> QED
            BY <2>2, <3>1, <3>2
    <2> QED
        BY <2>3, <2>4 DEF Ends
<1>7. Table(symbols, symbol_map, undefined_symbols, Ends)
    BY <1>2, <1>4, <1>5, <1>6 DEF Table, Init
<1> QED
    BY <1>7 DEF TableInv, Init, NothingUndefined

(* A step that leaves the table and the list alone, whatever it does to    *)
(* the contents of the sections.                                           *)
LEMMA TableKept ==
    ASSUME TableInv, UNCHANGED << symbols, symbol_map, undefined_symbols >>,
           \A v \in DOMAIN sections :
               v \in DOMAIN sections' /\ sections'[v].end_symbol = sections[v].end_symbol,
           pc' = "generate_end" => undefined_symbols = {},
           pc' \in {"simplify", "linked"} => pc \in {"simplify", "linked"}
    PROVE  TableInv'
<1>1. Ends \subseteq Ends'
    BY DEF Ends
<1>2. Table(symbols, symbol_map, undefined_symbols, Ends)'
    BY <1>1, MoreEnds DEF TableInv
<1> QED
    BY <1>2 DEF TableInv, NothingUndefined

LEMMA GlobalsKept ==
    ASSUME TableInv, UNCHANGED globals,
           pc' = "generate_end" => undefined_symbols = {},
           pc' \in {"simplify", "linked"} => pc \in {"simplify", "linked"}
    PROVE  TableInv'
BY TableKept DEF globals

LEMMA AbortTable == TableInv /\ Abort => TableInv'
BY GlobalsKept DEF Abort

LEMMA SectionTable == TypeInv /\ TableInv /\ OneSection => TableInv'
<1> SUFFICES ASSUME TypeInv, TableInv, OneSection PROVE TableInv'
    OBVIOUS
<1>0. pc = "sections" /\ Tables
    <2>1. pc = "sections" /\ pc \notin Final
        BY DEF OneSection, SectionPredefined, SectionNew, SectionKnown, SectionsDone,
               AtSection, Final
    <2> QED
        BY <2>1, TablesTyped
<1>1. CASE SectionPredefined
    <2>1. UNCHANGED << symbols, symbol_map, undefined_symbols, pc >>
        BY <1>1 DEF SectionPredefined, NextItem
    <2>2. \A v \in DOMAIN sections :
              v \in DOMAIN sections' /\ sections'[v].end_symbol = sections[v].end_symbol
        <3> DEFINE k == Sec.number
        <3>1. k \in DOMAIN sections /\ sections \in Seq(Section)
            BY <1>0, <1>1 DEF SectionPredefined, Tables, TypeInv, TypeOK
        <3>2. sections' = [sections EXCEPT ![k].size = @ + Sec.size]
            BY <1>1 DEF SectionPredefined
        <3> HIDE DEF k
        <3> QED
            BY <3>1, <3>2 DEF Section
    <2> QED
        BY <1>0, <2>1, <2>2, TableKept
<1>2. CASE SectionNew
    <2> DEFINE v      == Len(sections) + 1
               beg    == BegName[Sec.name]
               end    == EndName[Sec.name]
               newBeg == ~Unnamed(Sec) /\ beg \notin DOMAIN symbol_map
               begSym == SectionStart(beg, v)
               begs   == IF newBeg THEN Append(symbols, begSym) ELSE symbols
               begMap == IF newBeg THEN Bind(symbol_map, beg, Len(begs))
                                   ELSE symbol_map
               newEnd == ~Unnamed(Sec) /\ end \notin DOMAIN begMap
               k      == Len(begs) + 1
               endSym == UndefinedSymbol(end, k)
               new    == [name |-> Sec.name, flags |-> Sec.flags, size |-> Sec.size,
                          data |-> << >>, expressions |-> << >>,
                          end_symbol |-> IF newEnd THEN k ELSE 0]
    <2>1. /\ symbols' = IF newEnd THEN Append(begs, endSym) ELSE begs
          /\ symbol_map' = IF newEnd THEN Bind(begMap, end, k) ELSE begMap
          /\ sections' = Append(sections, new)
          /\ UNCHANGED << undefined_symbols, pc >>
        BY <1>2 DEF SectionNew, NextItem
    <2>2. Sec.name \in SectionNames /\ beg \in Names /\ end \in Names
        BY <1>2, ItemTypes, NamesAssumption DEF SectionNew, TypeInv, LocalSection
    <2>3. sections \in Seq(Section) /\ symbols \in Seq(Symbol)
        BY <1>0 DEF Tables
    <2>4. begSym \in Symbol /\ begSym.name = beg /\ begSym.type # "UND"
        BY <2>2, <2>3 DEF SectionStart, Symbol, Global
    <2>5. Table(begs, begMap, undefined_symbols, Ends)
        <3>1. CASE newBeg
            <4>1. Len(begs) = Len(symbols) + 1
                BY <2>3, <3>1
            <4> HIDE DEF begSym
            <4> QED
                BY <2>4, <3>1, <4>1, AppendDefined DEF TableInv
        <3> QED
            BY <3>1 DEF TableInv
    <2>6. begs \in Seq(Symbol) /\ k \in Nat
        BY <2>5 DEF Table
    <2>7. /\ endSym \in Symbol /\ endSym.name = end /\ endSym.type = "UND"
          /\ endSym.section = k
        BY <2>2, <2>6 DEF UndefinedSymbol, Symbol
    <2>8. Ends' = Ends \cup {IF newEnd THEN k ELSE 0}
        <3> HIDE DEF newEnd, k
        <3>1. /\ DOMAIN sections' = DOMAIN sections \cup {v}
              /\ v \notin DOMAIN sections /\ sections'[v] = new
              /\ \A w \in DOMAIN sections : sections'[w] = sections[w]
            BY <2>1, <2>3
        <3>2. new.end_symbol = IF newEnd THEN k ELSE 0
            OBVIOUS
        <3> HIDE DEF new
        <3> QED
            BY <3>1, <3>2 DEF Ends
    <2> HIDE DEF beg, end, begs, begMap, endSym, new, begSym
    <2>9. Table(symbols', symbol_map', undefined_symbols, Ends')
        <3>1. CASE newEnd
            BY <2>1, <2>5, <2>6, <2>7, <2>8, <3>1, AppendUndefined
        <3>2. CASE ~newEnd
            <4>1. Table(symbols', symbol_map', undefined_symbols, Ends)
                BY <2>1, <2>5, <3>2
            <4>2. Ends \subseteq Ends'
                BY <2>8
            <4> QED
                BY <4>1, <4>2, MoreEnds
        <3> QED
            BY <3>1, <3>2
    <2> QED
        BY <1>0, <2>1, <2>9 DEF TableInv, NothingUndefined
<1>3. CASE SectionKnown
    <2>1. CASE Abort
        BY <2>1, AbortTable
    <2>2. CASE ~Abort
        <3>1. UNCHANGED << symbols, symbol_map, undefined_symbols, pc >>
            BY <1>3, <2>2 DEF SectionKnown, NextItem
        <3>2. \A v \in DOMAIN sections :
                  v \in DOMAIN sections' /\ sections'[v].end_symbol = sections[v].end_symbol
            <4> DEFINE k == section_map[Sec.name]
            <4>1. k \in DOMAIN sections /\ sections \in Seq(Section)
                BY <1>0, <1>3 DEF SectionKnown, Tables
            <4>2. sections' = [sections EXCEPT ![k].size = @ + Sec.size]
                BY <1>3, <2>2 DEF SectionKnown
            <4> HIDE DEF k
            <4> QED
                BY <4>1, <4>2 DEF Section
        <3> QED
            BY <1>0, <3>1, <3>2, TableKept
    <2> QED
        BY <2>1, <2>2
<1>4. CASE SectionsDone
    BY <1>4, GlobalsKept DEF SectionsDone
<1> QED
    BY <1>1, <1>2, <1>3, <1>4 DEF OneSection

LEMMA DefinitionKept ==
    ASSUME TypeInv, AtDefinition, Relocatable
    PROVE  /\ Relocated(Sy) \in Symbol /\ Relocated(Sy).name = Sy.name
           /\ Relocated(Sy).type = Sy.type /\ Sy.type # "UND"
<1>1. Sy \in Symbol /\ Relocated(Sy) \in Symbol /\ Sy.type # "UND"
    BY ItemTypes, RelocatedType DEF AtDefinition, TypeInv
<1> DEFINE v == remap_section[Sy.section]
           b == Sy.offset + Base(v)
<1>2. Relocated(Sy) = [Sy EXCEPT !.section = v, !.offset = b]
      \/ Relocated(Sy) = [Sy EXCEPT !.section = 0]
    BY DEF Relocated
<1> HIDE DEF v, b
<1> QED
    BY <1>1, <1>2 DEF Symbol

LEMMA SymbolTable == TypeInv /\ TableInv /\ OneSymbol => TableInv'
<1> SUFFICES ASSUME TypeInv, TableInv, OneSymbol PROVE TableInv'
    OBVIOUS
<1>0. pc = "symbols" /\ Tables /\ (AtSymbol => Sy \in Symbol)
    <2>1. pc = "symbols" /\ pc \notin Final
        BY DEF OneSymbol, ReferenceNew, ReferenceKnown, DefineUnmapped, DefineLocal,
               DefineNew, DefineReferenced, DefineAgain, SymbolsDone, AtDefinition,
               AtSymbol, Final
    <2> QED
        BY <2>1, TablesTyped, ItemTypes DEF TypeInv
<1>1. ASSUME AtSymbol, UNCHANGED << sections, pc >>,
             Table(symbols', symbol_map', undefined_symbols', Ends)
      PROVE  TableInv'
    BY <1>0, <1>1 DEF TableInv, Ends, NothingUndefined
<1>2. ASSUME AtDefinition, Relocatable
      PROVE  /\ Relocated(Sy) \in Symbol /\ Relocated(Sy).name = Sy.name
             /\ Relocated(Sy).type # "UND"
    BY <1>0, <1>2, DefinitionKept
<1>3. CASE ReferenceNew
    <2> DEFINE s == [Sy EXCEPT !.section = Len(symbols) + 1]
    <2>1. /\ symbols' = Append(symbols, s)
          /\ symbol_map' = Bind(symbol_map, s.name, s.section)
          /\ undefined_symbols' = undefined_symbols \cup {s.name}
          /\ AtSymbol /\ UNCHANGED << sections, pc >>
          /\ Sy.type = "UND" /\ Sy.name \notin DOMAIN symbol_map
        BY <1>3 DEF ReferenceNew, NextSymbol, NextItem
    <2>2. Sy \in Symbol /\ symbols \in Seq(Symbol)
        BY <1>0, <2>1 DEF Tables
    <2>3. /\ s \in Symbol /\ s.name \notin DOMAIN symbol_map /\ s.type = "UND"
          /\ s.section = Len(symbols) + 1
        <3> DEFINE n == Len(symbols) + 1
        <3>1. n \in Nat /\ s = [Sy EXCEPT !.section = n]
            BY <2>2
        <3> HIDE DEF n, s
        <3>2. s \in Symbol /\ s.name = Sy.name /\ s.type = Sy.type /\ s.section = n
            BY <2>2, <3>1 DEF Symbol
        <3> QED
            BY <2>1, <3>2 DEF n
    <2> HIDE DEF s
    <2>4. Table(symbols', symbol_map', undefined_symbols', Ends)
        BY <2>1, <2>3, AppendUndefined DEF TableInv
    <2> QED
        BY <1>1, <2>1, <2>4
<1>4. CASE ReferenceKnown \/ DefineLocal \/ DefineAgain
    <2>1. UNCHANGED globals /\ UNCHANGED pc
        BY <1>4 DEF ReferenceKnown, DefineLocal, DefineAgain, NextSymbol, NextItem, globals
    <2> QED
        BY <1>0, <2>1, GlobalsKept
<1>5. CASE DefineUnmapped
    BY <1>5, AbortTable DEF DefineUnmapped
<1>6. CASE DefineNew
    <2>1. /\ symbols' = Append(symbols, Relocated(Sy))
          /\ symbol_map' = Bind(symbol_map, Sy.name, Len(symbols) + 1)
          /\ AtDefinition /\ Relocatable /\ Sy.name \notin DOMAIN symbol_map
          /\ AtSymbol /\ UNCHANGED << sections, pc, undefined_symbols >>
        BY <1>6 DEF DefineNew, NextSymbol, NextItem, AtDefinition
    <2>2. Table(symbols', symbol_map', undefined_symbols', Ends)
        BY <1>2, <2>1, AppendDefined DEF TableInv
    <2> QED
        BY <1>1, <2>1, <2>2
<1>7. CASE DefineReferenced
    <2>1. /\ symbols' = [symbols EXCEPT ![symbol_map[Sy.name]] = Relocated(Sy)]
          /\ undefined_symbols' = undefined_symbols \ {Sy.name}
          /\ AtDefinition /\ Relocatable /\ Sy.name \in DOMAIN symbol_map
          /\ AtSymbol /\ UNCHANGED << sections, pc, symbol_map >>
        BY <1>7 DEF DefineReferenced, NextSymbol, NextItem, AtDefinition
    <2>2. Table(symbols', symbol_map', undefined_symbols', Ends)
        BY <1>2, <2>1, ReplaceUndefined DEF TableInv
    <2> QED
        BY <1>1, <2>1, <2>2
<1>8. CASE SymbolsDone
    BY <1>8, GlobalsKept DEF SymbolsDone
<1> QED
    BY <1>3, <1>4, <1>5, <1>6, <1>7, <1>8 DEF OneSymbol

LEMMA RecordTable == TypeInv /\ TableInv /\ OneRecord => TableInv'
<1> SUFFICES ASSUME TypeInv, TableInv, OneRecord PROVE TableInv'
    OBVIOUS
<1>0. pc = "records" /\ sections \in Seq(Section) /\ current_section \in DOMAIN sections
    <2>1. pc = "records" /\ pc \notin Final
        BY DEF OneRecord, RecordData, RecordSection, RecordOrg, RecordSkipped,
               RecordExpression, RecordsDone, AtRecord, Final
    <2> QED
        BY <2>1, TablesTyped DEF Tables, TypeInv, TypeOK, current_section
<1> DEFINE c == current_section
<1>1. ASSUME UNCHANGED << symbols, symbol_map, undefined_symbols, pc >>,
             NEW d, NEW x,
             \/ sections' = [sections EXCEPT ![c].data = d]
             \/ sections' = [sections EXCEPT ![c].data = d, ![c].expressions = x]
      PROVE  TableInv'
    <2>1. c \in DOMAIN sections
        BY <1>0
    <2> HIDE DEF c
    <2>2. \A v \in DOMAIN sections :
              v \in DOMAIN sections' /\ sections'[v].end_symbol = sections[v].end_symbol
        <3>1. CASE sections' = [sections EXCEPT ![c].data = d]
            <4>1. sections' = [sections EXCEPT ![c] = [sections[c] EXCEPT !.data = d]]
                BY <1>0, <2>1, <3>1
            <4>2. [sections[c] EXCEPT !.data = d].end_symbol = sections[c].end_symbol
                BY <1>0, <2>1 DEF Section
            <4> QED
                BY <1>0, <4>1, <4>2
        <3>2. CASE sections' = [sections EXCEPT ![c].data = d, ![c].expressions = x]
            <4>1. sections' = [sections EXCEPT ![c] =
                                  [sections[c] EXCEPT !.data = d, !.expressions = x]]
                BY <1>0, <2>1, <3>2
            <4>2. [sections[c] EXCEPT !.data = d, !.expressions = x].end_symbol =
                      sections[c].end_symbol
                BY <1>0, <2>1 DEF Section
            <4> QED
                BY <1>0, <4>1, <4>2
        <3> QED
            BY <1>1, <3>1, <3>2
    <2> QED
        BY <1>0, <1>1, <2>2, TableKept
<1>2. CASE RecordData
    BY <1>1, <1>2 DEF RecordData, NextRecord, NextItem
<1>3. CASE RecordSection
    BY <1>0, <1>3, AbortTable, GlobalsKept DEF RecordSection
<1>4. CASE RecordOrg
    BY <1>4, AbortTable DEF RecordOrg
<1>5. CASE RecordSkipped
    BY <1>0, <1>5, GlobalsKept DEF RecordSkipped, NextRecord, NextItem, globals
<1>6. CASE RecordExpression
    <2>1. CASE Abort
        BY <2>1, AbortTable
    <2>2. CASE ~Abort
        BY <1>1, <1>6, <2>2 DEF RecordExpression, NextRecord, NextItem
    <2> QED
        BY <2>1, <2>2
<1>7. CASE RecordsDone
    BY <1>7, GlobalsKept DEF RecordsDone
<1> QED
    BY <1>2, <1>3, <1>4, <1>5, <1>6, <1>7 DEF OneRecord

LEMMA FileTable == TableInv /\ OneFile => TableInv'
<1> SUFFICES ASSUME TableInv, OneFile PROVE TableInv'
    OBVIOUS
<1>1. UNCHANGED globals /\ pc' \notin {"simplify", "linked"}
    BY DEF OneFile, FileRefused, FileIsLibrary, FileOpened, FileModule, FileDone,
           FilesDone, AtFile, Enter
<1>2. pc' = "generate_end" => undefined_symbols = {}
    BY DEF OneFile, FileRefused, FileIsLibrary, FileOpened, FileModule, FileDone,
           FilesDone, AtFile, Enter
<1> QED
    BY <1>1, <1>2, GlobalsKept

LEMMA LibraryTable == TableInv /\ OneLibrary => TableInv'
<1> SUFFICES ASSUME TableInv, OneLibrary PROVE TableInv'
    OBVIOUS
<1>1. UNCHANGED globals /\ pc' \notin {"generate_end", "simplify", "linked"}
    BY DEF OneLibrary, LibraryMissing, LibraryNowhere, LibraryOpened, LibraryModule,
           LibraryRound, LibrariesDone, AtLibrary, Enter, NextLibrary
<1> QED
    BY <1>1, GlobalsKept

(* generate_end() runs with nothing on the list, so every undefined symbol *)
(* is the end of a section, and those it defines.                          *)
LEMMA FinishTable == TypeInv /\ TableInv /\ Finish => TableInv'
<1> SUFFICES ASSUME TypeInv, TableInv, Finish PROVE TableInv'
    OBVIOUS
<1>1. CASE CheckUndefined
    BY <1>1, GlobalsKept DEF CheckUndefined
<1>2. CASE generate_end
    <2>1. /\ pc = "generate_end" /\ pc' = "simplify"
          /\ symbols' = [k \in DOMAIN symbols |-> AfterEnd(k)]
          /\ UNCHANGED << sections, symbol_map >> /\ undefined_symbols = {}
          /\ undefined_symbols' = {}
        BY <1>2 DEF generate_end, TableInv
    <2>2. symbols \in Seq(Symbol) /\ DOMAIN symbols' = DOMAIN symbols
        BY <2>1, TablesTyped DEF Tables, Final
    <2>3. \A k \in DOMAIN symbols : /\ symbols'[k] \in Symbol
                                    /\ symbols'[k].name = symbols[k].name
        BY <2>1, AfterEndType
    <2>4. ASSUME NEW k \in DOMAIN symbols PROVE symbols'[k].type # "UND"
        <3>1. symbols'[k] = AfterEnd(k)
            BY <2>1
        <3>2. CASE EndOf(k) # {}
            BY <3>1, <3>2 DEF AfterEnd, Defined
        <3>3. CASE EndOf(k) = {}
            <4>1. k \notin Ends
                BY <3>3 DEF EndOf, Ends
            <4>2. symbols[k].type # "UND"
                BY <2>1, <4>1 DEF TableInv, Table
            <4> QED
                BY <3>1, <3>3, <4>2 DEF AfterEnd, NamedAfter
        <3> QED
            BY <3>2, <3>3
    <2>5. symbols' \in Seq(Symbol)
        <3>1. symbols' \in [1 .. Len(symbols) -> Symbol]
            BY <2>1, <2>2, <2>3
        <3> QED
            BY <2>2, <3>1
    <2>6. Table(symbols', symbol_map', undefined_symbols', Ends')
        BY <2>1, <2>2, <2>3, <2>4, <2>5 DEF TableInv, Table
    <2> QED
        BY <2>1, <2>2, <2>4, <2>6 DEF TableInv, NothingUndefined
<1>3. CASE simplify
    <2>1. CASE Abort
        BY <2>1, AbortTable
    <2>2. CASE ~Abort
        <3>1. /\ pc = "simplify" /\ pc' = "linked"
              /\ UNCHANGED << symbols, symbol_map, undefined_symbols >>
              /\ sections' = [v \in DOMAIN sections |->
                     [sections[v] EXCEPT !.expressions =
                         [j \in DOMAIN @ |-> Simplified(@[j])]]]
            BY <1>3, <2>2 DEF simplify
        <3>2. sections \in Seq(Section)
            BY <3>1, TablesTyped DEF Tables, Final
        <3>3. \A v \in DOMAIN sections :
                  v \in DOMAIN sections' /\ sections'[v].end_symbol = sections[v].end_symbol
            <4> SUFFICES ASSUME NEW v \in DOMAIN sections
                         PROVE  v \in DOMAIN sections'
                                /\ sections'[v].end_symbol = sections[v].end_symbol
                OBVIOUS
            <4> DEFINE e == [j \in DOMAIN sections[v].expressions |->
                                Simplified(sections[v].expressions[j])]
            <4>1. v \in DOMAIN sections' /\ sections'[v] = [sections[v] EXCEPT !.expressions = e]
                BY <3>1
            <4> HIDE DEF e
            <4>2. sections[v] \in Section
                BY <3>2
            <4> QED
                BY <4>1, <4>2 DEF Section
        <3> QED
            BY <3>1, <3>3, TableKept
    <2> QED
        BY <2>1, <2>2
<1> QED
    BY <1>1, <1>2, <1>3 DEF Finish

LEMMA NextTable == TypeInv /\ TableInv /\ [Next]_vars => TableInv'
<1> SUFFICES ASSUME TypeInv, TableInv, [Next]_vars PROVE TableInv'
    OBVIOUS
<1>1. CASE UNCHANGED vars
    BY <1>1, GlobalsKept DEF vars, globals, TableInv
<1> QED
    BY <1>1, SectionTable, SymbolTable, RecordTable, FileTable, LibraryTable, FinishTable
    DEF Next, Ended

LEMMA TableAlways == Spec => []TableInv
BY InitTable, InitTypes, InputStaysOpen, NextTable, PTL DEF Spec

-----------------------------------------------------------------------------
(* The symbol table and its map stay inverse to each other, and undefined  *)
(* symbols keep their numbers, whatever the modules and the order in which *)
(* they are read.                                                          *)
THEOREM TableStaysConsistent == Spec => []TableConsistent
<1>1. TableInv => TableConsistent
    BY DEF TableInv, Table, TableConsistent
<1> QED
    BY <1>1, TableAlways, PTL

(* The list of undefined symbols and the table never disagree.             *)
THEOREM UndefinedStaysListed == Spec => []UndefinedListed
<1>1. TableInv => UndefinedListed
    BY DEF TableInv, Table, UndefinedListed, Ends
<1> QED
    BY <1>1, TableAlways, PTL

(* No symbol is undefined once generate_end() has run: simplify() replaces *)
(* every symbol of every expression.                                       *)
THEOREM EverythingResolved == Spec => []NothingUndefined
<1>1. TableInv => NothingUndefined
    BY DEF TableInv
<1> QED
    BY <1>1, TableAlways, PTL

-----------------------------------------------------------------------------
(***************************************************************************)
(* The linking phases implement LinkSpec, by step simulation: what a       *)
(* record, a file or a library does not define or refer to is a stuttering *)
(* step of the promise, and each kind of symbol is one of its actions.     *)
(***************************************************************************)
DefinedIn(S) == {S[k].name : k \in {j \in DOMAIN S : S[j].type # "UND"}}

Linking == {"file", "module", "sections", "symbols", "records", "library",
            "round", "resolved", "generate_end"}

-----------------------------------------------------------------------------
(* How the defined names change with the table. *)

LEMMA AppendNames ==
    ASSUME NEW S \in Seq(Symbol), NEW s \in Symbol
    PROVE  DefinedIn(Append(S, s)) =
               DefinedIn(S) \cup (IF s.type = "UND" THEN {} ELSE {s.name})
<1> DEFINE T == Append(S, s)
<1>1. /\ DOMAIN T = DOMAIN S \cup {Len(S) + 1} /\ T[Len(S) + 1] = s
      /\ Len(S) + 1 \notin DOMAIN S
      /\ \A k \in DOMAIN S : T[k] = S[k]
    OBVIOUS
<1> HIDE DEF T
<1>2. DefinedIn(T) = DefinedIn(S) \cup (IF s.type = "UND" THEN {} ELSE {s.name})
    BY <1>1 DEF DefinedIn
<1> QED
    BY <1>2 DEF T

LEMMA ReplaceNames ==
    ASSUME NEW S, NEW M, NEW U, NEW E, Table(S, M, U, E),
           NEW s \in Symbol, s.name \in DOMAIN M, s.type # "UND",
           S[M[s.name]].type = "UND"
    PROVE  /\ DefinedIn([S EXCEPT ![M[s.name]] = s]) = DefinedIn(S) \cup {s.name}
           /\ s.name \notin DefinedIn(S)
<1> DEFINE k == M[s.name]
           T == [S EXCEPT ![k] = s]
<1>1. k \in DOMAIN S /\ S[k].type = "UND" /\ S[k].name = s.name
    BY DEF Table
<1>2. DOMAIN T = DOMAIN S /\ T[k] = s /\ (\A j \in DOMAIN S : j # k => T[j] = S[j])
    BY <1>1
<1>3. \A j \in DOMAIN S : S[j].name = s.name => j = k
    BY DEF Table
<1> HIDE DEF k, T
<1>4. DefinedIn(T) = DefinedIn(S) \cup {s.name}
    BY <1>1, <1>2 DEF DefinedIn
<1>5. s.name \notin DefinedIn(S)
    BY <1>1, <1>3 DEF DefinedIn
<1> QED
    BY <1>4, <1>5 DEF T, k

LEMMA UnknownName ==
    ASSUME NEW S, NEW M, NEW U, NEW E, Table(S, M, U, E), NEW n, n \notin DOMAIN M
    PROVE  n \notin DefinedIn(S) /\ n \notin U
BY DEF Table, DefinedIn

LEMMA InTable == DefinedInTable = DefinedIn(symbols) /\ DefinedInTable' = DefinedIn(symbols')
BY DEF DefinedInTable, DefinedIn

-----------------------------------------------------------------------------
(* The kinds of step, each as a step of the promise. *)

LEMMA Stutters ==
    ASSUME UNCHANGED << symbols, undefined_symbols >>,
           \/ pc \in Linking /\ pc' \in Linking
           \/ pc \in {"simplify", "linked"} /\ pc' \in {"simplify", "linked"}
    PROVE  [LinkPromise!Next]_(LinkPromise!vars)
<1>1. UNCHANGED << DefinedInTable, Outcome >>
    BY InTable DEF Outcome, Linking
<1> QED
    BY <1>1 DEF LinkPromise!vars

LEMMA Aborts ==
    ASSUME Abort PROVE [LinkPromise!Next]_(LinkPromise!vars)
<1>1. /\ UNCHANGED << DefinedInTable, undefined_symbols >> /\ Outcome' = "aborted"
    BY InTable DEF Abort, globals, Outcome
<1> QED
    BY <1>1 DEF LinkPromise!Next, LinkPromise!Abort

LEMMA References ==
    ASSUME NEW n \in Names, pc \in Linking, pc' \in Linking,
           n \notin DefinedIn(symbols), DefinedIn(symbols') = DefinedIn(symbols),
           undefined_symbols' = undefined_symbols \cup {n}
    PROVE  [LinkPromise!Next]_(LinkPromise!vars)
<1>1. Outcome = "linking" /\ Outcome' = "linking"
    BY DEF Outcome, Linking
<1>2. LinkPromise!Reference(n)
    BY <1>1, InTable DEF LinkPromise!Reference
<1> QED
    BY <1>2 DEF LinkPromise!Next

LEMMA Defines1 ==
    ASSUME NEW n \in Names, pc \in Linking, pc' \in Linking,
           n \notin DefinedIn(symbols),
           DefinedIn(symbols') = DefinedIn(symbols) \cup {n},
           undefined_symbols' = undefined_symbols \ {n}
    PROVE  [LinkPromise!Next]_(LinkPromise!vars)
<1>1. Outcome = "linking" /\ Outcome' = "linking"
    BY DEF Outcome, Linking
<1>2. LinkPromise!Define(n)
    BY <1>1, InTable DEF LinkPromise!Define
<1> QED
    BY <1>2 DEF LinkPromise!Next

-----------------------------------------------------------------------------
LEMMA InitPromise == Init => LinkPromise!Init
<1> SUFFICES ASSUME Init PROVE LinkPromise!Init
    OBVIOUS
<1> USE DEF Predefined, PAGE0, CODE, KDATA, DATA, UDATA
<1>1. symbols = [j \in 1 .. 10 |-> PredefinedSymbol(j)]
    BY DEF Init
<1>2. DefinedIn(symbols) \subseteq {PredefinedBeg[k] : k \in Predefined}
    <2> SUFFICES ASSUME NEW j \in 1 .. 10, symbols[j].type # "UND"
                 PROVE  symbols[j].name \in {PredefinedBeg[k] : k \in Predefined}
        BY <1>1 DEF DefinedIn
    <2> DEFINE k == (j + 1) \div 2
    <2>1. k \in Predefined /\ symbols[j] = PredefinedSymbol(j)
        BY <1>1
    <2>2. j % 2 = 1
        BY <2>1 DEF PredefinedSymbol, UndefinedSymbol
    <2>3. PredefinedSymbol(j) = SectionStart(PredefinedBeg[k], k)
        BY <2>2 DEF PredefinedSymbol
    <2> QED
        BY <2>1, <2>3 DEF SectionStart
<1>3. \A k \in Predefined : PredefinedBeg[k] \in DefinedIn(symbols)
    <2> SUFFICES ASSUME NEW k \in Predefined PROVE PredefinedBeg[k] \in DefinedIn(symbols)
        OBVIOUS
    <2> DEFINE j == 2 * k - 1
    <2>1. j \in 1 .. 10 /\ j % 2 = 1 /\ (j + 1) \div 2 = k
        OBVIOUS
    <2>2. symbols[j] = PredefinedSymbol(j)
        BY <1>1, <2>1
    <2>3. PredefinedSymbol(j) = SectionStart(PredefinedBeg[k], k)
        BY <2>1 DEF PredefinedSymbol
    <2> QED
        BY <1>1, <2>1, <2>2, <2>3 DEF SectionStart, DefinedIn
<1>4. DefinedIn(symbols) = {PredefinedBeg[k] : k \in Predefined}
    BY <1>2, <1>3
<1>5. Outcome = "linking" /\ undefined_symbols = {}
    BY DEF Init, Outcome
<1> QED
    BY <1>4, <1>5, InTable DEF LinkPromise!Init

(* A new section may define its _BEG_ symbol; its _END_ symbol is neither  *)
(* defined nor listed.                                                     *)
LEMMA SectionPromise ==
    TypeInv /\ TableInv /\ OneSection => [LinkPromise!Next]_(LinkPromise!vars)
<1> SUFFICES ASSUME TypeInv, TableInv, OneSection
             PROVE  [LinkPromise!Next]_(LinkPromise!vars)
    OBVIOUS
<1>0. pc = "sections" /\ Tables
    <2>1. pc = "sections" /\ pc \notin Final
        BY DEF OneSection, SectionPredefined, SectionNew, SectionKnown, SectionsDone,
               AtSection, Final
    <2> QED
        BY <2>1, TablesTyped
<1>1. CASE SectionPredefined
    BY <1>0, <1>1, Stutters DEF SectionPredefined, NextItem, Linking
<1>2. CASE SectionNew
    <2> DEFINE v      == Len(sections) + 1
               beg    == BegName[Sec.name]
               end    == EndName[Sec.name]
               newBeg == ~Unnamed(Sec) /\ beg \notin DOMAIN symbol_map
               begSym == SectionStart(beg, v)
               begs   == IF newBeg THEN Append(symbols, begSym) ELSE symbols
               begMap == IF newBeg THEN Bind(symbol_map, beg, Len(begs))
                                   ELSE symbol_map
               newEnd == ~Unnamed(Sec) /\ end \notin DOMAIN begMap
               endSym == UndefinedSymbol(end, Len(begs) + 1)
    <2>1. /\ symbols' = IF newEnd THEN Append(begs, endSym) ELSE begs
          /\ UNCHANGED << undefined_symbols, pc >>
        BY <1>2 DEF SectionNew, NextItem
    <2>2. /\ Sec.name \in SectionNames /\ beg \in Names /\ end \in Names
          /\ symbols \in Seq(Symbol) /\ sections \in Seq(Section)
        BY <1>0, <1>2, ItemTypes, NamesAssumption
        DEF SectionNew, TypeInv, LocalSection, Tables
    <2>3. begSym \in Symbol /\ begSym.name = beg /\ begSym.type = "REL"
        BY <2>2 DEF SectionStart, Symbol, Global
    <2> HIDE DEF beg, end, begMap, begSym, newEnd
    <2>4. begs \in Seq(Symbol) /\ Len(begs) + 1 \in Nat
        BY <2>2, <2>3
    <2>5. DefinedIn(begs) = DefinedIn(symbols) \cup (IF newBeg THEN {beg} ELSE {})
        BY <2>2, <2>3, AppendNames
    <2> HIDE DEF begs
    <2>6. endSym \in Symbol /\ endSym.type = "UND"
        BY <2>2, <2>4 DEF UndefinedSymbol, Symbol
    <2> HIDE DEF endSym
    <2>7. DefinedIn(symbols') = DefinedIn(symbols) \cup (IF newBeg THEN {beg} ELSE {})
        BY <2>1, <2>4, <2>5, <2>6, AppendNames
    <2>8. CASE newBeg
        <3>1. beg \notin DefinedIn(symbols) /\ beg \notin undefined_symbols
            BY <2>8, UnknownName DEF TableInv
        <3> QED
            BY <1>0, <2>1, <2>2, <2>7, <2>8, <3>1, Defines1 DEF Linking
    <2>9. CASE ~newBeg
        <3>1. UNCHANGED << DefinedInTable, undefined_symbols, Outcome >>
            BY <2>1, <2>7, <2>9, InTable DEF Outcome
        <3> QED
            BY <3>1 DEF LinkPromise!vars
    <2> QED
        BY <2>8, <2>9
<1>3. CASE SectionKnown
    BY <1>0, <1>3, Stutters, Aborts DEF SectionKnown, NextItem, Linking
<1>4. CASE SectionsDone
    BY <1>0, <1>4, Stutters DEF SectionsDone, globals, Linking
<1> QED
    BY <1>1, <1>2, <1>3, <1>4 DEF OneSection

LEMMA SymbolPromise ==
    TypeInv /\ TableInv /\ OneSymbol => [LinkPromise!Next]_(LinkPromise!vars)
<1> SUFFICES ASSUME TypeInv, TableInv, OneSymbol
             PROVE  [LinkPromise!Next]_(LinkPromise!vars)
    OBVIOUS
<1>0. /\ pc = "symbols" /\ symbols \in Seq(Symbol)
      /\ AtSymbol => Sy \in Symbol /\ Sy.name \in Names
    <2>1. pc = "symbols" /\ pc \notin Final
        BY DEF OneSymbol, ReferenceNew, ReferenceKnown, DefineUnmapped, DefineLocal,
               DefineNew, DefineReferenced, DefineAgain, SymbolsDone, AtDefinition,
               AtSymbol, Final
    <2>2. AtSymbol => Sy \in Symbol
        BY ItemTypes DEF TypeInv
    <2> QED
        BY <2>1, <2>2, TablesTyped DEF Tables, Symbol
<1>1. CASE ReferenceNew
    <2> DEFINE n == Len(symbols) + 1
               s == [Sy EXCEPT !.section = n]
    <2>1. /\ symbols' = Append(symbols, s)
          /\ undefined_symbols' = undefined_symbols \cup {s.name}
          /\ AtSymbol /\ UNCHANGED pc
          /\ Sy.type = "UND" /\ Sy.name \notin DOMAIN symbol_map
        BY <1>1 DEF ReferenceNew, NextSymbol, NextItem
    <2>2. n \in Nat
        BY <1>0
    <2> HIDE DEF n
    <2>3. s \in Symbol /\ s.name = Sy.name /\ s.type = Sy.type
        BY <1>0, <2>1, <2>2 DEF Symbol
    <2> HIDE DEF s
    <2>4. DefinedIn(symbols') = DefinedIn(symbols)
        <3>1. DefinedIn(Append(symbols, s)) =
                  DefinedIn(symbols) \cup (IF s.type = "UND" THEN {} ELSE {s.name})
            BY <1>0, <2>1, <2>3, AppendNames
        <3> QED
            BY <2>1, <2>3, <3>1
    <2>5. Sy.name \notin DefinedIn(symbols)
        BY <2>1, UnknownName DEF TableInv
    <2> QED
        BY <1>0, <2>1, <2>3, <2>4, <2>5, References DEF Linking
<1>2. CASE ReferenceKnown \/ DefineLocal \/ DefineAgain
    <2>1. UNCHANGED << symbols, undefined_symbols, pc >>
        BY <1>2 DEF ReferenceKnown, DefineLocal, DefineAgain, NextSymbol, NextItem
    <2> QED
        BY <1>0, <2>1, Stutters DEF Linking
<1>3. CASE DefineUnmapped
    BY <1>3, Aborts DEF DefineUnmapped
<1>4. ASSUME AtDefinition, Relocatable
      PROVE  /\ Relocated(Sy) \in Symbol /\ Relocated(Sy).name = Sy.name
             /\ Relocated(Sy).type # "UND" /\ Sy.name \in Names
    BY <1>0, <1>4, DefinitionKept DEF AtDefinition
<1>5. CASE DefineNew
    <2>1. /\ symbols' = Append(symbols, Relocated(Sy))
          /\ AtDefinition /\ Relocatable /\ Sy.name \notin DOMAIN symbol_map
          /\ UNCHANGED << pc, undefined_symbols >>
        BY <1>5 DEF DefineNew, NextSymbol, NextItem
    <2>2. DefinedIn(symbols') = DefinedIn(symbols) \cup {Sy.name}
        BY <1>0, <1>4, <2>1, AppendNames
    <2>3. Sy.name \notin DefinedIn(symbols) /\ Sy.name \notin undefined_symbols
        BY <2>1, UnknownName DEF TableInv
    <2> QED
        BY <1>0, <1>4, <2>1, <2>2, <2>3, Defines1 DEF Linking
<1>6. CASE DefineReferenced
    <2>1. /\ symbols' = [symbols EXCEPT ![symbol_map[Sy.name]] = Relocated(Sy)]
          /\ undefined_symbols' = undefined_symbols \ {Sy.name}
          /\ symbols[symbol_map[Sy.name]].type = "UND"
          /\ AtDefinition /\ Relocatable /\ Sy.name \in DOMAIN symbol_map
          /\ UNCHANGED pc
        BY <1>6 DEF DefineReferenced, NextSymbol, NextItem
    <2>2. /\ DefinedIn(symbols') = DefinedIn(symbols) \cup {Sy.name}
          /\ Sy.name \notin DefinedIn(symbols)
        <3> DEFINE s == Relocated(Sy)
        <3>1. /\ s \in Symbol /\ s.name = Sy.name /\ s.type # "UND"
              /\ symbols' = [symbols EXCEPT ![symbol_map[s.name]] = s]
              /\ symbols[symbol_map[s.name]].type = "UND"
            BY <1>4, <2>1
        <3> HIDE DEF s
        <3>2. Table(symbols, symbol_map, undefined_symbols, Ends)
            BY DEF TableInv
        <3>3. /\ DefinedIn([symbols EXCEPT ![symbol_map[s.name]] = s]) =
                      DefinedIn(symbols) \cup {s.name}
              /\ s.name \notin DefinedIn(symbols)
            BY <2>1, <3>1, <3>2, ReplaceNames
        <3> QED
            BY <3>1, <3>3
    <2> QED
        BY <1>0, <1>4, <2>1, <2>2, Defines1 DEF Linking
<1>7. CASE SymbolsDone
    BY <1>0, <1>7, Stutters DEF SymbolsDone, globals, Linking
<1> QED
    BY <1>1, <1>2, <1>3, <1>5, <1>6, <1>7 DEF OneSymbol

(* Records, files and libraries name nothing by themselves. *)
LEMMA ReadingPromise ==
    TypeInv /\ (OneRecord \/ OneFile \/ OneLibrary) =>
        [LinkPromise!Next]_(LinkPromise!vars)
<1> SUFFICES ASSUME TypeInv, OneRecord \/ OneFile \/ OneLibrary
             PROVE  [LinkPromise!Next]_(LinkPromise!vars)
    OBVIOUS
<1>1. CASE OneRecord
    <2>1. Abort \/ /\ UNCHANGED << symbols, undefined_symbols >>
                   /\ pc \in Linking /\ pc' \in Linking
        BY <1>1 DEF OneRecord, RecordData, RecordSection, RecordOrg, RecordSkipped,
                    RecordExpression, RecordsDone, AtRecord, NextRecord, NextItem,
                    globals, Linking
    <2> QED
        BY <2>1, Stutters, Aborts
<1>2. CASE OneFile
    <2>1. /\ UNCHANGED << symbols, undefined_symbols >>
          /\ pc \in Linking /\ pc' \in Linking
        BY <1>2 DEF OneFile, FileRefused, FileIsLibrary, FileOpened, FileModule,
                    FileDone, FilesDone, AtFile, Enter, globals, Linking
    <2> QED
        BY <2>1, Stutters
<1>3. CASE OneLibrary
    <2>1. /\ UNCHANGED << symbols, undefined_symbols >>
          /\ pc \in Linking /\ pc' \in Linking
        BY <1>3 DEF OneLibrary, LibraryMissing, LibraryNowhere, LibraryOpened,
                    LibraryModule, LibraryRound, LibrariesDone, AtLibrary, Enter,
                    NextLibrary, globals, Linking
    <2> QED
        BY <2>1, Stutters
<1> QED
    BY <1>1, <1>2, <1>3

LEMMA FinishPromise ==
    TypeInv /\ TableInv /\ Finish => [LinkPromise!Next]_(LinkPromise!vars)
<1> SUFFICES ASSUME TypeInv, TableInv, Finish
             PROVE  [LinkPromise!Next]_(LinkPromise!vars)
    OBVIOUS
<1>1. CASE CheckUndefined
    <2>1. /\ pc = "resolved" /\ UNCHANGED << symbols, undefined_symbols >>
          /\ pc' = IF undefined_symbols # {} THEN "unresolved" ELSE "generate_end"
        BY <1>1 DEF CheckUndefined, globals
    <2>2. CASE undefined_symbols = {}
        BY <2>1, <2>2, Stutters DEF Linking
    <2>3. CASE undefined_symbols # {}
        <3>1. /\ Outcome = "linking" /\ Outcome' = "unresolved"
              /\ UNCHANGED DefinedInTable
            BY <2>1, <2>3, InTable DEF Outcome
        <3>2. LinkPromise!GiveUp
            BY <2>1, <2>3, <3>1 DEF LinkPromise!GiveUp
        <3> QED
            BY <3>2 DEF LinkPromise!Next
    <2> QED
        BY <2>2, <2>3
<1>2. CASE generate_end
    <2>1. /\ pc = "generate_end" /\ pc' = "simplify"
          /\ symbols' = [k \in DOMAIN symbols |-> AfterEnd(k)]
          /\ undefined_symbols = {} /\ undefined_symbols' = {}
        BY <1>2 DEF generate_end, TableInv
    <2>2. symbols \in Seq(Symbol) /\ DOMAIN symbols' = DOMAIN symbols
        BY <2>1, TablesTyped DEF Tables, Final
    <2>3. \A k \in DOMAIN symbols : symbols'[k].name = symbols[k].name
        BY <2>1, AfterEndType
    <2>4. \A k \in DOMAIN symbols : symbols'[k].type # "UND"
        BY <1>2, <2>1, <2>2, FinishTable DEF TableInv, NothingUndefined, Finish
    <2> DEFINE ends == {symbols[k].name : k \in DOMAIN symbols}
    <2>5. ends \in SUBSET Names
        <3>1. \A k \in DOMAIN symbols : symbols[k] \in Symbol
            BY <2>2
        <3> QED
            BY <3>1 DEF Symbol
    <2>6. DefinedIn(symbols') = DefinedIn(symbols) \cup ends
        BY <2>2, <2>3, <2>4 DEF DefinedIn
    <2> HIDE DEF ends
    <2>7. Outcome = "linking" /\ Outcome' = "complete"
        BY <2>1 DEF Outcome
    <2>8. LinkPromise!Complete
        BY <2>1, <2>5, <2>6, <2>7, InTable DEF LinkPromise!Complete
    <2> QED
        BY <2>8 DEF LinkPromise!Next
<1>3. CASE simplify
    BY <1>3, Stutters, Aborts DEF simplify
<1> QED
    BY <1>1, <1>2, <1>3 DEF Finish

-----------------------------------------------------------------------------
(* Every behaviour of the linker is one of the promise: names become       *)
(* missing and defined as it says, and the link completes exactly when     *)
(* nothing is missing, however many modules, libraries and rounds it took. *)
THEOREM LinkerKeepsPromise == Spec => KeepsPromise
<1>1. Init => LinkPromise!Init
    BY InitPromise
<1>2. TypeInv /\ TableInv /\ [Next]_vars => [LinkPromise!Next]_(LinkPromise!vars)
    <2> SUFFICES ASSUME TypeInv, TableInv, [Next]_vars
                 PROVE  [LinkPromise!Next]_(LinkPromise!vars)
        OBVIOUS
    <2>1. CASE UNCHANGED vars
        <3>1. UNCHANGED << DefinedInTable, undefined_symbols, Outcome >>
            BY <2>1, InTable DEF vars, Outcome
        <3> QED
            BY <3>1 DEF LinkPromise!vars
    <2> QED
        BY <2>1, SectionPromise, SymbolPromise, ReadingPromise, FinishPromise
        DEF Next, Ended
<1> QED
    BY <1>1, <1>2, InputStaysOpen, TableAlways, PTL DEF Spec, KeepsPromise, LinkPromise!Spec

(* So a completed link misses nothing, a link given up on misses something *)
(* and no name is on the list of undefined symbols once it is defined.     *)
THEOREM OutcomeIsSound == Spec => []LinkPromise!Sound
<1>1. LinkPromise!Init => LinkPromise!Sound
    BY DEF LinkPromise!Init, LinkPromise!Sound
<1>2. LinkPromise!Sound /\ [LinkPromise!Next]_(LinkPromise!vars) => LinkPromise!Sound'
    BY DEF LinkPromise!Sound, LinkPromise!Next, LinkPromise!vars, LinkPromise!Reference,
           LinkPromise!Define, LinkPromise!Complete, LinkPromise!GiveUp, LinkPromise!Abort
<1> QED
    BY <1>1, <1>2, LinkerKeepsPromise, PTL DEF KeepsPromise, LinkPromise!Spec
=============================================================================
