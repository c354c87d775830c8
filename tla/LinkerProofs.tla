---------------------------- MODULE LinkerProofs ----------------------------
(* Proofs about the linking phases of wdclink, for every command line. *)
EXTENDS LinkerProperties, FiniteSetTheorems, TLAPS

(* An inductive invariant: the types, and the validity of the indices of   *)
(* the library that is being read.                                         *)
TypeInv == TypeOK /\ InputOpen

-----------------------------------------------------------------------------
(* The helpers yield what the variables hold. *)

LEMMA InitTypes == Init => TypeInv
<1> SUFFICES ASSUME Init PROVE TypeInv
    OBVIOUS
<1> USE DEF Predefined, PAGE0, CODE, KDATA, DATA, UDATA
<1>1. \A k \in Predefined : PredefinedSection(k) \in Section
    BY NamesAssumption DEF PredefinedSection, Section, PredefinedName, PredefinedFlags,
                          SectionFlags
<1>2. sections \in Seq(Section) /\ DOMAIN sections = Predefined
    BY <1>1 DEF Init
<1>3. \A j \in 1 .. 10 : PredefinedSymbol(j) \in Symbol
    <2> SUFFICES ASSUME NEW j \in 1 .. 10 PROVE PredefinedSymbol(j) \in Symbol
        OBVIOUS
    <2> DEFINE k == (j + 1) \div 2
    <2>1. k \in Predefined
        OBVIOUS
    <2>2. PredefinedBeg[k] \in Names /\ PredefinedEnd[k] \in Names
        BY <2>1, NamesAssumption
    <2> QED
        BY <2>1, <2>2 DEF PredefinedSymbol, SectionStart, UndefinedSymbol, Symbol, Global
<1>4. symbols \in Seq(Symbol) /\ DOMAIN symbols = 1 .. 10
    BY <1>3 DEF Init
<1>5. symbol_map \in [DOMAIN symbol_map -> DOMAIN symbols] /\ DOMAIN symbol_map \subseteq Names
    <2>1. DOMAIN symbol_map = {PredefinedSymbol(j).name : j \in 1 .. 10}
        BY DEF Init
    <2>2. \A n \in DOMAIN symbol_map : symbol_map[n] \in 1 .. 10
        BY <2>1 DEF Init
    <2>3. \A n \in DOMAIN symbol_map : n \in Names
        BY <2>1, <1>3 DEF Symbol
    <2>4. symbol_map = [n \in DOMAIN symbol_map |-> symbol_map[n]]
        BY DEF Init
    <2> QED
        BY <2>2, <2>3, <2>4, <1>4
<1>6. NoModule \in Module
    BY DEF NoModule, Module
<1>7. IsCommandLine(cmd)
    BY CommandLinesAssumption DEF Init
<1> QED
    BY <1>7, <1>2, <1>4, <1>5, <1>6 DEF Init, TypeInv, TypeOK, InputOpen, Final, IdentityRemap

LEMMA ModuleParts ==
    ASSUME NEW m \in Module
    PROVE  /\ m.secs \in Seq(LocalSection) /\ m.syms \in Seq(Symbol)
           /\ m.recs \in Seq(Record)
BY DEF Module

LEMMA ItemTypes ==
    ASSUME TypeOK
    PROVE  /\ AtSection => Sec \in LocalSection
           /\ AtSymbol => Sy \in Symbol
           /\ i \in DOMAIN module.recs => Rec \in Record
<1>1. module \in Module
    BY DEF TypeOK
<1> QED
    BY <1>1, ModuleParts DEF AtSection, AtSymbol, Sec, Sy, Rec

LEMMA SectionParts ==
    ASSUME NEW s \in Section
    PROVE  /\ s.size \in Nat /\ s.data \in Seq(Byte) /\ Len(s.data) \in Nat
           /\ s.expressions \in Seq(Expression) /\ s.end_symbol \in Nat
BY DEF Section

LEMMA RelocatedType ==
    ASSUME TypeOK, AtDefinition, Relocatable
    PROVE  Relocated(Sy) \in Symbol
<1>1. Sy \in Symbol
    BY ItemTypes DEF AtDefinition
<1>2. CASE Sy.type = "REL"
    <2> DEFINE v == remap_section[Sy.section]
    <2>1. v \in DOMAIN sections
        BY <1>2 DEF TypeOK, Relocatable
    <2>2. sections \in Seq(Section)
        BY DEF TypeOK, AtDefinition, AtSymbol
    <2>3. v \in Nat /\ sections[v] \in Section
        BY <2>1, <2>2
    <2>4. Base(v) \in Nat
        BY <2>3, SectionParts DEF Base
    <2> QED
        <3>1. Relocated(Sy) = [Sy EXCEPT !.section = v, !.offset = @ + Base(v)]
            BY <1>2 DEF Relocated
        <3>2. Sy.offset + Base(v) \in Nat
            BY <1>1, <2>4 DEF Symbol
        <3> HIDE DEF v
        <3> QED
            BY <1>1, <2>3, <3>1, <3>2 DEF Symbol
<1> QED
    BY <1>1, <1>2 DEF Relocated, Symbol

LEMMA BytesType ==
    ASSUME TypeOK, pc = "records", NEW n \in Nat
    PROVE  /\ Bytes(n) \in Seq(Byte)
           /\ current_section \in DOMAIN sections
<1> DEFINE data == sections[current_section].data
           mine == {k \in DOMAIN data : data[k].by = Len(loaded) /\ data[k].section = current}
<1>1. current_section \in DOMAIN sections
    BY DEF TypeOK, current_section
<1>2. data \in Seq(Byte)
    BY <1>1, SectionParts DEF TypeOK
<1>3. Cardinality(mine) \in Nat
    <2>1. IsFiniteSet(DOMAIN data)
        BY <1>2, FS_Interval, 0 \in Int
    <2> QED
        BY <2>1, FS_Subset, FS_CardinalityType
<1>4. Len(loaded) \in Nat /\ current \in Nat
    BY DEF TypeOK
<1> DEFINE read == Cardinality(mine)
<1>5. Bytes(n) = [k \in 1 .. n |-> [by |-> Len(loaded), section |-> current,
                                   at |-> read + k - 1]]
    BY DEF Bytes
<1>6. read \in Nat
    BY <1>3
<1> HIDE DEF read
<1>7. ASSUME NEW k \in 1 .. n
      PROVE  [by |-> Len(loaded), section |-> current, at |-> read + k - 1] \in Byte
    <2>1. read + k - 1 \in Nat
        BY <1>6
    <2> QED
        BY <1>4, <2>1 DEF Byte
<1> QED
    BY <1>1, <1>5, <1>7

LEMMA NewExpressionType ==
    ASSUME TypeOK, AtRecord({"EXPR", "RELEXP"}),
           \A k \in DOMAIN Rec.stack : Convertible(Rec.stack[k])
    PROVE  NewExpression(Rec) \in Expression
<1>1. Rec \in Record
    BY ItemTypes DEF AtRecord
<1> DEFINE stack == [k \in DOMAIN Rec.stack |-> Converted(Rec.stack[k])]
<1>2. ASSUME NEW k \in DOMAIN Rec.stack PROVE Converted(Rec.stack[k]) \in Item
    <2> DEFINE t == Rec.stack[k]
    <2>1. t \in Item
        BY <1>1 DEF Record
    <2>2. Convertible(t)
        OBVIOUS
    <2>3. CASE t.tag = "SYM"
        <3> DEFINE s == local_symbols[t.section]
        <3>1. s \in Symbol
            BY <2>2, <2>3 DEF Convertible, TypeOK
        <3>2. s.section \in Nat /\ s.offset \in Nat /\ s.type \in {"UND", "ABS", "REL"}
            BY <3>1 DEF Symbol
        <3>3. {Sym(s.section), Loc(s.section, s.offset), Val(s.offset)} \subseteq Item
            BY <3>2 DEF Item, Sym, Loc, Val, Operands
        <3>4. Converted(t) \in {Sym(s.section), Loc(s.section, s.offset), Val(s.offset), t}
            BY <2>3, Zenon DEF Converted
        <3> QED
            BY <2>1, <3>3, <3>4
    <2>4. CASE t.tag = "LOC"
        <3>1. remap_section[t.section] \in Nat
            BY <2>2, <2>4 DEF Convertible, TypeOK, AtRecord
        <3>2. Loc(remap_section[t.section], t.value) \in Item
            BY <2>1, <3>1 DEF Item, Loc, Operands
        <3>3. t.tag # "SYM"
            BY <2>4
        <3>4. Converted(t) = Loc(remap_section[t.section], t.value)
            BY <2>4, <3>3 DEF Converted
        <3> QED
            BY <3>2, <3>4
    <2> QED
        BY <2>1, <2>3, <2>4 DEF Converted
<1>3. stack \in Seq(Item) /\ Rec.stack \in Seq(Item) /\ Rec.n \in Nat
    BY <1>1, <1>2 DEF Record
<1>4. current_section \in Nat /\ Base(current_section) \in Nat
    <2>1. sections \in Seq(Section)
        BY DEF TypeOK, AtRecord
    <2>2. current_section \in DOMAIN sections
        BY <1>3, BytesType DEF AtRecord
    <2> QED
        BY <2>1, <2>2, SectionParts DEF Base
<1> QED
    <2>1. Len(loaded) \in Nat
        BY DEF TypeOK
    <2> DEFINE relative  == Rec.op = "RELEXP"
               undefined == With(stack, {"SYM"}) # {}
    <2>2. NewExpression(Rec) =
              [section |-> current_section, offset |-> Base(current_section),
               size |-> Rec.n, relative |-> relative, stack |-> stack,
               undefined |-> undefined, by |-> Len(loaded), source |-> Rec.stack]
        BY DEF NewExpression
    <2>3. relative \in BOOLEAN /\ undefined \in BOOLEAN
        OBVIOUS
    <2> HIDE DEF stack, relative, undefined
    <2> QED
        BY <1>3, <1>4, <2>1, <2>2, <2>3 DEF Expression

(* The sections after a change of one of them. *)
LEMMA SectionsType ==
    ASSUME NEW S \in Seq(Section), NEW v \in DOMAIN S, NEW s \in Section
    PROVE  /\ [S EXCEPT ![v] = s] \in Seq(Section)
           /\ DOMAIN [S EXCEPT ![v] = s] = DOMAIN S
OBVIOUS

LEMMA SizeType ==
    ASSUME NEW S \in Seq(Section), NEW v \in DOMAIN S, NEW n \in Nat
    PROVE  /\ [S EXCEPT ![v].size = @ + n] \in Seq(Section)
           /\ DOMAIN [S EXCEPT ![v].size = @ + n] = DOMAIN S
<1>1. S[v] \in Section
    OBVIOUS
<1>2. S[v].size + n \in Nat
    BY <1>1, SectionParts
<1>3. [S[v] EXCEPT !.size = @ + n] \in Section
    BY <1>1, <1>2 DEF Section
<1> QED
    BY <1>3

-----------------------------------------------------------------------------
(* Every action keeps the types. *)

LEMMA AbortTypes == TypeInv /\ pc \notin Final /\ Abort => TypeInv'
BY DEF TypeInv, TypeOK, InputOpen, Abort, Final, input, frame, globals, Lib, Files

(* What the loops of one_module() change, and the rest.                    *)
Tables ==
    /\ remap_section \in [DOMAIN remap_section -> DOMAIN sections]
    /\ DOMAIN remap_section \subseteq Nat
    /\ sections \in Seq(Section) /\ Predefined \subseteq DOMAIN sections
    /\ section_map \in [DOMAIN section_map -> DOMAIN sections]
    /\ DOMAIN section_map \subseteq SectionNames
    /\ symbols \in Seq(Symbol)
    /\ symbol_map \in [DOMAIN symbol_map -> DOMAIN symbols]
    /\ DOMAIN symbol_map \subseteq Names

Collected ==
    /\ local_symbols \in Seq(Symbol)
    /\ undefined_symbols \subseteq Names /\ local_undefined \subseteq Names
    /\ errors \in Nat

(* The position in the input and in the module.                            *)
Control ==
    /\ IsCommandLine(cmd)
    /\ pc \in {"file", "module", "sections", "symbols", "records", "library",
              "round", "resolved", "generate_end", "simplify"} \cup Final
    /\ file \in Nat /\ modno \in Nat /\ l \in Nat /\ L \in Nat /\ i \in Nat \ {0}
    /\ modules \in [DOMAIN modules -> {"pending", "processed"}]
    /\ module \in Module /\ loaded \in Seq(Module)
    /\ current \in DOMAIN remap_section

LEMMA Typed ==
    /\ TypeOK => Control
    /\ Control /\ Tables /\ Collected => TypeOK
    /\ (Control /\ Tables /\ Collected)' => TypeOK'
BY DEF TypeOK, Control, Tables, Collected

LEMMA TablesTyped == TypeInv /\ pc \notin Final => Tables /\ Collected
BY DEF TypeInv, TypeOK, Tables, Collected, Final

LEMMA ItemTypesKept ==
    ASSUME TypeInv, pc \notin Final, NextItem, Tables', Collected',
           current \in DOMAIN remap_section'
    PROVE  TypeInv'
<1>1. TypeOK'
    <2>1. i' \in Nat \ {0}
        BY DEF TypeInv, TypeOK, NextItem
    <2> QED
        BY <2>1 DEF TypeInv, TypeOK, Tables, Collected, NextItem, input
<1>2. InputOpen'
    BY DEF TypeInv, InputOpen, NextItem, input, Lib, Files
<1> QED
    BY <1>1, <1>2 DEF TypeInv

LEMMA SectionTypes == TypeInv /\ OneSection => TypeInv'
<1> SUFFICES ASSUME TypeInv, OneSection PROVE TypeInv'
    OBVIOUS
<1>0. /\ pc = "sections" /\ pc \notin Final
      /\ Tables /\ Collected /\ sections \in Seq(Section)
      /\ current \in DOMAIN remap_section
    <2>1. pc = "sections" /\ pc \notin Final
        BY DEF OneSection, SectionPredefined, SectionNew, SectionKnown, SectionsDone,
               AtSection, Final
    <2> QED
        BY <2>1, TablesTyped DEF Tables, TypeInv, TypeOK
<1>1. CASE SectionPredefined
    <2>1. Sec.size \in Nat /\ Sec.number \in Nat /\ Sec.number \in DOMAIN sections
        BY <1>1, ItemTypes DEF TypeInv, TypeOK, SectionPredefined, LocalSection
    <2>2. sections' \in Seq(Section) /\ DOMAIN sections' = DOMAIN sections
        BY <1>0, <1>1, <2>1, SizeType DEF SectionPredefined
    <2> QED
        BY <1>0, <1>1, <2>2, ItemTypesKept DEF SectionPredefined, Tables, Collected
<1>2. CASE SectionNew
    <2> DEFINE v      == Len(sections) + 1
               newBeg == ~Unnamed(Sec) /\ BegName[Sec.name] \notin DOMAIN symbol_map
               begs   == IF newBeg
                         THEN Append(symbols, SectionStart(BegName[Sec.name], v))
                         ELSE symbols
               begMap == IF newBeg
                         THEN Bind(symbol_map, BegName[Sec.name], Len(begs))
                         ELSE symbol_map
               newEnd == ~Unnamed(Sec) /\ EndName[Sec.name] \notin DOMAIN begMap
               k      == Len(begs) + 1
               end    == IF newEnd THEN k ELSE 0
               new    == [name |-> Sec.name, flags |-> Sec.flags, size |-> Sec.size,
                          data |-> << >>, expressions |-> << >>, end_symbol |-> end]
    <2>1. /\ Sec.size \in Nat /\ Sec.number \in Nat /\ Sec.name \in SectionNames
          /\ Sec.flags \in SUBSET SectionFlags
        BY <1>2, ItemTypes DEF TypeInv, TypeOK, SectionNew, LocalSection
    <2>2. BegName[Sec.name] \in Names /\ EndName[Sec.name] \in Names /\ Sec.name \in Names
        BY <2>1, NamesAssumption
    <2>3. /\ symbols \in Seq(Symbol) /\ DOMAIN symbol_map \subseteq Names
          /\ symbol_map \in [DOMAIN symbol_map -> DOMAIN symbols]
        BY DEF TypeInv, TypeOK
    <2>4. v \in Nat
        BY <1>0
    <2>5. SectionStart(BegName[Sec.name], v) \in Symbol
        BY <2>2, <2>4 DEF SectionStart, Symbol
    <2>6. begs \in Seq(Symbol) /\ DOMAIN symbols \subseteq DOMAIN begs
        BY <2>3, <2>5
    <2>7. begMap \in [DOMAIN begMap -> DOMAIN begs] /\ DOMAIN begMap \subseteq Names
        <3>1. CASE newBeg
            BY <3>1, <2>2, <2>3, <2>5, <2>6 DEF Bind
        <3>2. CASE ~newBeg
            BY <3>2, <2>3
        <3> QED
            BY <3>1, <3>2
    <2> HIDE DEF begs, begMap
    <2>8. UndefinedSymbol(EndName[Sec.name], k) \in Symbol /\ k \in Nat
        BY <2>2, <2>6 DEF UndefinedSymbol, Symbol
    <2>9. /\ symbols' \in Seq(Symbol) /\ DOMAIN symbol_map' \subseteq Names
          /\ symbol_map' \in [DOMAIN symbol_map' -> DOMAIN symbols']
        <3>1. /\ symbols' = IF newEnd THEN Append(begs, UndefinedSymbol(EndName[Sec.name], k))
                                      ELSE begs
              /\ symbol_map' = IF newEnd THEN Bind(begMap, EndName[Sec.name], k) ELSE begMap
            BY <1>2 DEF SectionNew, begs, begMap
        <3>2. CASE newEnd
            BY <3>1, <3>2, <2>2, <2>6, <2>7, <2>8 DEF Bind
        <3>3. CASE ~newEnd
            BY <3>1, <3>3, <2>6, <2>7
        <3> QED
            BY <3>2, <3>3
    <2>10. end \in Nat
        BY <2>8
    <2>11. new \in Section
        <3> HIDE DEF end
        <3> QED
            BY <2>1, <2>2, <2>10 DEF Section
    <2>12. sections' = Append(sections, new)
        BY <1>2 DEF SectionNew, begs, begMap
    <2> HIDE DEF new
    <2>13. /\ sections' \in Seq(Section) /\ DOMAIN sections \subseteq DOMAIN sections'
           /\ v \in DOMAIN sections'
        BY <1>0, <2>11, <2>12
    <2>14. /\ section_map' = Bind(section_map, Sec.name, v)
           /\ remap_section' = Bind(remap_section, Sec.number, v)
        BY <1>2 DEF SectionNew
    <2>15. /\ section_map' \in [DOMAIN section_map' -> DOMAIN sections']
           /\ DOMAIN section_map' \subseteq SectionNames
        BY <2>1, <2>13, <2>14 DEF TypeInv, TypeOK, Bind
    <2>16. /\ remap_section' \in [DOMAIN remap_section' -> DOMAIN sections']
           /\ DOMAIN remap_section' \subseteq Nat /\ current \in DOMAIN remap_section'
        BY <1>0, <2>1, <2>13, <2>14 DEF Tables, Bind
    <2> QED
        <3>1. Tables'
            BY <1>0, <2>9, <2>13, <2>15, <2>16 DEF Tables
        <3>2. Collected' /\ NextItem
            BY <1>0, <1>2 DEF Collected, SectionNew
        <3> QED
            BY <1>0, <2>16, <3>1, <3>2, ItemTypesKept
<1>3. CASE SectionKnown
    <2> DEFINE v == section_map[Sec.name]
    <2>1. Sec.size \in Nat /\ Sec.number \in Nat /\ v \in DOMAIN sections
        BY <1>3, ItemTypes DEF TypeInv, TypeOK, SectionKnown, LocalSection
    <2>2. CASE Abort
        BY <1>0, <2>2, AbortTypes DEF Final
    <2>3. CASE /\ sections' = [sections EXCEPT ![v].size = @ + Sec.size]
               /\ remap_section' = Bind(remap_section, Sec.number, v)
               /\ NextItem
               /\ UNCHANGED << local_symbols, section_map, symbols, symbol_map,
                               undefined_symbols, errors, local_undefined >>
        <3>1. sections' \in Seq(Section) /\ DOMAIN sections' = DOMAIN sections
            BY <1>0, <2>1, <2>3, SizeType
        <3>2. /\ remap_section' \in [DOMAIN remap_section' -> DOMAIN sections']
              /\ DOMAIN remap_section' \subseteq Nat /\ current \in DOMAIN remap_section'
            BY <2>1, <2>3, <3>1 DEF TypeInv, TypeOK, Bind
        <3> QED
            BY <1>0, <2>3, <3>1, <3>2, ItemTypesKept DEF Tables, Collected
    <2> QED
        BY <1>3, <2>2, <2>3 DEF SectionKnown
<1>4. CASE SectionsDone
    BY <1>4 DEF TypeInv, TypeOK, InputOpen, SectionsDone, input, frame, globals, Lib, Files, Final
<1> QED
    BY <1>1, <1>2, <1>3, <1>4 DEF OneSection

LEMMA SymbolTypes == TypeInv /\ OneSymbol => TypeInv'
<1> SUFFICES ASSUME TypeInv, OneSymbol PROVE TypeInv'
    OBVIOUS
<1>0. /\ pc = "symbols" /\ pc \notin Final /\ Tables /\ Collected
      /\ current \in DOMAIN remap_section /\ TypeOK
    <2>1. pc = "symbols" /\ pc \notin Final
        BY DEF OneSymbol, ReferenceNew, ReferenceKnown, DefineUnmapped, DefineLocal,
               DefineNew, DefineReferenced, DefineAgain, SymbolsDone, AtDefinition,
               AtSymbol, Final
    <2> QED
        BY <2>1, TablesTyped DEF TypeInv, TypeOK
(* The tables a symbol step leaves alone, and what it appends.             *)
<1>1. ASSUME NEW s \in Symbol, NextSymbol(s), symbols' \in Seq(Symbol),
             DOMAIN symbol_map' \subseteq Names,
             symbol_map' \in [DOMAIN symbol_map' -> DOMAIN symbols'],
             undefined_symbols' \subseteq Names, local_undefined' \subseteq Names,
             errors' \in Nat
      PROVE  TypeInv'
    <2>1. local_symbols' \in Seq(Symbol)
        BY <1>0, <1>1 DEF NextSymbol, Collected
    <2>2. Tables' /\ Collected' /\ NextItem /\ remap_section' = remap_section
        BY <1>0, <1>1, <2>1 DEF NextSymbol, Tables, Collected
    <2> QED
        BY <1>0, <2>2, ItemTypesKept
<1>2. ASSUME NEW s \in Symbol, NoteUndefined(s) PROVE local_undefined' \subseteq Names
    BY <1>0, <1>2 DEF NoteUndefined, Collected, Symbol
<1>3. CASE ReferenceNew
    <2> DEFINE s == [Sy EXCEPT !.section = Len(symbols) + 1]
    <2>1. Sy \in Symbol /\ Len(symbols) \in Nat
        BY <1>0, <1>3, ItemTypes DEF ReferenceNew, Tables
    <2>2. s \in Symbol /\ s.name \in Names /\ s.section = Len(symbols) + 1
        BY <2>1 DEF Symbol
    <2>3. /\ symbols' = Append(symbols, s) /\ symbol_map' = Bind(symbol_map, s.name, s.section)
          /\ undefined_symbols' = undefined_symbols \cup {s.name}
          /\ NoteUndefined(s) /\ NextSymbol(s) /\ errors' = errors
        BY <1>3 DEF ReferenceNew
    <2> HIDE DEF s
    <2>4. symbols' \in Seq(Symbol) /\ DOMAIN symbols' = 1 .. Len(symbols) + 1
        BY <1>0, <2>2, <2>3 DEF Tables
    <2>5. /\ DOMAIN symbol_map' \subseteq Names
          /\ symbol_map' \in [DOMAIN symbol_map' -> DOMAIN symbols']
        BY <1>0, <2>1, <2>2, <2>3, <2>4 DEF Tables, Bind
    <2>6. undefined_symbols' \subseteq Names /\ local_undefined' \subseteq Names /\ errors' \in Nat
        BY <1>0, <1>2, <2>2, <2>3 DEF Collected
    <2> QED
        BY <1>1, <2>2, <2>3, <2>4, <2>5, <2>6
<1>4. CASE ReferenceKnown
    <2> DEFINE s == symbols[symbol_map[Sy.name]]
    <2>1. s \in Symbol
        BY <1>0, <1>4 DEF ReferenceKnown, Tables
    <2>2. NoteUndefined(s) /\ NextSymbol(s) /\ UNCHANGED << symbols, symbol_map, undefined_symbols, errors >>
        BY <1>4 DEF ReferenceKnown
    <2> HIDE DEF s
    <2> QED
        BY <1>0, <1>1, <1>2, <2>1, <2>2 DEF Tables, Collected
<1>5. CASE DefineUnmapped
    BY <1>0, <1>5, AbortTypes DEF DefineUnmapped
<1>6. ASSUME AtDefinition, Relocatable
      PROVE  Relocated(Sy) \in Symbol /\ Sy.name \in Names
    BY <1>0, <1>6, RelocatedType, ItemTypes DEF AtDefinition, Symbol
<1>7. CASE DefineLocal
    BY <1>0, <1>1, <1>6, <1>7 DEF DefineLocal, Tables, Collected
<1>8. CASE DefineNew
    <2> DEFINE s == Relocated(Sy)
    <2>1. s \in Symbol /\ Sy.name \in Names
        BY <1>6, <1>8 DEF DefineNew
    <2>2. /\ symbols' = Append(symbols, s)
          /\ symbol_map' = Bind(symbol_map, Sy.name, Len(symbols) + 1)
          /\ NextSymbol(s) /\ UNCHANGED << undefined_symbols, errors, local_undefined >>
        BY <1>8 DEF DefineNew
    <2> HIDE DEF s
    <2>3. symbols' \in Seq(Symbol) /\ DOMAIN symbols' = 1 .. Len(symbols) + 1 /\ Len(symbols) \in Nat
        BY <1>0, <2>1, <2>2 DEF Tables
    <2>4. /\ DOMAIN symbol_map' \subseteq Names
          /\ symbol_map' \in [DOMAIN symbol_map' -> DOMAIN symbols']
        BY <1>0, <2>1, <2>2, <2>3 DEF Tables, Bind
    <2> QED
        BY <1>0, <1>1, <2>1, <2>2, <2>3, <2>4 DEF Collected
<1>9. CASE DefineReferenced
    <2> DEFINE s == Relocated(Sy)
               k == symbol_map[Sy.name]
    <2>1. s \in Symbol /\ k \in DOMAIN symbols
        BY <1>0, <1>6, <1>9 DEF DefineReferenced, Tables
    <2>2. /\ symbols' = [symbols EXCEPT ![k] = s]
          /\ undefined_symbols' = undefined_symbols \ {Sy.name}
          /\ NextSymbol(s) /\ UNCHANGED << symbol_map, errors, local_undefined >>
        BY <1>9 DEF DefineReferenced
    <2> HIDE DEF s, k
    <2>3. symbols' \in Seq(Symbol) /\ DOMAIN symbols' = DOMAIN symbols
        BY <1>0, <2>1, <2>2 DEF Tables
    <2> QED
        BY <1>0, <1>1, <2>1, <2>2, <2>3 DEF Tables, Collected
<1>10. CASE DefineAgain
    <2>1. errors' \in Nat
        BY <1>0, <1>10 DEF DefineAgain, Collected
    <2> QED
        BY <1>0, <1>1, <1>6, <1>10, <2>1 DEF DefineAgain, Tables, Collected
<1>11. CASE SymbolsDone
    BY <1>11 DEF TypeInv, TypeOK, InputOpen, SymbolsDone, input, frame, globals, Lib, Files, Final
<1> QED
    BY <1>3, <1>4, <1>5, <1>7, <1>8, <1>9, <1>10, <1>11 DEF OneSymbol

LEMMA RecordTypes == TypeInv /\ OneRecord => TypeInv'
<1> SUFFICES ASSUME TypeInv, OneRecord PROVE TypeInv'
    OBVIOUS
<1>0. /\ pc = "records" /\ pc \notin Final /\ Tables /\ Collected
      /\ current \in DOMAIN remap_section /\ TypeOK /\ Control
    <2>1. pc = "records" /\ pc \notin Final
        BY DEF OneRecord, RecordData, RecordSection, RecordOrg, RecordSkipped,
               RecordExpression, RecordsDone, AtRecord, Final
    <2> QED
        BY <2>1, TablesTyped, Typed DEF TypeInv, TypeOK
<1>1. ASSUME sections' \in Seq(Section), DOMAIN sections' = DOMAIN sections,
             errors' \in Nat, NextRecord
      PROVE  TypeInv'
    <2>1. Tables' /\ Collected' /\ NextItem /\ remap_section' = remap_section
        BY <1>0, <1>1 DEF NextRecord, Tables, Collected
    <2> QED
        BY <1>0, <2>1, ItemTypesKept
<1>2. current_section \in DOMAIN sections /\ sections[current_section] \in Section
    BY <1>0, BytesType, 0 \in Nat DEF Tables
<1> DEFINE s == sections[current_section]
<1>3. CASE RecordData
    <2>1. Rec \in Record
        BY <1>0, <1>3, ItemTypes DEF RecordData, AtRecord
    <2>2. Bytes(Rec.n) \in Seq(Byte)
        BY <1>0, <2>1, BytesType DEF Record
    <2>3. s.data \o Bytes(Rec.n) \in Seq(Byte)
        BY <1>2, <2>2, SectionParts
    <2>4. [s EXCEPT !.data = @ \o Bytes(Rec.n)] \in Section
        BY <1>2, <2>3 DEF Section
    <2>5. sections' = [sections EXCEPT ![current_section] = [s EXCEPT !.data = @ \o Bytes(Rec.n)]]
        BY <1>3 DEF RecordData
    <2>6. sections' \in Seq(Section) /\ DOMAIN sections' = DOMAIN sections
        BY <1>0, <1>2, <2>4, <2>5, SectionsType DEF Tables
    <2> QED
        BY <1>0, <1>1, <1>3, <2>6 DEF RecordData, Collected
<1>4. CASE RecordSection
    <2>1. CASE Abort
        BY <1>0, <2>1, AbortTypes
    <2>2. CASE ~Abort
        <3>1. Rec.n \in DOMAIN remap_section /\ current' = Rec.n /\ i' = i + 1
              /\ UNCHANGED << pc, input, module, remap_section, local_symbols, loaded,
                              globals, errors, local_undefined >>
            BY <1>4, <2>2 DEF RecordSection
        <3>2. TypeOK'
            <4>1. i' \in Nat \ {0} /\ current' \in DOMAIN remap_section'
                BY <1>0, <3>1 DEF Control
            <4>2. Control'
                BY <1>0, <3>1, <4>1 DEF Control, input
            <4>3. Tables' /\ Collected'
                BY <1>0, <3>1 DEF Tables, Collected, globals
            <4> QED
                BY <4>2, <4>3, Typed
        <3>3. InputOpen'
            BY <3>1 DEF TypeInv, InputOpen, input, Lib, Files
        <3> QED
            BY <3>2, <3>3 DEF TypeInv
    <2> QED
        BY <2>1, <2>2
<1>5. CASE RecordOrg
    BY <1>0, <1>5, AbortTypes DEF RecordOrg
<1>6. CASE RecordSkipped
    BY <1>0, <1>1, <1>6 DEF RecordSkipped, Tables, Collected
<1>7. CASE RecordExpression
    <2>1. CASE Abort
        BY <1>0, <2>1, AbortTypes
    <2>2. CASE ~Abort
        <3>1. Rec \in Record
            BY <1>0, <1>7, ItemTypes DEF RecordExpression, AtRecord
        <3>2. /\ \A k \in DOMAIN Rec.stack : Convertible(Rec.stack[k])
              /\ AtRecord({"EXPR", "RELEXP"}) /\ NextRecord
              /\ errors' = IF WellFormed(Rec.stack) THEN errors ELSE errors + 1
              /\ sections' = [sections EXCEPT
                     ![current_section].data = @ \o Bytes(Rec.n),
                     ![current_section].expressions = Append(@, NewExpression(Rec))]
            BY <1>7, <2>2 DEF RecordExpression
        <3>3. s.data \o Bytes(Rec.n) \in Seq(Byte)
            BY <1>0, <1>2, <3>1, SectionParts, BytesType DEF Record
        <3>4. Append(s.expressions, NewExpression(Rec)) \in Seq(Expression)
            BY <1>0, <1>2, <3>2, SectionParts, NewExpressionType
        <3> DEFINE t == [s EXCEPT !.data = @ \o Bytes(Rec.n),
                                  !.expressions = Append(@, NewExpression(Rec))]
        <3>5. t \in Section
            BY <1>2, <3>3, <3>4 DEF Section
        <3>6. sections' = [sections EXCEPT ![current_section] = t]
            BY <1>0, <1>2, <3>2 DEF Tables
        <3> HIDE DEF t
        <3>7. sections' \in Seq(Section) /\ DOMAIN sections' = DOMAIN sections
            BY <1>0, <1>2, <3>5, <3>6, SectionsType DEF Tables
        <3> QED
            BY <1>0, <1>1, <3>2, <3>7 DEF Collected
    <2> QED
        BY <2>1, <2>2
<1>8. CASE RecordsDone
    BY <1>8 DEF TypeInv, TypeOK, InputOpen, RecordsDone, input, frame, globals, Lib, Files, Final
<1> QED
    BY <1>3, <1>4, <1>5, <1>6, <1>7, <1>8 DEF OneRecord

LEMMA EnterTypes ==
    ASSUME TypeInv, pc \notin Final, NEW m \in Module, Enter(m),
           UNCHANGED << globals, local_undefined, errors, cmd >>,
           file' \in Nat, modno' \in Nat, l' \in Nat, L' \in Nat,
           modules' \in [DOMAIN modules' -> {"pending", "processed"}]
    PROVE  TypeOK'
<1>1. Tables /\ Collected
    BY TablesTyped
<1>2. DOMAIN IdentityRemap = Predefined /\ CODE \in Predefined /\ Predefined \subseteq Nat
    BY DEF IdentityRemap, Predefined, PAGE0, CODE, UDATA
<1>3. /\ remap_section' \in [DOMAIN remap_section' -> DOMAIN sections']
      /\ DOMAIN remap_section' \subseteq Nat /\ current' \in DOMAIN remap_section'
    BY <1>1, <1>2 DEF Enter, IdentityRemap, Tables, globals
<1>4. local_symbols' \in Seq(Symbol) /\ loaded' \in Seq(Module) /\ module' \in Module
    BY DEF Enter, TypeInv, TypeOK
<1> QED
    <2>1. Control
        BY Typed DEF TypeInv
    <2>2. Control'
        BY <1>3, <1>4, <2>1 DEF Enter, Control
    <2>3. Tables' /\ Collected'
        BY <1>1, <1>3, <1>4 DEF Tables, Collected, globals
    <2> QED
        BY <2>2, <2>3, Typed

LEMMA FileTypes == TypeInv /\ OneFile => TypeInv'
<1> SUFFICES ASSUME TypeInv, OneFile PROVE TypeInv'
    OBVIOUS
<1>0. /\ pc \notin Final /\ l = 0 /\ Control /\ Tables /\ Collected
    <2>1. pc \in {"file", "module"}
        BY DEF OneFile, FileRefused, FileIsLibrary, FileOpened, FileModule, FileDone,
               FilesDone, AtFile
    <2> QED
        BY <2>1, TablesTyped, Typed DEF Final, TypeInv, InputOpen
<1>1. ASSUME UNCHANGED << cmd, modules, frame, globals, i, local_undefined >>,
             pc' \in {"file", "module", "generate_end", "library"},
             file' \in Nat, modno' \in Nat, L' \in Nat, errors' \in Nat,
             l' = IF pc' = "library" THEN 1 ELSE 0,
             pc' = "module" => file' \in DOMAIN Files
      PROVE  TypeInv'
    <2>1. Control' /\ Tables' /\ Collected'
        BY <1>0, <1>1 DEF Control, Tables, Collected, frame, globals
    <2>2. InputOpen'
        BY <1>1 DEF InputOpen, Files
    <2> QED
        BY <2>1, <2>2, Typed DEF TypeInv
<1>2. CASE FileRefused
    BY <1>0, <1>1, <1>2 DEF FileRefused, AtFile, Control, Collected
<1>3. CASE FileIsLibrary
    BY <1>0, <1>1, <1>3 DEF FileIsLibrary, AtFile, Control, Collected
<1>4. CASE FileOpened
    BY <1>0, <1>1, <1>4 DEF FileOpened, AtFile, Control, Collected
<1>5. CASE FileModule
    <2>1. Files[file].mods[modno] \in Module
        <3>1. IsCommandLine(cmd)
            BY <1>0 DEF Control
        <3>2. Files[file] \in File
            <4>1. file \in DOMAIN Files
                BY <1>0, <1>5 DEF FileModule, TypeInv, InputOpen
            <4> QED
                BY <3>1, <4>1 DEF IsCommandLine, Files
        <3> QED
            BY <1>5, <3>2 DEF FileModule, HasModule, File
    <2>2. TypeOK'
        BY <1>0, <1>5, <2>1, EnterTypes DEF FileModule, Control
    <2>3. InputOpen'
        BY <1>0, <1>5 DEF FileModule, Enter, TypeInv, InputOpen, Files
    <2> QED
        BY <2>2, <2>3 DEF TypeInv
<1>6. CASE FileDone
    BY <1>0, <1>1, <1>6 DEF FileDone, Control, Collected
<1>7. CASE FilesDone
    BY <1>0, <1>1, <1>7 DEF FilesDone, Control, Collected
<1> QED
    BY <1>2, <1>3, <1>4, <1>5, <1>6, <1>7 DEF OneFile

LEMMA LibraryParts ==
    ASSUME TypeInv, l \in DOMAIN cmd.libs, L \in DOMAIN cmd.libs[l]
    PROVE  /\ Lib.mods \in Seq(Module) /\ DOMAIN Lib.mods \subseteq Nat
           /\ \A names : intersection(Lib.dict, names) \subseteq DOMAIN Lib.mods
<1>1. IsCommandLine(cmd)
    BY DEF TypeInv, TypeOK
<1>2. IsLibrary(Lib)
    BY <1>1 DEF IsCommandLine, Lib
<1> QED
    BY <1>2 DEF IsLibrary, intersection

LEMMA LibraryTypes == TypeInv /\ OneLibrary => TypeInv'
<1> SUFFICES ASSUME TypeInv, OneLibrary PROVE TypeInv'
    OBVIOUS
<1>0. pc \in {"library", "round"} /\ pc \notin Final /\ l # 0 /\ Control /\ Tables /\ Collected
    <2>1. pc \in {"library", "round"}
        BY DEF OneLibrary, LibraryMissing, LibraryNowhere, LibraryOpened, LibraryModule,
               LibraryRound, LibrariesDone, AtLibrary
    <2> QED
        BY <2>1, TablesTyped, Typed DEF Final, TypeInv, InputOpen
(* The steps between modules: the position moves, a round may begin.       *)
<1>1. ASSUME UNCHANGED << cmd, file, modno, frame, globals, i, errors >>,
             pc' \in {"library", "round", "resolved"}, l' \in Nat \ {0}, L' \in Nat,
             local_undefined' \subseteq Names,
             modules' \in [DOMAIN modules' -> {"pending", "processed"}],
             pc' = "round" => /\ l \in DOMAIN cmd.libs /\ L \in DOMAIN cmd.libs[l]
                              /\ l' = l /\ L' = L
                              /\ DOMAIN modules' \subseteq DOMAIN Lib.mods
      PROVE  TypeInv'
    <2>1. Control' /\ Tables' /\ Collected'
        BY <1>0, <1>1 DEF Control, Tables, Collected, frame, globals
    <2>2. InputOpen'
        BY <1>1 DEF InputOpen, Lib
    <2> QED
        BY <2>1, <2>2, Typed DEF TypeInv
<1>2. NextLibrary => l' \in Nat \ {0} /\ L' \in Nat /\ pc' \in {"library", "resolved"}
    BY <1>0 DEF NextLibrary, Control
<1>3. CASE LibraryMissing
    BY <1>0, <1>1, <1>3 DEF LibraryMissing, AtLibrary, Control, Collected
<1>4. CASE LibraryNowhere
    BY <1>0, <1>1, <1>2, <1>4 DEF LibraryNowhere, AtLibrary, Control, Collected
<1>5. CASE LibraryOpened
    <2> DEFINE wanted == intersection(Lib.dict, undefined_symbols)
    <2>1. l \in DOMAIN cmd.libs /\ L \in DOMAIN cmd.libs[l] /\ wanted \subseteq DOMAIN Lib.mods
        BY <1>5, LibraryParts DEF LibraryOpened, AtLibrary
    <2>2. UNCHANGED << cmd, file, modno, frame, globals, i, errors >>
        BY <1>5 DEF LibraryOpened
    <2>3. CASE NextLibrary /\ UNCHANGED << modules, local_undefined >>
        BY <1>0, <1>1, <1>2, <2>2, <2>3 DEF Control, Collected
    <2>4. CASE /\ modules' = [m \in wanted |-> "pending"] /\ local_undefined' = {}
               /\ pc' = "round" /\ UNCHANGED << l, L >>
        <3>1. /\ modules' \in [DOMAIN modules' -> {"pending", "processed"}]
              /\ DOMAIN modules' \subseteq DOMAIN Lib.mods
            BY <2>1, <2>4
        <3> QED
            BY <1>0, <1>1, <2>1, <2>2, <2>4, <3>1 DEF Control
    <2> QED
        BY <1>5, <2>3, <2>4 DEF LibraryOpened
<1>6. ASSUME pc = "round"
      PROVE  /\ l \in DOMAIN cmd.libs /\ L \in DOMAIN cmd.libs[l]
             /\ DOMAIN modules \subseteq DOMAIN Lib.mods
    BY <1>0, <1>6 DEF TypeInv, InputOpen
<1>7. CASE LibraryModule
    <2>1. PICK m \in Pending :
              /\ modules' = [modules EXCEPT ![m] = "processed"]
              /\ \/ Lib.mods[m].intact /\ Enter(Lib.mods[m])
                 \/ ~Lib.mods[m].intact /\ UNCHANGED << frame, pc, i >>
        BY <1>7 DEF LibraryModule
    <2>2. /\ pc = "round"
          /\ UNCHANGED << cmd, file, modno, l, L, globals, local_undefined, errors >>
        BY <1>7 DEF LibraryModule
    <2>3. m \in DOMAIN modules /\ Lib.mods[m] \in Module
        BY <1>6, <2>2, LibraryParts DEF Pending
    <2>4. /\ modules' \in [DOMAIN modules' -> {"pending", "processed"}]
          /\ DOMAIN modules' = DOMAIN modules
        BY <1>0, <2>1, <2>3 DEF Control
    <2>5. CASE Enter(Lib.mods[m])
        <3>1. TypeOK'
            BY <1>0, <2>2, <2>3, <2>4, <2>5, EnterTypes DEF Control
        <3>2. InputOpen'
            BY <1>0, <1>6, <2>2, <2>4, <2>5 DEF InputOpen, Enter, Lib
        <3> QED
            BY <3>1, <3>2 DEF TypeInv
    <2>6. CASE UNCHANGED << frame, pc, i >>
        BY <1>0, <1>1, <1>6, <2>2, <2>4, <2>6 DEF Control, Collected
    <2> QED
        BY <2>1, <2>5, <2>6
<1>8. CASE LibraryRound
    <2> DEFINE more == intersection(Lib.dict, local_undefined) \ DOMAIN modules
    <2>1. pc = "round" /\ UNCHANGED << cmd, file, modno, frame, globals, i, errors >>
        BY <1>8 DEF LibraryRound
    <2>2. more \subseteq DOMAIN Lib.mods
        BY <1>6, <2>1, LibraryParts
    <2>3. CASE NextLibrary /\ UNCHANGED << modules, local_undefined >>
        BY <1>0, <1>1, <1>2, <2>1, <2>3 DEF Control, Collected
    <2>4. CASE /\ modules' = [m \in DOMAIN modules \cup more |->
                                IF m \in more THEN "pending" ELSE modules[m]]
               /\ local_undefined' = {} /\ UNCHANGED << pc, l, L >>
        <3>1. /\ modules' \in [DOMAIN modules' -> {"pending", "processed"}]
              /\ DOMAIN modules' \subseteq DOMAIN Lib.mods
            BY <1>0, <1>6, <2>1, <2>2, <2>4 DEF Control
        <3> QED
            BY <1>0, <1>1, <1>6, <2>1, <2>4, <3>1 DEF Control
    <2> QED
        BY <1>8, <2>3, <2>4 DEF LibraryRound
<1>9. CASE LibrariesDone
    BY <1>0, <1>1, <1>9 DEF LibrariesDone, input, Control, Collected
<1> QED
    BY <1>3, <1>4, <1>5, <1>7, <1>8, <1>9 DEF OneLibrary

LEMMA AfterEndType ==
    ASSUME TypeInv, pc = "generate_end", NEW k \in DOMAIN symbols
    PROVE  AfterEnd(k) \in Symbol /\ AfterEnd(k).name = symbols[k].name
<1>1. /\ symbols[k] \in Symbol /\ symbols[k].name \in Names
      /\ sections \in Seq(Section)
    <2>1. symbols \in Seq(Symbol) /\ sections \in Seq(Section)
        BY TablesTyped DEF Tables, Final
    <2>2. symbols[k] \in Symbol
        BY <2>1
    <2> QED
        BY <2>1, <2>2 DEF Symbol
<1>2. ASSUME NEW v \in DOMAIN sections, NEW n \in Nat
      PROVE  Defined(symbols[k].name, v, n) \in Symbol
    BY <1>1 DEF Defined, Symbol
<1>3. CASE EndOf(k) # {}
    <2> DEFINE v == CHOOSE v \in EndOf(k) : TRUE
    <2>1. v \in DOMAIN sections
        BY <1>3 DEF EndOf
    <2>2. AfterEnd(k) = Defined(symbols[k].name, v, sections[v].size)
        BY <1>3 DEF AfterEnd
    <2>3. sections[v].size \in Nat
        BY <1>1, <2>1, SectionParts
    <2> HIDE DEF v
    <2> QED
        BY <1>2, <2>1, <2>2, <2>3 DEF Defined
<1>4. CASE EndOf(k) = {} /\ NamedAfter(symbols[k]) # {}
    <2> DEFINE v == CHOOSE v \in NamedAfter(symbols[k]) : TRUE
    <2>1. v \in DOMAIN sections
        BY <1>4 DEF NamedAfter
    <2>2. AfterEnd(k) = Defined(symbols[k].name, v, 0)
        BY <1>4 DEF AfterEnd
    <2> HIDE DEF v
    <2> QED
        BY <1>2, <2>1, <2>2 DEF Defined
<1> QED
    BY <1>1, <1>3, <1>4 DEF AfterEnd

LEMMA FinishTypes == TypeInv /\ Finish => TypeInv'
<1> SUFFICES ASSUME TypeInv, Finish PROVE TypeInv'
    OBVIOUS
<1>0. pc \in {"resolved", "generate_end", "simplify"} /\ pc \notin Final
      /\ Control /\ Tables /\ Collected
    <2>1. pc \in {"resolved", "generate_end", "simplify"}
        BY DEF Finish, CheckUndefined, generate_end, simplify
    <2> QED
        BY <2>1, TablesTyped, Typed DEF Final, TypeInv
<1>1. ASSUME pc' \in {"generate_end", "simplify", "unresolved", "linked"},
             Control', Tables', Collected'
      PROVE  TypeInv'
    BY <1>1, Typed DEF TypeInv, InputOpen
<1>2. CASE CheckUndefined
    <2>1. pc' \in {"unresolved", "generate_end"}
          /\ UNCHANGED << input, frame, globals, i, local_undefined, errors >>
        BY <1>2 DEF CheckUndefined
    <2>2. Control'
        BY <1>0, <2>1 DEF Control, input, frame, Final
    <2>3. Tables' /\ Collected'
        BY <1>0, <2>1 DEF Tables, Collected, frame, globals
    <2> QED
        BY <1>1, <2>1, <2>2, <2>3
<1>3. CASE generate_end
    <2>1. symbols' = [k \in DOMAIN symbols |-> AfterEnd(k)] /\ pc = "generate_end"
        BY <1>3 DEF generate_end
    <2>2. \A k \in DOMAIN symbols : AfterEnd(k) \in Symbol
        BY <2>1, AfterEndType
    <2>3. symbols' \in Seq(Symbol) /\ DOMAIN symbols' = DOMAIN symbols
        <3>1. symbols \in Seq(Symbol)
            BY <1>0 DEF Tables
        <3>2. symbols' \in [1 .. Len(symbols) -> Symbol] /\ DOMAIN symbols' = DOMAIN symbols
            BY <2>1, <2>2, <3>1
        <3> QED
            BY <3>1, <3>2
    <2>4. Tables'
        <3>1. /\ UNCHANGED << frame, sections, section_map, symbol_map >>
            BY <1>3 DEF generate_end
        <3> QED
            BY <1>0, <2>3, <3>1 DEF Tables, frame
    <2>5. Control' /\ Collected' /\ pc' = "simplify"
        <3>1. undefined_symbols' \subseteq Names
            <4> DEFINE named == {symbols[k].name : k \in
                                    {j \in DOMAIN symbols : NamedAfter(symbols[j]) # {}}}
            <4>1. undefined_symbols' = undefined_symbols \ named
                BY <1>3 DEF generate_end
            <4> HIDE DEF named
            <4> QED
                BY <1>0, <4>1 DEF Collected
        <3>2. pc' = "simplify" /\ UNCHANGED << input, frame, i, local_undefined, errors >>
            BY <1>3 DEF generate_end
        <3> QED
            BY <1>0, <3>1, <3>2 DEF Control, Collected, input, frame
    <2> QED
        BY <1>1, <2>4, <2>5
<1>4. CASE simplify
    <2>1. CASE Abort
        BY <1>0, <2>1, AbortTypes
    <2>2. CASE ~Abort
        <3>1. /\ DOMAIN sections' = DOMAIN sections /\ pc' = "linked"
              /\ UNCHANGED << input, frame, i, local_undefined, section_map, symbols,
                              symbol_map, undefined_symbols, errors >>
            BY <1>4, <2>2 DEF simplify
        <3>2. Control' /\ Collected'
            BY <1>0, <3>1 DEF Control, Collected, input, frame, Final
        <3>3. TypeOK'
            BY <1>0, <3>1, <3>2 DEF Control, Collected, Tables, TypeOK, frame
        <3> QED
            BY <3>1, <3>3 DEF TypeInv, InputOpen
    <2> QED
        BY <2>1, <2>2
<1> QED
    BY <1>2, <1>3, <1>4 DEF Finish

LEMMA StutterTypes == TypeInv /\ UNCHANGED vars => TypeInv'
BY DEF TypeInv, TypeOK, InputOpen, vars, Lib, Files

LEMMA NextTypes == TypeInv /\ [Next]_vars => TypeInv'
BY SectionTypes, SymbolTypes, RecordTypes, FileTypes, LibraryTypes, FinishTypes, StutterTypes
   DEF Next, Ended

(* In every reachable state of every link each variable has its type, and  *)
(* the indices of the input it reads are valid.                            *)
THEOREM InputStaysOpen == Spec => []TypeInv
<1>1. Init => TypeInv
    BY InitTypes
<1>2. TypeInv /\ [Next]_vars => TypeInv'
    BY NextTypes
<1> QED
    BY <1>1, <1>2, PTL DEF Spec

(* In every reachable state of every link each variable has its type.      *)
THEOREM TypeCorrect == Spec => []TypeOK
<1>1. TypeInv => TypeOK
    BY DEF TypeInv
<1> QED
    BY <1>1, InputStaysOpen, PTL
=============================================================================
