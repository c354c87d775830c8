----------------------------- MODULE BuildProofs -----------------------------
(***************************************************************************)
(* From the sections of a finished link to the segments of the file: every *)
(* byte gets where remap says, and no expression is lost on the way or     *)
(* gets in the way of another. These are theorems of the whole tool, which *)
(* starts from what the proofs of the linking phases establish.            *)
(***************************************************************************)
EXTENDS WdcTool, PlacementProofs

-----------------------------------------------------------------------------
(* What the linker hands over. *)

(* An expression and a section, whatever simplify() left on the stacks.    *)
IsExpression(e) ==
    /\ e = [section |-> e.section, offset |-> e.offset, size |-> e.size,
            relative |-> e.relative, stack |-> e.stack, undefined |-> e.undefined,
            by |-> e.by, source |-> e.source]
    /\ e.offset \in Nat /\ e.size \in Nat

IsSection(s) ==
    /\ s = [name |-> s.name, flags |-> s.flags, size |-> s.size, data |-> s.data,
            expressions |-> s.expressions, end_symbol |-> s.end_symbol]
    /\ s.size \in Nat /\ s.data \in Seq(Byte)
    /\ \E m \in Nat : DOMAIN s.expressions = 1 .. m
    /\ \A j \in DOMAIN s.expressions : IsExpression(s.expressions[j])

Flagged(S) == \A v \in Predefined : v \in DOMAIN S /\ S[v].flags = PredefinedFlags[v]

Handed(S) ==
    /\ \E m \in Nat : DOMAIN S = 1 .. m
    /\ Flagged(S)
    /\ \A v \in DOMAIN S : IsSection(S[v]) /\ WellPatched(S[v], v)

LEMMA FlagsKept ==
    ASSUME TypeInv, [Next]_vars, Flagged(sections)
    PROVE  Flagged(sections')
<1>1. CASE UNCHANGED sections
    BY <1>1
<1>2. CASE OneSection
    <2>0. sections \in Seq(Section)
        BY <1>2, PhaseOf, TablesTyped DEF Final, TypeInv, TypeOK
    <2>1. CASE SectionPredefined
        BY <2>0, <2>1 DEF SectionPredefined, Section, Flagged
    <2>2. CASE SectionNew
        <3>1. PICK s : sections' = Append(sections, s)
            BY <2>2 DEF SectionNew
        <3>2. \A v \in DOMAIN sections : v \in DOMAIN sections' /\ sections'[v] = sections[v]
            BY <2>0, <3>1
        <3> QED
            BY <3>2 DEF Flagged
    <2>3. CASE SectionKnown
        <3>1. CASE Abort
            BY <1>1, <3>1 DEF Abort, globals
        <3>2. CASE ~Abort
            <4>1. PICK v : sections' = [sections EXCEPT ![v].size = @ + Sec.size]
                BY <2>3, <3>2 DEF SectionKnown
            <4> QED
                BY <2>0, <4>1 DEF Section, Flagged
        <3> QED
            BY <3>1, <3>2
    <2>4. CASE SectionsDone
        BY <1>1, <2>4 DEF SectionsDone, globals
    <2> QED
        BY <1>2, <2>1, <2>2, <2>3, <2>4 DEF OneSection
<1>3. CASE OneSymbol
    BY <1>1, <1>3, SymbolCases DEF Abort, SymbolsDone, globals
<1>4. CASE OneRecord
    <2>1. CASE Adding /\ pc' # "aborted"
        <3>0. sections \in Seq(Section) /\ \A v \in DOMAIN sections : sections[v] \in Section
            BY <2>1, RecordsAdd
        <3>1. CASE RecordData
            BY <3>0, <3>1 DEF RecordData, Section, Flagged
        <3>2. CASE RecordExpression
            <4>1. sections' = [sections EXCEPT
                     ![current_section].data = @ \o Bytes(Rec.n),
                     ![current_section].expressions = Append(@, NewExpression(Rec))]
                BY <2>1, <3>2 DEF RecordExpression, Abort
            <4> QED
                BY <3>0, <4>1 DEF Section, Flagged
        <3> QED
            BY <2>1, <3>1, <3>2 DEF Adding
    <2>2. CASE Adding /\ pc' = "aborted"
        BY <1>1, <2>2, Endings DEF Abort, globals, vars
    <2>3. CASE ~Adding
        BY <1>1, <1>4, <2>3 DEF OneRecord, RecordSection, RecordOrg, RecordSkipped,
                                RecordsDone, Abort, globals, Adding
    <2> QED
        BY <2>1, <2>2, <2>3
<1>5. CASE OneFile
    BY <1>1, <1>5 DEF OneFile, FileRefused, FileIsLibrary, FileOpened, FileModule,
                      FileDone, FilesDone, globals
<1>6. CASE OneLibrary
    BY <1>1, <1>6 DEF OneLibrary, LibraryMissing, LibraryNowhere, LibraryOpened,
                      LibraryModule, LibraryRound, LibrariesDone, globals
<1>7. CASE simplify /\ pc' = "linked"
    <2>1. ASSUME NEW v \in DOMAIN sections PROVE sections'[v].flags = sections[v].flags
        BY <1>7, SimplifiedSections DEF Section
    <2> QED
        BY <1>7, <2>1, SimplifiedSections DEF Flagged
<1>8. CASE Finish /\ ~(simplify /\ pc' = "linked")
    BY <1>1, <1>8 DEF Finish, CheckUndefined, generate_end, simplify, Abort, globals
<1> QED
    BY <1>1, <1>2, <1>3, <1>4, <1>5, <1>6, <1>7, <1>8 DEF Next, Ended, vars, Finish

LEMMA IsSimplified ==
    ASSUME NEW e \in Expression
    PROVE  IsExpression(Simplified(e))
<1>1. PICK f : f = Resolved(e)
    OBVIOUS
<1>2. /\ f = [section |-> e.section, offset |-> e.offset, size |-> e.size,
              relative |-> e.relative, stack |-> f.stack, undefined |-> f.undefined,
              by |-> e.by, source |-> e.source]
    BY <1>1 DEF Resolved, Expression
<1>3. Simplified(e) = [f EXCEPT !.stack = Folded(f.stack).v]
    BY <1>1, <1>2 DEF Simplified
<1>4. PICK w : w = Folded(f.stack).v
    OBVIOUS
<1>5. Simplified(e) = [section |-> e.section, offset |-> e.offset, size |-> e.size,
              relative |-> e.relative, stack |-> w, undefined |-> f.undefined,
              by |-> e.by, source |-> e.source]
    BY <1>2, <1>3, <1>4
<1>6. e.offset \in Nat /\ e.size \in Nat
    BY DEF Expression
<1> QED
    BY <1>5, <1>6 DEF IsExpression

LEMMA Handing ==
    ASSUME TypeInv, PatchesInv, Flagged(sections), simplify, pc' = "linked"
    PROVE  Handed(sections')
<1>0. [Next]_vars
    BY DEF Next, Finish
<1>1. /\ sections \in Seq(Section) /\ DOMAIN sections' = DOMAIN sections
      /\ \A v \in DOMAIN sections : sections[v] \in Section
    BY SimplifiedSections
<1>2. \E m \in Nat : DOMAIN sections' = 1 .. m
    BY <1>1
<1>3. Flagged(sections') /\ PatchesInv'
    BY <1>0, FlagsKept, NextPatches
<1>4. ASSUME NEW v \in DOMAIN sections'
      PROVE  IsSection(sections'[v]) /\ WellPatched(sections'[v], v)
    <2>1. v \in DOMAIN sections
        BY <1>1
    <2> SUFFICES ASSUME NEW s, s = sections[v], NEW t, t = sections'[v]
                 PROVE  IsSection(t) /\ WellPatched(t, v)
        OBVIOUS
    <2>2. /\ s \in Section /\ t.data = s.data
          /\ t = [s EXCEPT !.expressions = [j \in DOMAIN @ |-> Simplified(@[j])]]
          /\ DOMAIN t.expressions = DOMAIN s.expressions
          /\ \A j \in DOMAIN s.expressions : t.expressions[j] = Simplified(s.expressions[j])
        BY <2>1, SimplifiedSections
    <2>3. PICK x : t = [s EXCEPT !.expressions = x]
        BY <2>2
    <2>4. t = [name |-> s.name, flags |-> s.flags, size |-> s.size, data |-> s.data,
               expressions |-> x, end_symbol |-> s.end_symbol]
        BY <2>2, <2>3 DEF Section
    <2>5. \E m \in Nat : DOMAIN t.expressions = 1 .. m
        <3>1. s.expressions \in Seq(Expression) /\ Len(s.expressions) \in Nat
            BY <2>2, SectionParts
        <3>2. DOMAIN s.expressions = 1 .. Len(s.expressions)
            BY <3>1
        <3> QED
            BY <2>2, <3>1, <3>2
    <2>6. ASSUME NEW j \in DOMAIN t.expressions PROVE IsExpression(t.expressions[j])
        <3>1. s.expressions[j] \in Expression
            BY <2>2, SectionParts
        <3> QED
            BY <2>2, <3>1, IsSimplified
    <2>7. WellPatched(t, v)
        BY <1>1, <1>3 DEF PatchesInv
    <2>8. s.size \in Nat /\ s.data \in Seq(Byte)
        BY <2>2, SectionParts
    <2> QED
        BY <2>4, <2>5, <2>6, <2>7, <2>8 DEF IsSection
<1> QED
    BY <1>2, <1>3, <1>4 DEF Handed

-----------------------------------------------------------------------------
(* The steps of build_omf_segments(). *)

Going == step \in {"merge", "data", "own", "convert", "to_omf", "built"}

ToOmf ==
    \/ Build!EmptyExpression \/ Build!PatchBranch \/ Build!PatchConstant
    \/ Build!Relocate \/ Build!RelocateOther \/ Build!ShiftTooLarge \/ Build!Refuse

LEMMA BuildCases ==
    ASSUME Build!BuildNext
    PROVE  /\ step \in {"code", "merge", "data", "own", "convert", "to_omf"}
           /\ step = "code" => Build!CodeSegment
           /\ step = "merge" => Build!MergeData
           /\ step = "data" => Build!DataSection \/ Build!SkipSection \/ Build!Udata
           /\ step = "own" => Build!SkipSection \/ Build!OwnSegment \/ Build!StackSegment
           /\ step = "convert" => \/ Build!Adjust \/ Build!ConversionDies
                                  \/ Build!NextExpressions \/ Build!Built
           /\ step = "to_omf" => Build!ConversionDies \/ ToOmf
<1>1. /\ Build!CodeSegment => step = "code"
      /\ Build!MergeData => step = "merge"
      /\ Build!DataSection => step = "data"
      /\ Build!SkipSection => step \in {"data", "own"}
      /\ Build!Udata => step = "data"
      /\ Build!OwnSegment => step = "own"
      /\ Build!StackSegment => step = "own"
    BY DEF Build!CodeSegment, Build!MergeData, Build!DataSection, Build!SkipSection,
           Build!Udata, Build!OwnSegment, Build!StackSegment
<1>2. /\ Build!Adjust => step = "convert"
      /\ Build!ConversionDies => step \in {"convert", "to_omf"}
      /\ Build!NextExpressions => step = "convert"
      /\ Build!Built => step = "convert"
    BY DEF Build!Adjust, Build!ConversionDies, Build!NextExpressions, Build!Built,
           Build!AtExpression
<1>3. ToOmf => step = "to_omf"
    BY DEF ToOmf, Build!Converting, Build!EmptyExpression, Build!PatchBranch,
           Build!PatchConstant, Build!Relocate, Build!RelocateOther,
           Build!ShiftTooLarge, Build!Refuse
<1>4. \/ Build!CodeSegment \/ Build!MergeData \/ Build!DataSection \/ Build!SkipSection
      \/ Build!Udata \/ Build!OwnSegment \/ Build!StackSegment \/ Build!Adjust
      \/ Build!ConversionDies \/ Build!NextExpressions \/ Build!Built \/ ToOmf
    BY DEF Build!BuildNext, ToOmf
<1> HIDE DEF ToOmf
<1> QED
    BY <1>1, <1>2, <1>3, <1>4

(* A list of records that have no type of their own. *)
IsSequence(s) == s \in Seq({s[k] : k \in DOMAIN s})

LEMMA SequenceOf ==
    ASSUME NEW A, NEW s \in Seq(A)
    PROVE  IsSequence(s)
<1>1. s \in [1 .. Len(s) -> {s[k] : k \in DOMAIN s}] /\ Len(s) \in Nat
    OBVIOUS
<1> QED
    BY <1>1 DEF IsSequence

LEMMA OneMore ==
    ASSUME NEW s, IsSequence(s), NEW e, NEW t, t = Append(s, e)
    PROVE  /\ IsSequence(t) /\ Len(s) \in Nat /\ Len(t) = Len(s) + 1
           /\ DOMAIN s = 1 .. Len(s) /\ DOMAIN t = 1 .. Len(s) + 1
           /\ t[Len(s) + 1] = e
           /\ \A k \in DOMAIN s : t[k] = s[k]
<1> DEFINE A == {s[k] : k \in DOMAIN s} \cup {e}
<1>1. s \in [1 .. Len(s) -> A] /\ Len(s) \in Nat
    BY DEF IsSequence
<1>2. s \in Seq(A) /\ e \in A
    BY <1>1
<1> HIDE DEF A
<1>3. /\ t \in Seq(A) /\ Len(s) \in Nat /\ Len(t) = Len(s) + 1
      /\ DOMAIN s = 1 .. Len(s) /\ DOMAIN t = 1 .. Len(s) + 1
      /\ t[Len(s) + 1] = e
      /\ \A k \in DOMAIN s : t[k] = s[k]
    BY <1>2
<1> QED
    BY <1>3, SequenceOf

LEMMA OneReplaced ==
    ASSUME NEW s, IsSequence(s), NEW g, NEW e, NEW t, t = [s EXCEPT ![g] = e]
    PROVE  /\ IsSequence(t) /\ Len(s) \in Nat /\ Len(t) = Len(s) /\ DOMAIN t = DOMAIN s
           /\ DOMAIN s = 1 .. Len(s)
           /\ g \in DOMAIN s => t[g] = e
           /\ \A k \in DOMAIN s : k # g => t[k] = s[k]
<1> DEFINE A == {s[k] : k \in DOMAIN s} \cup {e}
<1>1. s \in [1 .. Len(s) -> A] /\ Len(s) \in Nat
    BY DEF IsSequence
<1>2. s \in Seq(A) /\ e \in A
    BY <1>1
<1> HIDE DEF A
<1>3. DOMAIN s = 1 .. Len(s) /\ Len(s) \in Nat /\ \A k \in DOMAIN s : s[k] \in A
    BY <1>2
<1>4. t = [k \in 1 .. Len(s) |-> IF k = g THEN e ELSE s[k]]
    BY <1>3
<1>5. t \in [1 .. Len(s) -> A]
    BY <1>2, <1>3, <1>4
<1>6. t \in Seq(A) /\ Len(t) = Len(s) /\ DOMAIN t = DOMAIN s
    BY <1>3, <1>5
<1>7. IsSequence(t)
    BY <1>6, SequenceOf
<1> QED
    BY <1>3, <1>4, <1>6, <1>7

(* The segments. *)
Kinds == {"patches", "relocs", "intersegs"}

IsSegment(s) ==
    /\ s = [segnum |-> s.segnum, kind |-> s.kind, name |-> s.name, data |-> s.data,
            patches |-> s.patches, relocs |-> s.relocs, intersegs |-> s.intersegs]
    /\ s.data \in Seq(Byte)
    /\ \A c \in Kinds : IsSequence(s[c])

Segments(o) == IsSequence(o) /\ \A g \in DOMAIN o : IsSegment(o[g])

LEMMA NewSegment ==
    ASSUME NEW number, NEW kind, NEW name, NEW d \in Seq(Byte)
    PROVE  IsSegment(Build!Segment(number, kind, name, d))
<1>0. PICK s : s = Build!Segment(number, kind, name, d)
    OBVIOUS
<1>1. s = [segnum |-> number, kind |-> kind, name |-> name, data |-> d,
           patches |-> << >>, relocs |-> << >>, intersegs |-> << >>]
    BY <1>0 DEF Build!Segment
<1>2. s.data = d /\ \A c \in Kinds : s[c] = << >>
    BY <1>1 DEF Kinds
<1>3. IsSequence(<< >>)
    BY DEF IsSequence
<1>4. IsSegment(s)
    BY <1>1, <1>2, <1>3 DEF IsSegment
<1> QED
    BY <1>0, <1>4

LEMMA NewParts ==
    ASSUME NEW number, NEW kind, NEW name, NEW d
    PROVE  \A c \in Kinds : Build!Segment(number, kind, name, d)[c] = << >>
BY DEF Build!Segment, Kinds

LEMMA SegmentAdded ==
    ASSUME NEW o, Segments(o), NEW s, IsSegment(s), NEW p, p = Append(o, s)
    PROVE  /\ Segments(p) /\ Len(o) \in Nat /\ Len(p) = Len(o) + 1
           /\ DOMAIN o = 1 .. Len(o) /\ DOMAIN p = 1 .. Len(o) + 1
           /\ p[Len(o) + 1] = s /\ \A g \in DOMAIN o : p[g] = o[g]
<1>1. IsSequence(o)
    BY DEF Segments
<1>2. /\ IsSequence(p) /\ Len(o) \in Nat /\ Len(p) = Len(o) + 1
      /\ DOMAIN o = 1 .. Len(o) /\ DOMAIN p = 1 .. Len(o) + 1
      /\ p[Len(o) + 1] = s /\ \A g \in DOMAIN o : p[g] = o[g]
    <2>1. IsSequence(p)
        BY <1>1, OneMore
    <2>2. Len(o) \in Nat /\ DOMAIN o = 1 .. Len(o)
        BY <1>1, OneMore
    <2>3. Len(p) = Len(o) + 1
        BY <1>1, OneMore
    <2>4. DOMAIN p = 1 .. Len(o) + 1
        BY <1>1, OneMore
    <2>5. p[Len(o) + 1] = s
        BY <1>1, OneMore
    <2>6. \A g \in DOMAIN o : p[g] = o[g]
        BY <1>1, OneMore
    <2> QED
        BY <2>1, <2>2, <2>3, <2>4, <2>5, <2>6
<1>3. \A g \in DOMAIN p : IsSegment(p[g])
    BY <1>2 DEF Segments
<1> QED
    BY <1>2, <1>3 DEF Segments

(* Bytes at the end of a segment. *)
Longer(o, g, b, p) == p = [o EXCEPT ![g].data = @ \o b]

LEMMA DataAdded ==
    ASSUME NEW o, Segments(o), NEW g \in DOMAIN o, NEW b \in Seq(Byte),
           NEW p, Longer(o, g, b, p)
    PROVE  /\ Segments(p) /\ DOMAIN p = DOMAIN o
           /\ p[g].data = o[g].data \o b
           /\ \A c \in Kinds : p[g][c] = o[g][c]
           /\ \A h \in DOMAIN o : h # g => p[h] = o[h]
<1>0. PICK s : s = o[g]
    OBVIOUS
<1>1. IsSegment(s) /\ s.data \in Seq(Byte)
    BY <1>0 DEF Segments, IsSegment
<1>2. PICK t : t = [s EXCEPT !.data = s.data \o b]
    OBVIOUS
<1>3. p = [o EXCEPT ![g] = t]
    BY <1>0, <1>2 DEF Longer
<1>4. PICK d : d = s.data \o b
    OBVIOUS
<1>5. d \in Seq(Byte)
    BY <1>1, <1>4
<1>6. t = [segnum |-> s.segnum, kind |-> s.kind, name |-> s.name, data |-> d,
           patches |-> s.patches, relocs |-> s.relocs, intersegs |-> s.intersegs]
    BY <1>1, <1>2, <1>4 DEF IsSegment
<1>7. t.data = d /\ \A c \in Kinds : t[c] = s[c]
    BY <1>6 DEF Kinds
<1>8. IsSegment(t)
    BY <1>1, <1>5, <1>6, <1>7 DEF IsSegment
<1>9. /\ IsSequence(p) /\ DOMAIN p = DOMAIN o /\ p[g] = t
      /\ \A h \in DOMAIN o : h # g => p[h] = o[h]
    BY <1>3, OneReplaced DEF Segments
<1>10. \A h \in DOMAIN p : IsSegment(p[h])
    BY <1>8, <1>9 DEF Segments
<1> QED
    BY <1>0, <1>4, <1>7, <1>9, <1>10 DEF Segments

(* A record at the end of one of the lists. *)
Listed(o, g, c, r, p) == p = [o EXCEPT ![g] = [o[g] EXCEPT ![c] = Append(@, r)]]

LEMMA RecordAdded ==
    ASSUME NEW o, Segments(o), NEW g \in DOMAIN o, NEW c \in Kinds, NEW r,
           NEW p, Listed(o, g, c, r, p)
    PROVE  /\ Segments(p) /\ DOMAIN p = DOMAIN o
           /\ p[g].data = o[g].data
           /\ p[g][c] = Append(o[g][c], r)
           /\ \A d \in Kinds : d # c => p[g][d] = o[g][d]
           /\ \A h \in DOMAIN o : h # g => p[h] = o[h]
<1>0. PICK s : s = o[g]
    OBVIOUS
<1>1. IsSegment(s) /\ s.data \in Seq(Byte) /\ IsSequence(s[c])
    BY <1>0 DEF Segments, IsSegment
<1>2. PICK q : q = Append(s[c], r)
    OBVIOUS
<1>3. IsSequence(q)
    BY <1>1, <1>2, OneMore
<1>4. PICK t : t = [s EXCEPT ![c] = q]
    OBVIOUS
<1>5. p = [o EXCEPT ![g] = t]
    BY <1>0, <1>2, <1>4 DEF Listed
<1>6. DOMAIN s = {"segnum", "kind", "name", "data"} \cup Kinds
    BY <1>1 DEF IsSegment, Kinds
<1>7. t.data = s.data /\ t[c] = q /\ \A d \in Kinds : d # c => t[d] = s[d]
    BY <1>4, <1>6 DEF Kinds
<1>8. t = [segnum |-> t.segnum, kind |-> t.kind, name |-> t.name, data |-> t.data,
           patches |-> t.patches, relocs |-> t.relocs, intersegs |-> t.intersegs]
    BY <1>4, <1>6 DEF Kinds
<1>9. IsSegment(t)
    BY <1>1, <1>3, <1>7, <1>8 DEF IsSegment
<1>10. /\ IsSequence(p) /\ DOMAIN p = DOMAIN o /\ p[g] = t
       /\ \A h \in DOMAIN o : h # g => p[h] = o[h]
    BY <1>5, OneReplaced DEF Segments
<1>11. \A h \in DOMAIN p : IsSegment(p[h])
    BY <1>9, <1>10 DEF Segments
<1> QED
    BY <1>0, <1>2, <1>7, <1>10, <1>11 DEF Segments

-----------------------------------------------------------------------------
(* The sections, which are emptied and whose expressions are adjusted.     *)

LEMMA Emptied ==
    ASSUME NEW S, NEW w \in DOMAIN S, IsSection(S[w]), NEW T, T = [S EXCEPT ![w].data = << >>]
    PROVE  /\ DOMAIN T = DOMAIN S /\ IsSection(T[w])
           /\ T[w].flags = S[w].flags /\ T[w].size = S[w].size
           /\ T[w].expressions = S[w].expressions
           /\ \A v \in DOMAIN S : v # w => T[v] = S[v]
<1>1. PICK s : s = S[w]
    OBVIOUS
<1>2. PICK t : t = [s EXCEPT !.data = << >>]
    OBVIOUS
<1>3. /\ DOMAIN T = DOMAIN S /\ T[w] = t
      /\ \A v \in DOMAIN S : v # w => T[v] = S[v]
    BY <1>1, <1>2
<1>4. t = [name |-> s.name, flags |-> s.flags, size |-> s.size, data |-> << >>,
           expressions |-> s.expressions, end_symbol |-> s.end_symbol]
    BY <1>1, <1>2 DEF IsSection
<1>5. IsSection(t)
    BY <1>1, <1>4 DEF IsSection
<1> QED
    BY <1>1, <1>3, <1>4, <1>5

LEMMA ExpressionSet ==
    ASSUME NEW S, NEW w \in DOMAIN S, IsSection(S[w]), NEW j \in DOMAIN S[w].expressions,
           NEW e, IsExpression(e), NEW T, T = [S EXCEPT ![w].expressions[j] = e]
    PROVE  /\ DOMAIN T = DOMAIN S /\ IsSection(T[w])
           /\ T[w].flags = S[w].flags /\ T[w].size = S[w].size /\ T[w].data = S[w].data
           /\ DOMAIN T[w].expressions = DOMAIN S[w].expressions
           /\ T[w].expressions[j] = e
           /\ \A i1 \in DOMAIN S[w].expressions :
                  i1 # j => T[w].expressions[i1] = S[w].expressions[i1]
           /\ \A v \in DOMAIN S : v # w => T[v] = S[v]
<1>1. PICK s : s = S[w]
    OBVIOUS
<1>2. PICK x : x = [s.expressions EXCEPT ![j] = e]
    OBVIOUS
<1>3. PICK t : t = [s EXCEPT !.expressions = x]
    OBVIOUS
<1>4. /\ DOMAIN T = DOMAIN S /\ T[w] = t
      /\ \A v \in DOMAIN S : v # w => T[v] = S[v]
    BY <1>1, <1>2, <1>3
<1>5. t = [name |-> s.name, flags |-> s.flags, size |-> s.size, data |-> s.data,
           expressions |-> x, end_symbol |-> s.end_symbol]
    BY <1>1, <1>3 DEF IsSection
<1>6. /\ DOMAIN x = DOMAIN s.expressions /\ x[j] = e
      /\ \A i1 \in DOMAIN s.expressions : i1 # j => x[i1] = s.expressions[i1]
    BY <1>1, <1>2
<1>7. /\ \E m \in Nat : DOMAIN x = 1 .. m
      /\ \A i1 \in DOMAIN x : IsExpression(x[i1])
    BY <1>1, <1>6 DEF IsSection
<1>8. /\ t.name = s.name /\ t.flags = s.flags /\ t.size = s.size /\ t.data = s.data
      /\ t.expressions = x /\ t.end_symbol = s.end_symbol
    BY <1>5
<1>9. IsSection(t)
    <2>1. s.size \in Nat /\ s.data \in Seq(Byte)
        BY <1>1 DEF IsSection
    <2> QED
        BY <1>5, <1>7, <1>8, <2>1 DEF IsSection
<1> QED
    BY <1>1, <1>4, <1>6, <1>8, <1>9

Alike(v) ==
    /\ IsSection(sections[v])
    /\ sections[v].flags = linked[v].flags /\ sections[v].size = linked[v].size
    /\ DOMAIN sections[v].expressions = DOMAIN linked[v].expressions

(* What a turn of to_omf() does: a record that patches or relocates the    *)
(* bytes of the expression, or a complaint that counts, but for the two    *)
(* kinds of expression that need neither.                                  *)
Recorded(c, r) ==
    /\ r.offset = Build!E.offset /\ r.size = Build!E.size
    /\ omf_segments' = [omf_segments EXCEPT ![remap[at].segnum] =
                           [omf_segments[remap[at].segnum] EXCEPT ![c] = Append(@, r)]]

Needless(e) ==
    \/ e.size = 0
    \/ Len(e.stack) = 3 /\ e.stack[2].value > MaxShift

LEMMA NoDepth == ~Build!Printable(<< >>)
<1>1. {k \in 1 .. 0 : << >>[k].tag \in Build!Operands} = {}
    OBVIOUS
<1>2. {k \in 1 .. 0 : << >>[k].tag \in Build!BinaryOps} = {}
    OBVIOUS
<1>3. Build!Cardinality({}) = Cardinality({}) /\ Cardinality({}) = 0
    BY FS_EmptySet DEF Build!Cardinality, Cardinality
<1>4. Build!Depth(<< >>, 0) = 0
    BY <1>1, <1>2, <1>3 DEF Build!Depth
<1>5. Len(<< >>) = 0
    OBVIOUS
<1> QED
    BY <1>4, <1>5 DEF Build!Printable

LEMMA Conversions ==
    ASSUME ToOmf, errors \in Nat, Build!E.size \in Nat
    PROVE  /\ step' = "convert" /\ item' = item + 1 /\ remap[at].segnum # 0
           /\ UNCHANGED << sections, at, remap, data_segment >>
           /\ errors' \in Nat /\ errors' >= errors
           /\ \/ \E c \in Kinds : \E r : Recorded(c, r)
              \/ UNCHANGED omf_segments /\ (Needless(Build!E) \/ errors' > errors)
<1>1. PICK e : e = Build!E
    OBVIOUS
<1>2. /\ Build!TooWide(e) \in {0, 1} /\ Build!Complaint(TRUE, e) = 1
      /\ Build!Complaint(FALSE, e) \in {0, 1}
      /\ e.stack = << >> => Build!Complaint(FALSE, e) = 1
    BY NoDepth DEF Build!TooWide, Build!Complaint
<1>a. /\ Build!TooWide(e) \in Nat /\ Build!Complaint(FALSE, e) \in Nat
      /\ Build!Complaint(TRUE, e) + Build!TooWide(e) \in Nat
      /\ Build!Complaint(FALSE, e) + Build!TooWide(e) \in Nat
      /\ Build!Complaint(TRUE, e) + Build!TooWide(e) > 0
    <2>1. \A x, y \in {0, 1} : x \in Nat /\ x + y \in Nat /\ 1 + y > 0 /\ 1 + y \in Nat
        OBVIOUS
    <2> QED
        BY <1>2, <2>1, Zenon
<1>3. \A n \in Nat : Build!ConvertNext(n) =>
          /\ step' = "convert" /\ item' = item + 1
          /\ UNCHANGED << sections, at, remap, data_segment >>
          /\ errors' \in Nat /\ errors' >= errors /\ (n > 0 => errors' > errors)
    BY DEF Build!ConvertNext
<1>4. Build!Converting => remap[at].segnum # 0
    BY DEF Build!Converting
<1>5. CASE Build!EmptyExpression
    <2>1. /\ Build!Converting /\ (e.stack = << >> \/ e.size = 0)
          /\ Build!ConvertNext(Build!Complaint(FALSE, e)) /\ UNCHANGED omf_segments
        BY <1>1, <1>5 DEF Build!EmptyExpression
    <2>2. e.stack = << >> => errors' > errors
        <3>1. 1 \in Nat /\ 1 > 0
            OBVIOUS
        <3> QED
            BY <1>2, <1>3, <2>1, <3>1, Zenon
    <2> QED
        BY <1>1, <1>a, <1>3, <1>4, <2>1, <2>2 DEF Needless
<1>6. CASE Build!ShiftTooLarge
    <2>1. /\ Build!Converting /\ Len(e.stack) = 3 /\ e.stack[2].value > MaxShift
          /\ Build!ConvertNext(Build!Complaint(FALSE, e) + Build!TooWide(e))
          /\ UNCHANGED omf_segments
        BY <1>1, <1>6 DEF Build!ShiftTooLarge, Build!Shifted
    <2> QED
        BY <1>1, <1>3, <1>4, <1>a, <2>1 DEF Needless
<1>7. CASE Build!Refuse
    <2>1. /\ Build!Converting /\ UNCHANGED omf_segments
          /\ Build!ConvertNext(Build!Complaint(TRUE, e) + Build!TooWide(e))
        BY <1>1, <1>7 DEF Build!Refuse
    <2> QED
        BY <1>3, <1>4, <1>a, <2>1
<1>8. ASSUME NEW c \in Kinds, NEW r, r.offset = e.offset, r.size = e.size,
             Build!Update([Build!Seg EXCEPT ![c] = Append(@, r)])
      PROVE  Recorded(c, r)
    BY <1>1, <1>8 DEF Recorded, Build!Update, Build!Seg
<1>9. CASE Build!PatchBranch
    <2>1. PICK r : r = Build!Patch(e, Build!Distance(e))
        OBVIOUS
    <2>2. r.offset = e.offset /\ r.size = e.size
        BY <2>1 DEF Build!Patch
    <2>3. Build!Converting /\ Build!ConvertNext(Build!TooWide(e))
        BY <1>1, <1>9 DEF Build!PatchBranch
    <2>4. Build!Update([Build!Seg EXCEPT !["patches"] = Append(@, r)])
        BY <1>1, <1>9, <2>1 DEF Build!PatchBranch
    <2>5. Recorded("patches", r)
        BY <1>8, <2>2, <2>4 DEF Kinds
    <2> QED
        BY <1>3, <1>4, <1>a, <2>3, <2>5 DEF Kinds
<1>10. CASE Build!PatchConstant
    <2>1. PICK r : r = Build!Patch(e, Build!Target(e).value)
        OBVIOUS
    <2>2. r.offset = e.offset /\ r.size = e.size
        BY <2>1 DEF Build!Patch
    <2>3. Build!Converting /\ Build!ConvertNext(Build!TooWide(e))
        BY <1>1, <1>10 DEF Build!PatchConstant
    <2>4. Build!Update([Build!Seg EXCEPT !["patches"] = Append(@, r)])
        BY <1>1, <1>10, <2>1 DEF Build!PatchConstant
    <2>5. Recorded("patches", r)
        BY <1>8, <2>2, <2>4 DEF Kinds
    <2> QED
        BY <1>3, <1>4, <1>a, <2>3, <2>5 DEF Kinds
<1>11. CASE Build!Relocate
    <2>1. PICK r : r = Build!Reloc(e)
        OBVIOUS
    <2>2. r.offset = e.offset /\ r.size = e.size
        BY <2>1 DEF Build!Reloc
    <2>3. Build!Converting /\ Build!ConvertNext(Build!TooWide(e))
        BY <1>1, <1>11 DEF Build!Relocate
    <2>4. Build!Update([Build!Seg EXCEPT !["relocs"] = Append(@, r)])
        BY <1>1, <1>11, <2>1 DEF Build!Relocate
    <2>5. Recorded("relocs", r)
        BY <1>8, <2>2, <2>4 DEF Kinds
    <2> QED
        BY <1>3, <1>4, <1>a, <2>3, <2>5 DEF Kinds
<1>12. CASE Build!RelocateOther
    <2>1. PICK r : r = Build!InterSeg(e)
        OBVIOUS
    <2>2. r.offset = e.offset /\ r.size = e.size
        BY <2>1 DEF Build!InterSeg
    <2>3. Build!Converting /\ Build!ConvertNext(Build!TooWide(e))
        BY <1>1, <1>12 DEF Build!RelocateOther
    <2>4. Build!Update([Build!Seg EXCEPT !["intersegs"] = Append(@, r)])
        BY <1>1, <1>12, <2>1 DEF Build!RelocateOther
    <2>5. Recorded("intersegs", r)
        BY <1>8, <2>2, <2>4 DEF Kinds
    <2> QED
        BY <1>3, <1>4, <1>a, <2>3, <2>5 DEF Kinds
<1> QED
    BY <1>5, <1>6, <1>7, <1>9, <1>10, <1>11, <1>12 DEF ToOmf

-----------------------------------------------------------------------------
(* What the steps start from, and the shape of what they make.             *)

Ready ==
    /\ step # "code" => pc = "linked"
    /\ step = "code" =>
           /\ TypeInv /\ PatchesInv /\ Flagged(sections)
           /\ at = 1 /\ item = 1 /\ data_segment = 1
           /\ pc = "linked" => linked = sections /\ Handed(sections)

Shape ==
    Going =>
        /\ Handed(linked) /\ DOMAIN sections = DOMAIN linked
        /\ \A v \in DOMAIN linked : Alike(v)
        /\ at \in Nat \ {0} /\ item \in Nat \ {0} /\ errors \in Nat
        /\ Segments(omf_segments) /\ DOMAIN remap = DOMAIN linked
        /\ data_segment \in DOMAIN omf_segments

LEMMA ReadyFirst == ToolInit => Ready
<1> SUFFICES ASSUME ToolInit PROVE Ready
    OBVIOUS
<1>1. Init /\ step = "code" /\ at = 1 /\ item = 1 /\ data_segment = 1
    BY DEF ToolInit, Build!InitBuild
<1>2. TypeInv
    BY <1>1, InitTypes
<1>3. pc = "file" /\ sections = [k \in Predefined |-> PredefinedSection(k)]
    BY <1>1 DEF Init
<1>4. Flagged(sections)
    BY <1>3 DEF Flagged, PredefinedSection
<1>5. ASSUME NEW v \in DOMAIN sections PROVE WellPatched(sections[v], v)
    <2>1. sections[v].expressions = << >>
        BY <1>3 DEF PredefinedSection
    <2> QED
        BY <2>1 DEF WellPatched
<1> QED
    BY <1>1, <1>2, <1>3, <1>4, <1>5 DEF Ready, PatchesInv

LEMMA ReadyLink ==
    ASSUME Ready, LinkStep
    PROVE  Ready' /\ step = "code" /\ step' = "code"
<1>1. /\ step = "code" /\ UNCHANGED << step, at, item, data_segment >> /\ [Next]_vars
      /\ pc \notin Final
      /\ linked' = IF pc' = "linked" THEN sections' ELSE linked
    BY DEF Ready, LinkStep, Final, buildOwn
<1>2. TypeInv /\ PatchesInv /\ Flagged(sections)
    BY <1>1 DEF Ready
<1>3. TypeInv' /\ PatchesInv' /\ Flagged(sections')
    BY <1>1, <1>2, NextTypes, NextPatches, FlagsKept
<1>4. pc' = "linked" => linked' = sections' /\ Handed(sections')
    <2> SUFFICES ASSUME pc' = "linked" PROVE Handed(sections')
        BY <1>1
    <2>1. pc # "linked"
        BY <1>1 DEF Final
    <2>2. simplify
        BY <1>1, <1>2, <2>1, Endings DEF vars
    <2> QED
        BY <1>2, <2>2, Handing
<1> QED
    BY <1>1, <1>3, <1>4 DEF Ready

LEMMA BuildSteps ==
    ASSUME Ready, BuildStep
    PROVE  Ready' /\ step' # "code" /\ pc = "linked" /\ UNCHANGED << linked, pc >>
<1>1. pc = "linked" /\ UNCHANGED << linked, pc >> /\ Build!BuildNext
    BY DEF BuildStep
<1>2. CASE step \in {"code", "merge", "data", "own"}
    <2>1. \/ Build!CodeSegment \/ Build!MergeData \/ Build!DataSection \/ Build!SkipSection
          \/ Build!Udata \/ Build!OwnSegment \/ Build!StackSegment
        BY <1>1, <1>2, BuildCases
    <2> QED
        BY <1>1, <2>1 DEF Ready, Build!CodeSegment, Build!MergeData, Build!DataSection,
               Build!SkipSection, Build!Udata, Build!OwnSegment, Build!StackSegment,
               Build!GoTo, Build!NextSection
<1>3. CASE step = "convert"
    <2>1. Build!Adjust \/ Build!ConversionDies \/ Build!NextExpressions \/ Build!Built
        BY <1>1, <1>3, BuildCases
    <2> QED
        BY <1>1, <1>3, <2>1 DEF Ready, Build!Adjust, Build!ConversionDies,
               Build!NextExpressions, Build!Built
<1>4. CASE step = "to_omf"
    <2>1. Build!ConversionDies \/ ToOmf
        BY <1>1, <1>4, BuildCases
    <2>2. step' \in {"aborted", "convert"}
        BY <2>1 DEF ToOmf, Build!ConversionDies, Build!ConvertNext,
           Build!EmptyExpression, Build!PatchBranch, Build!PatchConstant, Build!Relocate,
           Build!RelocateOther, Build!ShiftTooLarge, Build!Refuse
    <2> QED
        BY <1>1, <2>2 DEF Ready
<1> QED
    BY <1>1, <1>2, <1>3, <1>4, BuildCases

LEMMA HandedParts ==
    ASSUME NEW S, Handed(S)
    PROVE  /\ PAGE0 \in DOMAIN S /\ CODE \in DOMAIN S /\ UDATA \in DOMAIN S
           /\ DOMAIN S \subseteq Nat \ {0}
           /\ \A v \in DOMAIN S : IsSection(S[v])
BY DEF Handed, Flagged, Predefined, PAGE0, CODE, UDATA

LEMMA Names1 == Build!CODE = CODE /\ Build!UDATA = UDATA /\ Build!PAGE0 = PAGE0
BY DEF Build!CODE, Build!UDATA, Build!PAGE0, CODE, UDATA, PAGE0

LEMMA ZerosType ==
    ASSUME NEW m \in Nat
    PROVE  /\ Build!Zeros(m) \in Seq(Byte) /\ Len(Build!Zeros(m)) = m
           /\ DOMAIN Build!Zeros(m) = 1 .. m
<1>1. Build!Zero \in Byte
    BY DEF Build!Zero, Byte
<1> QED
    BY <1>1 DEF Build!Zeros

LEMMA AlikeEmptied ==
    ASSUME DOMAIN sections = DOMAIN linked, \A v \in DOMAIN linked : Alike(v),
           NEW w \in DOMAIN linked, sections' = [sections EXCEPT ![w].data = << >>],
           linked' = linked
    PROVE  DOMAIN sections' = DOMAIN linked' /\ \A v \in DOMAIN linked' : Alike(v)'
<1>1. IsSection(sections[w]) /\ w \in DOMAIN sections
    BY DEF Alike
<1>2. /\ DOMAIN sections' = DOMAIN sections /\ IsSection(sections'[w])
      /\ sections'[w].flags = sections[w].flags /\ sections'[w].size = sections[w].size
      /\ sections'[w].expressions = sections[w].expressions
      /\ \A v \in DOMAIN sections : v # w => sections'[v] = sections[v]
    BY <1>1, Emptied
<1>3. ASSUME NEW v \in DOMAIN linked PROVE Alike(v)'
    <2>1. CASE v = w
        BY <1>2, <2>1 DEF Alike
    <2>2. CASE v # w
        BY <1>2, <2>2 DEF Alike
    <2> QED
        BY <2>1, <2>2
<1> QED
    BY <1>2, <1>3

LEMMA CodeShape ==
    ASSUME Ready, BuildStep, Build!CodeSegment
    PROVE  /\ Shape' /\ linked = sections /\ Handed(linked) /\ linked' = linked
           /\ step = "code" /\ step' = "merge" /\ at' = 1
           /\ sections' = [sections EXCEPT ![CODE].data = << >>]
           /\ remap' = [v \in DOMAIN linked |-> IF v = CODE THEN [segnum |-> 1, offset |-> 0]
                                                ELSE [segnum |-> 0, offset |-> 0]]
           /\ DOMAIN omf_segments' = {1} /\ omf_segments'[1].data = linked[CODE].data
           /\ \A c \in Kinds : omf_segments'[1][c] = << >>
<1>1. /\ step = "code" /\ step' = "merge" /\ at' = 1 /\ item' = 1
      /\ omf_segments' = << Build!Segment(1, "code", "", sections[CODE].data) >>
      /\ remap' = [v \in DOMAIN sections |-> IF v = CODE THEN [segnum |-> 1, offset |-> 0]
                                             ELSE [segnum |-> 0, offset |-> 0]]
      /\ sections' = [sections EXCEPT ![CODE].data = << >>]
      /\ UNCHANGED << errors, data_segment >>
    BY Names1 DEF Build!CodeSegment, Build!GoTo, Build!Nowhere
<1>2. /\ linked = sections /\ Handed(linked) /\ linked' = linked /\ TypeInv /\ data_segment = 1
    BY <1>1, BuildSteps DEF Ready
<1>3. errors \in Nat
    BY <1>2 DEF TypeInv, TypeOK
<1>4. CODE \in DOMAIN linked /\ \A v \in DOMAIN linked : IsSection(linked[v])
    BY <1>2, HandedParts
<1>5. \A v \in DOMAIN linked : Alike(v)
    BY <1>2, <1>4 DEF Alike
<1>6. DOMAIN sections' = DOMAIN linked' /\ \A v \in DOMAIN linked' : Alike(v)'
    BY <1>1, <1>2, <1>4, <1>5, AlikeEmptied
<1>7. PICK s : s = Build!Segment(1, "code", "", linked[CODE].data)
    OBVIOUS
<1>8. linked[CODE].data \in Seq(Byte)
    BY <1>4 DEF IsSection
<1>9. IsSegment(s) /\ s.data = linked[CODE].data /\ \A c \in Kinds : s[c] = << >>
    <2>1. IsSegment(s)
        BY <1>7, <1>8, NewSegment, Zenon
    <2>2. s.data = linked[CODE].data
        BY <1>7 DEF Build!Segment
    <2>3. /\ s["patches"] = << >> /\ s["relocs"] = << >> /\ s["intersegs"] = << >>
        BY <1>7 DEF Build!Segment
    <2>4. \A c \in Kinds : s[c] = << >>
        BY <2>3 DEF Kinds
    <2> QED
        BY <2>1, <2>2, <2>4
<1>10. omf_segments' = << s >>
    BY <1>1, <1>2, <1>7
<1>11. /\ DOMAIN omf_segments' = {1} /\ omf_segments'[1] = s
       /\ omf_segments' \in Seq({s})
    BY <1>10
<1>12. Segments(omf_segments')
    BY <1>9, <1>11, SequenceOf DEF Segments
<1>13. DOMAIN remap' = DOMAIN linked'
    BY <1>1, <1>2
<1>14. Shape'
    <2>0. at' = 1 /\ item' = 1 /\ errors' = errors
        BY <1>1
    <2>1. at' \in Nat \ {0} /\ item' \in Nat \ {0} /\ errors' \in Nat
        BY <1>3, <2>0
    <2>2. data_segment' \in DOMAIN omf_segments'
        BY <1>1, <1>2, <1>11
    <2>3. Handed(linked')
        BY <1>2, Zenon
    <2> QED
        BY <1>6, <1>12, <1>13, <2>1, <2>2, <2>3, Zenon DEF Shape
<1> QED
    BY <1>1, <1>2, <1>9, <1>11, <1>14

-----------------------------------------------------------------------------
(* The bytes of the segments stay where they are, where p comes after o;   *)
(* and there are no records in what is new.                                *)
BytesKept(o, p) ==
    /\ DOMAIN o \subseteq DOMAIN p
    /\ \A g \in DOMAIN o :
           /\ Len(o[g].data) <= Len(p[g].data)
           /\ \A k \in 1 .. Len(o[g].data) : p[g].data[k] = o[g].data[k]

Grown(o, p) ==
    /\ BytesKept(o, p)
    /\ \A g \in DOMAIN p : \A c \in Kinds :
           p[g][c] = IF g \in DOMAIN o THEN o[g][c] ELSE << >>

(* The bytes b are at offset off of segment g. *)
Holds(p, g, off, b) ==
    /\ g \in DOMAIN p /\ off + Len(b) <= Len(p[g].data)
    /\ \A k \in 1 .. Len(b) : p[g].data[off + k] = b[k]

LEMMA AppendGrows ==
    ASSUME NEW o, Segments(o), NEW s, IsSegment(s), \A c \in Kinds : s[c] = << >>,
           NEW p, p = Append(o, s)
    PROVE  /\ Segments(p) /\ Grown(o, p) /\ Len(o) \in Nat /\ DOMAIN o = 1 .. Len(o)
           /\ Len(p) = Len(o) + 1 /\ DOMAIN p = 1 .. Len(o) + 1
           /\ p[Len(o) + 1] = s
           /\ Len(o) + 1 \notin DOMAIN o /\ Len(o) + 1 \in DOMAIN p
<1>1. Segments(p)
    BY SegmentAdded
<1>2. Len(o) \in Nat /\ DOMAIN o = 1 .. Len(o)
    BY SegmentAdded
<1>3. Len(p) = Len(o) + 1 /\ DOMAIN p = 1 .. Len(o) + 1
    BY SegmentAdded
<1>4. p[Len(o) + 1] = s
    BY SegmentAdded
<1>5. \A g \in DOMAIN o : p[g] = o[g]
    BY SegmentAdded
<1>6. Len(o) + 1 \notin DOMAIN o /\ Len(o) + 1 \in DOMAIN p /\ DOMAIN o \subseteq DOMAIN p
      /\ \A g \in DOMAIN p : g \notin DOMAIN o => g = Len(o) + 1
    BY <1>2, <1>3
<1>7. \A g \in DOMAIN o : Len(o[g].data) \in Nat
    BY DEF Segments, IsSegment
<1>8. Grown(o, p)
    BY <1>4, <1>5, <1>6, <1>7 DEF Grown, BytesKept
<1> QED
    BY <1>1, <1>2, <1>3, <1>4, <1>6, <1>8

LEMMA AppendHolds ==
    ASSUME NEW o, NEW p, NEW g \in DOMAIN p, NEW b \in Seq(Byte), p[g].data = b
    PROVE  Holds(p, g, 0, b)
<1>1. Len(b) \in Nat
    OBVIOUS
<1>2. \A k \in 1 .. Len(b) : 0 + k = k
    BY <1>1
<1>3. 0 + Len(b) <= Len(b)
    BY <1>1
<1> QED
    BY <1>2, <1>3 DEF Holds

LEMMA ExtendGrows ==
    ASSUME NEW o, Segments(o), NEW g \in DOMAIN o, NEW b \in Seq(Byte),
           NEW p, Longer(o, g, b, p)
    PROVE  /\ Segments(p) /\ Grown(o, p) /\ DOMAIN p = DOMAIN o
           /\ Len(o[g].data) \in Nat /\ Holds(p, g, Len(o[g].data), b)
<1>1. /\ Segments(p) /\ DOMAIN p = DOMAIN o
      /\ \A c \in Kinds : p[g][c] = o[g][c]
      /\ \A h \in DOMAIN o : h # g => p[h] = o[h]
    <2>1. Segments(p)
        BY DataAdded
    <2>2. DOMAIN p = DOMAIN o
        BY DataAdded
    <2>3. \A c \in Kinds : p[g][c] = o[g][c]
        BY DataAdded
    <2>4. \A h \in DOMAIN o : h # g => p[h] = o[h]
        BY DataAdded
    <2> QED
        BY <2>1, <2>2, <2>3, <2>4
<1>2. p[g].data = o[g].data \o b
    BY DataAdded
<1>3. PICK d : d = o[g].data
    OBVIOUS
<1>4. PICK e : e = p[g].data
    OBVIOUS
<1>5. d \in Seq(Byte) /\ \A h \in DOMAIN o : Len(o[h].data) \in Nat
    BY <1>3 DEF Segments, IsSegment
<1>6. /\ Len(e) = Len(d) + Len(b) /\ Len(d) \in Nat /\ Len(b) \in Nat
      /\ \A k \in 1 .. Len(d) : e[k] = d[k]
      /\ \A k \in 1 .. Len(b) : e[Len(d) + k] = b[k]
    BY <1>2, <1>3, <1>4, <1>5, AppendedParts
<1>7. Len(d) <= Len(e) /\ Len(d) + Len(b) <= Len(e)
    BY <1>6
<1>8. Holds(p, g, Len(d), b)
    BY <1>1, <1>4, <1>6, <1>7 DEF Holds
<1>9. ASSUME NEW h \in DOMAIN o
      PROVE  /\ Len(o[h].data) <= Len(p[h].data)
             /\ \A k \in 1 .. Len(o[h].data) : p[h].data[k] = o[h].data[k]
    <2>1. CASE h = g
        BY <1>3, <1>4, <1>6, <1>7, <2>1, Zenon
    <2>2. CASE h # g
        BY <1>1, <1>5, <2>2
    <2> QED
        BY <2>1, <2>2
<1>10. \A h \in DOMAIN p : \A c \in Kinds : p[h][c] = o[h][c]
    BY <1>1
<1>11. Grown(o, p)
    BY <1>1, <1>9, <1>10 DEF Grown, BytesKept
<1> QED
    BY <1>1, <1>3, <1>6, <1>8, <1>11

LEMMA HeldOn ==
    ASSUME NEW o, Segments(o), NEW p, Segments(p), BytesKept(o, p),
           NEW g, NEW off \in Nat, NEW b, Len(b) \in Nat, Holds(o, g, off, b)
    PROVE  Holds(p, g, off, b)
<1>1. /\ g \in DOMAIN o /\ g \in DOMAIN p
      /\ off + Len(b) <= Len(o[g].data) /\ Len(o[g].data) <= Len(p[g].data)
    BY DEF Holds, BytesKept
<1>2. Len(o[g].data) \in Nat /\ Len(p[g].data) \in Nat
    BY <1>1 DEF Segments, IsSegment
<1>3. off + Len(b) <= Len(p[g].data)
    BY <1>1, <1>2
<1>4. \A k \in 1 .. Len(b) : off + k \in 1 .. Len(o[g].data)
    BY <1>1, <1>2
<1>5. \A k \in 1 .. Len(b) : p[g].data[off + k] = b[k]
    BY <1>1, <1>4 DEF Holds, BytesKept
<1> QED
    BY <1>1, <1>3, <1>5 DEF Holds

-----------------------------------------------------------------------------
(* Where the sections go. *)

(* What a section needs room for: udata is only a size. *)
Image(v) == IF v = UDATA THEN Build!Zeros(linked[v].size) ELSE linked[v].data

ForData(v) == "DATA" \in linked[v].flags /\ "REF_ONLY" \notin linked[v].flags
ForOwn(v)  == v # CODE /\ "DATA" \notin linked[v].flags /\ "REF_ONLY" \notin linked[v].flags

(* The sections that have been placed. *)
Done ==
    {v \in DOMAIN linked :
        \/ v = CODE
        \/ ForData(v) /\ step # "merge" /\ (step = "data" => v < at)
        \/ v = UDATA /\ step \notin {"merge", "data"}
        \/ ForOwn(v) /\ step \notin {"merge", "data"} /\ (step = "own" => v < at)}

Placing == step \in {"merge", "data", "own"}

(* No section is over another: those of one segment are there in their     *)
(* order. What has not been placed still has its bytes and is nowhere, but *)
(* for the number that -S leaves for page0.                                *)
PlacedInv ==
    Going =>
        /\ \A v \in Done : Holds(omf_segments, remap[v].segnum, remap[v].offset, Image(v))
        /\ \A v, w \in Done \ {UDATA} :
               v < w /\ remap[v].segnum = remap[w].segnum =>
                   remap[v].offset + Len(Image(v)) <= remap[w].offset
        /\ \A v \in DOMAIN linked :
               /\ remap[v].segnum \in 0 .. Len(omf_segments) /\ remap[v].offset \in Nat
               /\ v \notin Done => v = PAGE0 \/ remap[v].segnum = 0
        /\ Placing => \A v \in DOMAIN linked :
                          v \notin Done => sections[v].data = linked[v].data

LEMMA PredefinedPlaces ==
    ASSUME Handed(linked)
    PROVE  /\ PAGE0 \in DOMAIN linked /\ CODE \in DOMAIN linked /\ UDATA \in DOMAIN linked
           /\ ~ForData(PAGE0) /\ ~ForOwn(PAGE0) /\ ~ForData(CODE) /\ ~ForOwn(CODE)
           /\ ~ForData(UDATA) /\ ~ForOwn(UDATA)
           /\ PAGE0 # CODE /\ PAGE0 # UDATA /\ CODE # UDATA
           /\ PAGE0 = 1 /\ CODE = 2 /\ DOMAIN linked \subseteq Nat \ {0}
<1>1. /\ PAGE0 \in DOMAIN linked /\ CODE \in DOMAIN linked /\ UDATA \in DOMAIN linked
      /\ DOMAIN linked \subseteq Nat \ {0}
    BY HandedParts
<1>2. PAGE0 = 1 /\ CODE = 2 /\ UDATA = 5
    BY DEF PAGE0, CODE, UDATA
<1>3. /\ linked[1].flags = PredefinedFlags[1]
      /\ linked[2].flags = PredefinedFlags[2]
      /\ linked[5].flags = PredefinedFlags[5]
    <2>1. 1 \in Predefined /\ 2 \in Predefined /\ 5 \in Predefined
        BY DEF Predefined, PAGE0, UDATA
    <2>2. Flagged(linked)
        BY DEF Handed
    <2> QED
        BY <2>1, <2>2 DEF Flagged
<1>4. /\ PredefinedFlags[1] = {"DATA", "NONAME", "DIRECT", "REF_ONLY"}
      /\ PredefinedFlags[2] = {"NONAME"}
      /\ PredefinedFlags[5] = {"DATA", "NONAME", "REF_ONLY"}
    BY DEF PredefinedFlags
<1> QED
    BY <1>1, <1>2, <1>3, <1>4 DEF ForData, ForOwn

LEMMA Images ==
    ASSUME Handed(linked), NEW v \in DOMAIN linked
    PROVE  Image(v) \in Seq(Byte) /\ Len(Image(v)) \in Nat
<1>1. IsSection(linked[v])
    BY HandedParts
<1>2. linked[v].size \in Nat /\ linked[v].data \in Seq(Byte)
    BY <1>1 DEF IsSection
<1>3. Image(v) \in Seq(Byte)
    BY <1>2, ZerosType DEF Image
<1> QED
    BY <1>3

LEMMA SegmentNumbers ==
    ASSUME NEW o, Segments(o)
    PROVE  Len(o) \in Nat /\ DOMAIN o = 1 .. Len(o)
<1>1. o \in Seq({o[k] : k \in DOMAIN o})
    BY DEF Segments, IsSequence
<1> QED
    BY <1>1

(* One more section is placed, behind all that was in its segment. *)
LEMMA PlacedOne ==
    ASSUME Placing, PlacedInv, Shape, Going', Shape', linked' = linked,
           NEW v \in DOMAIN linked, Done' = Done \cup {v}, v \notin Done,
           NEW g, NEW off \in Nat,
           remap' = [remap EXCEPT ![v] = [segnum |-> g, offset |-> off]],
           Grown(omf_segments, omf_segments'), Holds(omf_segments', g, off, Image(v)),
           g \in DOMAIN omf_segments => off = Len(omf_segments[g].data),
           v = UDATA \/ \A u \in Done : u = UDATA \/ u < v \/ g \notin DOMAIN omf_segments,
           \A u \in DOMAIN linked : u # v => sections'[u].data = sections[u].data
    PROVE  PlacedInv'
<1>0. Going
    BY DEF Placing, Going
<1>1. /\ Segments(omf_segments) /\ Segments(omf_segments') /\ Handed(linked)
      /\ DOMAIN remap = DOMAIN linked /\ BytesKept(omf_segments, omf_segments')
    BY <1>0 DEF Shape, Grown
<1>2. \A u \in DOMAIN linked : Len(Image(u)) \in Nat /\ Image(u)' = Image(u)
    BY <1>1, Images DEF Image
<1>3. /\ remap'[v].segnum = g /\ remap'[v].offset = off
      /\ \A u \in DOMAIN linked : u # v => remap'[u] = remap[u]
    BY <1>1
<1>4. Done \subseteq DOMAIN linked
    BY DEF Done
<1>5. \A u \in Done : Holds(omf_segments, remap[u].segnum, remap[u].offset, Image(u))
    BY <1>0 DEF PlacedInv
<1>6. \A u \in DOMAIN linked : remap[u].offset \in Nat
    BY <1>0 DEF PlacedInv
<1>7. ASSUME NEW u \in Done'
      PROVE  Holds(omf_segments', remap'[u].segnum, remap'[u].offset, Image(u)')
    <2>1. CASE u = v
        BY <1>2, <1>3, <2>1
    <2>2. CASE u # v
        <3>1. u \in Done /\ u \in DOMAIN linked
            BY <1>4, <1>7, <2>2
        <3>2. Holds(omf_segments', remap[u].segnum, remap[u].offset, Image(u))
            BY <1>1, <1>2, <1>5, <1>6, <3>1, HeldOn
        <3> QED
            BY <1>2, <1>3, <2>2, <3>1, <3>2
    <2> QED
        BY <2>1, <2>2
<1>8. ASSUME NEW u \in Done', NEW w \in Done', u # UDATA, w # UDATA,
             u < w, remap'[u].segnum = remap'[w].segnum
      PROVE  remap'[u].offset + Len(Image(u)') <= remap'[w].offset
    <2>0. u \in DOMAIN linked /\ w \in DOMAIN linked /\ DOMAIN linked \subseteq Nat
        BY <1>1, <1>4, HandedParts
    <2>1. CASE u # v /\ w # v
        <3>1. u \in Done /\ w \in Done
            BY <2>1
        <3>2. remap[u].offset + Len(Image(u)) <= remap[w].offset
            BY <1>3, <1>8, <2>0, <2>1, <3>1, <1>0 DEF PlacedInv
        <3> QED
            BY <1>2, <1>3, <2>0, <2>1, <3>2
    <2>2. CASE w = v
        <3>1. u # v /\ u \in Done
            BY <1>8, <2>0, <2>2
        <3>2. remap[u].segnum = g
            BY <1>3, <1>8, <2>0, <2>2, <3>1
        <3>3. /\ g \in DOMAIN omf_segments
              /\ remap[u].offset + Len(Image(u)) <= Len(omf_segments[g].data)
            BY <1>5, <3>1, <3>2 DEF Holds
        <3>4. remap[u].offset + Len(Image(u)) <= off
            BY <3>3
        <3> QED
            BY <1>2, <1>3, <2>0, <2>2, <3>1, <3>4
    <2>3. CASE u = v
        <3>1. w # v /\ w \in Done
            BY <1>8, <2>0, <2>3
        <3>2. remap[w].segnum = g
            BY <1>3, <1>8, <2>0, <2>3, <3>1
        <3>3. g \in DOMAIN omf_segments
            BY <1>5, <3>1, <3>2 DEF Holds
        <3>4. w < v
            BY <1>8, <2>3, <3>1, <3>3
        <3> QED
            BY <1>8, <2>0, <2>3, <3>4
    <2> QED
        BY <2>1, <2>2, <2>3
<1>9. ASSUME NEW u \in DOMAIN linked
      PROVE  /\ remap'[u].segnum \in 0 .. Len(omf_segments') /\ remap'[u].offset \in Nat
             /\ u \notin Done' => u = PAGE0 \/ remap'[u].segnum = 0
    <2>0. /\ Len(omf_segments) \in Nat /\ DOMAIN omf_segments = 1 .. Len(omf_segments)
          /\ Len(omf_segments') \in Nat /\ DOMAIN omf_segments' = 1 .. Len(omf_segments')
        BY <1>1, SegmentNumbers
    <2>1. CASE u = v
        <3>1. g \in DOMAIN omf_segments'
            BY DEF Holds
        <3> QED
            BY <1>3, <2>0, <2>1, <3>1
    <2>2. CASE u # v
        <3>1. Len(omf_segments) <= Len(omf_segments')
            BY <2>0 DEF Grown, BytesKept
        <3>2. /\ remap[u].segnum \in 0 .. Len(omf_segments) /\ remap[u].offset \in Nat
              /\ u \notin Done => u = PAGE0 \/ remap[u].segnum = 0
            BY <1>0 DEF PlacedInv
        <3> QED
            BY <1>3, <2>0, <2>2, <3>1, <3>2
    <2> QED
        BY <2>1, <2>2
<1>10. ASSUME NEW u \in DOMAIN linked, u \notin Done'
       PROVE  sections'[u].data = linked[u].data
    BY <1>0, <1>10 DEF PlacedInv
<1> QED
    BY <1>7, <1>8, <1>9, <1>10 DEF PlacedInv

(* A step that places nothing, and changes no place but page0's.           *)
LEMMA PlacedStill ==
    ASSUME Going, PlacedInv, Shape, Going', Shape', linked' = linked, Done' = Done,
           BytesKept(omf_segments, omf_segments'),
           \A v \in DOMAIN linked : v # PAGE0 => remap'[v] = remap[v],
           remap'[PAGE0].segnum \in 0 .. Len(omf_segments'), remap'[PAGE0].offset \in Nat,
           Placing' => Placing /\ sections' = sections
    PROVE  PlacedInv'
<1>1. /\ Segments(omf_segments) /\ Segments(omf_segments') /\ Handed(linked)
      /\ DOMAIN remap = DOMAIN linked
    BY DEF Shape
<1>2. \A u \in DOMAIN linked : Len(Image(u)) \in Nat /\ Image(u)' = Image(u)
    BY <1>1, Images DEF Image
<1>3. \A u \in Done : u \in DOMAIN linked /\ u # PAGE0 /\ remap'[u] = remap[u]
    BY <1>1, PredefinedPlaces DEF Done
<1>4. ASSUME NEW u \in Done'
      PROVE  Holds(omf_segments', remap'[u].segnum, remap'[u].offset, Image(u)')
    <2>1. u \in DOMAIN linked /\ remap'[u] = remap[u] /\ u \in Done
        BY <1>3
    <2>2. /\ Holds(omf_segments, remap[u].segnum, remap[u].offset, Image(u))
          /\ remap[u].offset \in Nat
        BY <2>1 DEF PlacedInv
    <2>3. Holds(omf_segments', remap[u].segnum, remap[u].offset, Image(u))
        BY <1>1, <1>2, <2>1, <2>2, HeldOn
    <2> QED
        BY <1>2, <2>1, <2>3
<1>5. ASSUME NEW u \in Done', NEW w \in Done', u # UDATA, w # UDATA,
             u < w, remap'[u].segnum = remap'[w].segnum
      PROVE  remap'[u].offset + Len(Image(u)') <= remap'[w].offset
    BY <1>2, <1>3, <1>5 DEF PlacedInv
<1>6. ASSUME NEW u \in DOMAIN linked
      PROVE  /\ remap'[u].segnum \in 0 .. Len(omf_segments') /\ remap'[u].offset \in Nat
             /\ u \notin Done' => u = PAGE0 \/ remap'[u].segnum = 0
    <2>0. /\ Len(omf_segments) \in Nat /\ DOMAIN omf_segments = 1 .. Len(omf_segments)
          /\ Len(omf_segments') \in Nat /\ DOMAIN omf_segments' = 1 .. Len(omf_segments')
        BY <1>1, SegmentNumbers
    <2>1. Len(omf_segments) <= Len(omf_segments')
        BY <2>0 DEF Grown, BytesKept
    <2>2. /\ remap[u].segnum \in 0 .. Len(omf_segments) /\ remap[u].offset \in Nat
          /\ u \notin Done => u = PAGE0 \/ remap[u].segnum = 0
        BY DEF PlacedInv
    <2> QED
        BY <2>0, <2>1, <2>2
<1>7. ASSUME Placing', NEW u \in DOMAIN linked, u \notin Done'
      PROVE  sections'[u].data = linked[u].data
    BY <1>7 DEF PlacedInv
<1> QED
    BY <1>4, <1>5, <1>6, <1>7 DEF PlacedInv

LEMMA GrownNot ==
    ASSUME NEW o, Segments(o)
    PROVE  Grown(o, o)
<1>1. \A g \in DOMAIN o : Len(o[g].data) \in Nat
    BY DEF Segments, IsSegment
<1> QED
    BY <1>1 DEF Grown, BytesKept

LEMMA MergePlaces ==
    ASSUME Ready, BuildStep, Build!MergeData, Shape, PlacedInv
    PROVE  Shape' /\ PlacedInv' /\ Grown(omf_segments, omf_segments')
<1>1. /\ step = "merge" /\ step' = "data" /\ at' = 1 /\ item' = 1
      /\ UNCHANGED << sections, errors, remap, linked >>
    BY BuildSteps DEF Build!MergeData, Build!GoTo
<1>2. Going /\ Going' /\ Placing /\ linked' = linked
    BY <1>1 DEF Going, Placing
<1>3. /\ Segments(omf_segments) /\ data_segment \in DOMAIN omf_segments
      /\ DOMAIN sections = DOMAIN linked /\ \A v \in DOMAIN linked : Alike(v)
      /\ Handed(linked) /\ errors \in Nat /\ DOMAIN remap = DOMAIN linked
    BY <1>2 DEF Shape
<1>4. /\ Segments(omf_segments') /\ Grown(omf_segments, omf_segments')
      /\ data_segment' \in DOMAIN omf_segments'
    <2>1. CASE Build!Crowded
        <3>1. PICK s : s = Build!Segment(Len(omf_segments) + 1, "data", "", << >>)
            OBVIOUS
        <3>2. /\ omf_segments' = Append(omf_segments, s)
              /\ data_segment' = Len(omf_segments) + 1
            BY <2>1, <3>1 DEF Build!MergeData
        <3>3. << >> \in Seq(Byte)
            OBVIOUS
        <3>4. IsSegment(s) /\ \A c \in Kinds : s[c] = << >>
            <4>1. IsSegment(s)
                BY <3>1, <3>3, NewSegment, Zenon
            <4>2. \A c \in Kinds : s[c] = << >>
                BY <3>1, NewParts, Zenon
            <4> QED
                BY <4>1, <4>2
        <3> QED
            BY <1>3, <3>2, <3>4, AppendGrows
    <2>2. CASE ~Build!Crowded
        <3>1. UNCHANGED << omf_segments, data_segment >>
            BY <2>2 DEF Build!MergeData
        <3> QED
            BY <1>3, <3>1, GrownNot
    <2> QED
        BY <2>1, <2>2
<1>5. Shape'
    <2>1. \A v \in DOMAIN linked : Alike(v)'
        BY <1>1, <1>3 DEF Alike
    <2> QED
        BY <1>1, <1>3, <1>4, <2>1 DEF Shape
<1>6. Done' = Done
    <2>1. \A v \in DOMAIN linked : ~(v < 1)
        BY <1>3, HandedParts
    <2> QED
        BY <1>1, <2>1 DEF Done, ForData, ForOwn
<1>7. PAGE0 \in DOMAIN linked
    BY <1>3, HandedParts
<1>8. /\ remap[PAGE0].segnum \in 0 .. Len(omf_segments') /\ remap[PAGE0].offset \in Nat
    <2>1. /\ Len(omf_segments) \in Nat /\ DOMAIN omf_segments = 1 .. Len(omf_segments)
          /\ Len(omf_segments') \in Nat /\ DOMAIN omf_segments' = 1 .. Len(omf_segments')
        BY <1>3, <1>4, SegmentNumbers
    <2>2. Len(omf_segments) <= Len(omf_segments')
        BY <1>4, <2>1 DEF Grown, BytesKept
    <2>3. /\ remap[PAGE0].segnum \in 0 .. Len(omf_segments) /\ remap[PAGE0].offset \in Nat
        BY <1>2, <1>7 DEF PlacedInv
    <2> QED
        BY <2>1, <2>2, <2>3
<1>9. PlacedInv'
    BY <1>1, <1>2, <1>4, <1>5, <1>6, <1>8, PlacedStill DEF Grown
<1> QED
    BY <1>4, <1>5, <1>9

LEMMA DataPlaces ==
    ASSUME Ready, BuildStep, Build!DataSection, Shape, PlacedInv
    PROVE  Shape' /\ PlacedInv' /\ Grown(omf_segments, omf_segments')
<1>1. /\ step = "data" /\ step' = "data" /\ at \in DOMAIN sections /\ at' = at + 1
      /\ Build!IsData(at) /\ ~Build!RefOnly(at)
      /\ sections' = [sections EXCEPT ![at].data = << >>]
      /\ remap' = [remap EXCEPT ![at] = [segnum |-> data_segment,
                       offset |-> Len(omf_segments[data_segment].data)]]
      /\ UNCHANGED << errors, item, data_segment, linked >>
    BY BuildSteps DEF Build!DataSection, Build!NextSection, Build!Allot
<1>2. Longer(omf_segments, data_segment, sections[at].data, omf_segments')
    BY DEF Build!DataSection, Build!Extend, Longer
<1>3. Going /\ Going' /\ Placing /\ linked' = linked
    BY <1>1 DEF Going, Placing
<1>4. /\ Segments(omf_segments) /\ data_segment \in DOMAIN omf_segments
      /\ DOMAIN sections = DOMAIN linked /\ \A v \in DOMAIN linked : Alike(v)
      /\ Handed(linked) /\ errors \in Nat /\ DOMAIN remap = DOMAIN linked
      /\ at \in Nat \ {0} /\ item \in Nat \ {0}
    BY <1>3 DEF Shape
<1>5. at \in DOMAIN linked /\ ForData(at)
    BY <1>1, <1>4 DEF Build!IsData, Build!RefOnly, Alike, ForData
<1>6. /\ at # CODE /\ at # UDATA /\ CODE = 2 /\ ~ForData(1)
      /\ DOMAIN linked \subseteq Nat \ {0}
    BY <1>4, <1>5, PredefinedPlaces
<1>7. CODE < at
    BY <1>4, <1>5, <1>6
<1>8. \A u \in DOMAIN linked : u < at + 1 <=> u < at \/ u = at
    BY <1>4, <1>6
<1>9. at \notin Done /\ Done' = Done \cup {at} /\ \A u \in Done : u < at
    <2>1. Done = {v \in DOMAIN linked : v = CODE \/ (ForData(v) /\ v < at)}
        BY <1>1 DEF Done
    <2>2. Done' = {v \in DOMAIN linked : v = CODE \/ (ForData(v) /\ v < at + 1)}
        BY <1>1 DEF Done, ForData
    <2>3. ~(at < at)
        BY <1>4
    <2>4. at \notin Done
        BY <1>6, <2>1, <2>3
    <2>5. \A u \in Done : u < at
        BY <1>7, <2>1
    <2>6. \A v \in DOMAIN linked : v \in Done' <=> v \in Done \/ v = at
        BY <1>5, <1>8, <2>1, <2>2
    <2>7. Done \subseteq DOMAIN linked /\ Done' \subseteq DOMAIN linked
        BY <2>1, <2>2
    <2> QED
        BY <1>5, <2>4, <2>5, <2>6, <2>7
<1>10. sections[at].data = linked[at].data /\ Image(at) = linked[at].data
    BY <1>3, <1>5, <1>6, <1>9 DEF PlacedInv, Image
<1>11. PICK off : off = Len(omf_segments[data_segment].data)
    OBVIOUS
<1>12. PICK b : b = Image(at)
    OBVIOUS
<1>13. b \in Seq(Byte)
    BY <1>4, <1>5, <1>12, Images
<1>14. Longer(omf_segments, data_segment, b, omf_segments')
    BY <1>2, <1>10, <1>12
<1>15. /\ Segments(omf_segments') /\ Grown(omf_segments, omf_segments')
       /\ DOMAIN omf_segments' = DOMAIN omf_segments
       /\ off \in Nat /\ Holds(omf_segments', data_segment, off, b)
    BY <1>4, <1>11, <1>13, <1>14, ExtendGrows
<1>16. Shape'
    <2>1. DOMAIN sections' = DOMAIN linked /\ \A v \in DOMAIN linked : Alike(v)'
        BY <1>1, <1>3, <1>4, <1>5, AlikeEmptied
    <2>2. at + 1 \in Nat \ {0}
        BY <1>4
    <2>3. DOMAIN remap' = DOMAIN linked
        BY <1>1, <1>4
    <2> QED
        BY <1>1, <1>4, <1>15, <2>1, <2>2, <2>3 DEF Shape
<1>17. \A u \in DOMAIN linked : u # at => sections'[u].data = sections[u].data
    BY <1>1, <1>4
<1>18. /\ remap' = [remap EXCEPT ![at] = [segnum |-> data_segment, offset |-> off]]
       /\ Holds(omf_segments', data_segment, off, Image(at))
    BY <1>1, <1>11, <1>12, <1>15
<1>19. PlacedInv'
    BY <1>3, <1>5, <1>9, <1>11, <1>15, <1>16, <1>17, <1>18, PlacedOne
<1> QED
    BY <1>15, <1>16, <1>19

LEMMA SkipPlaces ==
    ASSUME Ready, BuildStep, Build!SkipSection, Shape, PlacedInv
    PROVE  Shape' /\ PlacedInv' /\ Grown(omf_segments, omf_segments')
<1>1. /\ at \in DOMAIN sections /\ at' = at + 1 /\ step' = step
      /\ \/ step = "data" /\ (Build!RefOnly(at) \/ ~Build!IsData(at))
         \/ step = "own" /\ (Build!RefOnly(at) \/ Build!IsData(at) \/ at = CODE)
      /\ UNCHANGED << sections, errors, item, remap, omf_segments, data_segment, linked >>
    BY Names1, BuildSteps DEF Build!SkipSection, Build!NextSection
<1>3. Going /\ Going' /\ Placing /\ linked' = linked
    BY <1>1 DEF Going, Placing
<1>4. /\ Segments(omf_segments) /\ data_segment \in DOMAIN omf_segments
      /\ DOMAIN sections = DOMAIN linked /\ \A v \in DOMAIN linked : Alike(v)
      /\ Handed(linked) /\ errors \in Nat /\ DOMAIN remap = DOMAIN linked
      /\ at \in Nat \ {0} /\ item \in Nat \ {0}
    BY <1>3 DEF Shape
<1>5. at \in DOMAIN linked /\ (step = "data" => ~ForData(at)) /\ (step = "own" => ~ForOwn(at))
    BY <1>1, <1>4 DEF Build!IsData, Build!RefOnly, Alike, ForData, ForOwn
<1>6. \A u \in DOMAIN linked : u < at + 1 <=> u < at \/ u = at
    BY <1>4, PredefinedPlaces
<1>7. Done' = Done
    <2>1. CASE step = "data"
        BY <1>1, <1>5, <1>6, <2>1 DEF Done, ForData
    <2>2. CASE step = "own"
        BY <1>1, <1>5, <1>6, <2>2 DEF Done, ForData, ForOwn
    <2> QED
        BY <1>1, <2>1, <2>2
<1>8. Grown(omf_segments, omf_segments')
    BY <1>1, <1>4, GrownNot
<1>9. Shape'
    <2>1. \A v \in DOMAIN linked : Alike(v)'
        BY <1>1, <1>4 DEF Alike
    <2>2. at + 1 \in Nat \ {0}
        BY <1>4
    <2> QED
        BY <1>1, <1>4, <2>1, <2>2 DEF Shape
<1>10. /\ remap'[PAGE0].segnum \in 0 .. Len(omf_segments') /\ remap'[PAGE0].offset \in Nat
    BY <1>1, <1>3, <1>4, HandedParts DEF PlacedInv
<1>11. PlacedInv'
    BY <1>1, <1>3, <1>7, <1>8, <1>9, <1>10, PlacedStill DEF Grown
<1> QED
    BY <1>8, <1>9, <1>11

LEMMA UdataPlaces ==
    ASSUME Ready, BuildStep, Build!Udata, Shape, PlacedInv
    PROVE  Shape' /\ PlacedInv' /\ Grown(omf_segments, omf_segments')
<1>1. /\ step = "data" /\ step' = "own" /\ at \notin DOMAIN sections
      /\ at' = 1 /\ item' = 1
      /\ remap' = [remap EXCEPT ![UDATA] = [segnum |-> data_segment,
                       offset |-> Len(omf_segments[data_segment].data)]]
      /\ UNCHANGED << sections, errors, data_segment, linked >>
    BY Names1, BuildSteps DEF Build!Udata, Build!GoTo, Build!Allot
<1>2. Longer(omf_segments, data_segment, Build!Zeros(sections[UDATA].size), omf_segments')
    BY Names1 DEF Build!Udata, Build!Extend, Longer
<1>3. Going /\ Going' /\ Placing /\ linked' = linked
    BY <1>1 DEF Going, Placing
<1>4. /\ Segments(omf_segments) /\ data_segment \in DOMAIN omf_segments
      /\ DOMAIN sections = DOMAIN linked /\ \A v \in DOMAIN linked : Alike(v)
      /\ Handed(linked) /\ errors \in Nat /\ DOMAIN remap = DOMAIN linked
      /\ at \in Nat \ {0}
    BY <1>3 DEF Shape
<1>5. /\ UDATA \in DOMAIN linked /\ UDATA # CODE /\ ~ForData(UDATA) /\ ~ForOwn(UDATA)
      /\ DOMAIN linked \subseteq Nat \ {0} /\ at \notin DOMAIN linked
    BY <1>1, <1>4, PredefinedPlaces
<1>6. \A u \in DOMAIN linked : u < at \/ at < u
    BY <1>4, <1>5
<1>7. \A u \in DOMAIN linked : u < at
    <2>1. PICK m \in Nat : DOMAIN linked = 1 .. m
        BY <1>4 DEF Handed
    <2> QED
        BY <1>4, <1>5, <2>1
<1>8. UDATA \notin Done /\ Done' = Done \cup {UDATA}
    <2>1. Done = {v \in DOMAIN linked : v = CODE \/ ForData(v)}
        BY <1>1, <1>7 DEF Done
    <2>2. \A v \in DOMAIN linked : ~(v < 1)
        BY <1>5
    <2>3. Done' = {v \in DOMAIN linked : v = CODE \/ ForData(v) \/ v = UDATA}
        BY <1>1, <2>2 DEF Done, ForData
    <2> QED
        BY <1>5, <2>1, <2>3
<1>9. Image(UDATA) = Build!Zeros(sections[UDATA].size)
    BY <1>4, <1>5 DEF Image, Alike
<1>11. PICK off : off = Len(omf_segments[data_segment].data)
    OBVIOUS
<1>12. PICK b : b = Image(UDATA)
    OBVIOUS
<1>13. b \in Seq(Byte)
    BY <1>4, <1>5, <1>12, Images
<1>14. Longer(omf_segments, data_segment, b, omf_segments')
    BY <1>2, <1>9, <1>12
<1>15. /\ Segments(omf_segments') /\ Grown(omf_segments, omf_segments')
       /\ DOMAIN omf_segments' = DOMAIN omf_segments
       /\ off \in Nat /\ Holds(omf_segments', data_segment, off, b)
    BY <1>4, <1>11, <1>13, <1>14, ExtendGrows
<1>16. Shape'
    <2>1. \A v \in DOMAIN linked : Alike(v)'
        BY <1>1, <1>4 DEF Alike
    <2>2. DOMAIN remap' = DOMAIN linked
        BY <1>1, <1>4
    <2> QED
        BY <1>1, <1>4, <1>15, <2>1, <2>2 DEF Shape
<1>17. \A u \in DOMAIN linked : u # UDATA => sections'[u].data = sections[u].data
    BY <1>1
<1>18. /\ remap' = [remap EXCEPT ![UDATA] = [segnum |-> data_segment, offset |-> off]]
       /\ Holds(omf_segments', data_segment, off, Image(UDATA))
    BY <1>1, <1>11, <1>12, <1>15
<1>19. PlacedInv'
    BY <1>3, <1>5, <1>8, <1>11, <1>15, <1>16, <1>17, <1>18, PlacedOne
<1> QED
    BY <1>15, <1>16, <1>19

LEMMA GrownTwice ==
    ASSUME NEW o, Segments(o), NEW p, Segments(p), NEW q, Segments(q), Grown(o, p), Grown(p, q)
    PROVE  Grown(o, q)
<1>1. DOMAIN o \subseteq DOMAIN p /\ DOMAIN p \subseteq DOMAIN q
    BY DEF Grown, BytesKept
<1>2. ASSUME NEW g \in DOMAIN o
      PROVE  /\ Len(o[g].data) <= Len(q[g].data)
             /\ \A k \in 1 .. Len(o[g].data) : q[g].data[k] = o[g].data[k]
    <2>1. Len(o[g].data) \in Nat /\ Len(p[g].data) \in Nat /\ Len(q[g].data) \in Nat
        BY <1>1 DEF Segments, IsSegment
    <2>2. Len(o[g].data) <= Len(p[g].data) /\ Len(p[g].data) <= Len(q[g].data)
        BY <1>1 DEF Grown, BytesKept
    <2>3. \A k \in 1 .. Len(o[g].data) : k \in 1 .. Len(p[g].data)
        BY <2>1, <2>2
    <2>4. \A k \in 1 .. Len(o[g].data) : q[g].data[k] = o[g].data[k]
        BY <1>1, <2>3 DEF Grown, BytesKept
    <2> QED
        BY <2>1, <2>2, <2>4
<1>3. ASSUME NEW g \in DOMAIN q, NEW c \in Kinds
      PROVE  q[g][c] = IF g \in DOMAIN o THEN o[g][c] ELSE << >>
    BY <1>1 DEF Grown, BytesKept
<1> QED
    BY <1>1, <1>2, <1>3 DEF Grown, BytesKept


LEMMA OwnPlaces ==
    ASSUME Ready, BuildStep, Build!OwnSegment, Shape, PlacedInv
    PROVE  Shape' /\ PlacedInv' /\ Grown(omf_segments, omf_segments')
<1>0. PICK s : s = Build!Segment(Len(omf_segments) + 1, "code", sections[at].name,
                                 sections[at].data)
    OBVIOUS
<1>1. /\ step = "own" /\ step' = "own" /\ at \in DOMAIN sections /\ at' = at + 1
      /\ ~Build!IsData(at) /\ ~Build!RefOnly(at) /\ at # CODE
      /\ sections' = [sections EXCEPT ![at].data = << >>]
      /\ omf_segments' = Append(omf_segments, s)
      /\ remap' = [remap EXCEPT ![at] = [segnum |-> Len(omf_segments) + 1, offset |-> 0]]
      /\ UNCHANGED << errors, item, data_segment, linked >>
    BY <1>0, Names1, BuildSteps DEF Build!OwnSegment, Build!NextSection
<1>3. Going /\ Going' /\ Placing /\ linked' = linked
    BY <1>1 DEF Going, Placing
<1>4. /\ Segments(omf_segments) /\ data_segment \in DOMAIN omf_segments
      /\ DOMAIN sections = DOMAIN linked /\ \A v \in DOMAIN linked : Alike(v)
      /\ Handed(linked) /\ errors \in Nat /\ DOMAIN remap = DOMAIN linked
      /\ at \in Nat \ {0} /\ item \in Nat \ {0}
    BY <1>3 DEF Shape
<1>5. at \in DOMAIN linked /\ ForOwn(at)
    BY <1>1, <1>4 DEF Build!IsData, Build!RefOnly, Alike, ForOwn
<1>6. at # UDATA /\ DOMAIN linked \subseteq Nat \ {0} /\ ~ForData(at)
    BY <1>4, <1>5, PredefinedPlaces DEF ForData, ForOwn
<1>8. \A u \in DOMAIN linked : u < at + 1 <=> u < at \/ u = at
    BY <1>4, <1>6
<1>9. at \notin Done /\ Done' = Done \cup {at}
    <2>1. Done = {v \in DOMAIN linked : \/ v = CODE \/ ForData(v) \/ v = UDATA
                                        \/ ForOwn(v) /\ v < at}
        BY <1>1 DEF Done
    <2>2. Done' = {v \in DOMAIN linked : \/ v = CODE \/ ForData(v) \/ v = UDATA
                                         \/ ForOwn(v) /\ v < at + 1}
        BY <1>1 DEF Done, ForData, ForOwn
    <2>3. ~(at < at)
        BY <1>4
    <2>4. at \notin Done
        BY <1>1, <1>6, <2>1, <2>3
    <2>6. \A v \in DOMAIN linked : v \in Done' <=> v \in Done \/ v = at
        BY <1>5, <1>8, <2>1, <2>2
    <2>7. Done \subseteq DOMAIN linked /\ Done' \subseteq DOMAIN linked
        BY <2>1, <2>2
    <2> QED
        BY <1>5, <2>4, <2>6, <2>7
<1>10. sections[at].data = linked[at].data /\ Image(at) = linked[at].data
    BY <1>3, <1>5, <1>6, <1>9 DEF PlacedInv, Image
<1>11. PICK g : g = Len(omf_segments) + 1
    OBVIOUS
<1>12. PICK b : b = Image(at)
    OBVIOUS
<1>13. b \in Seq(Byte)
    BY <1>4, <1>5, <1>12, Images
<1>14. s = Build!Segment(g, "code", sections[at].name, b)
    BY <1>0, <1>10, <1>11, <1>12
<1>15. IsSegment(s)
    BY <1>13, <1>14, NewSegment, Zenon
<1>16. \A c \in Kinds : s[c] = << >>
    BY <1>14, NewParts, Zenon
<1>17. s.data = b
    BY <1>14 DEF Build!Segment
<1>18. /\ Segments(omf_segments') /\ Grown(omf_segments, omf_segments')
       /\ DOMAIN omf_segments = 1 .. Len(omf_segments)
       /\ omf_segments'[g] = s
       /\ g \notin DOMAIN omf_segments /\ g \in DOMAIN omf_segments'
    <2>1. omf_segments' = Append(omf_segments, s)
        BY <1>1
    <2>2. PICK o, p : o = omf_segments /\ p = omf_segments'
        OBVIOUS
    <2>3. Segments(o) /\ p = Append(o, s)
        BY <1>4, <2>1, <2>2
    <2>4. /\ Segments(p) /\ Grown(o, p) /\ DOMAIN o = 1 .. Len(o)
          /\ p[Len(o) + 1] = s
          /\ Len(o) + 1 \notin DOMAIN o /\ Len(o) + 1 \in DOMAIN p
        BY <1>15, <1>16, <2>3, AppendGrows
    <2> QED
        BY <1>11, <2>2, <2>4
<1>19. Holds(omf_segments', g, 0, b)
    <2>1. omf_segments'[g].data = b
        BY <1>17, <1>18
    <2> QED
        BY <1>13, <1>18, <2>1, AppendHolds
<1>20. Shape'
    <2>1. DOMAIN sections' = DOMAIN linked /\ \A v \in DOMAIN linked : Alike(v)'
        BY <1>1, <1>3, <1>4, <1>5, AlikeEmptied
    <2>2. at + 1 \in Nat \ {0}
        BY <1>4
    <2>3. DOMAIN remap' = DOMAIN linked
        BY <1>1, <1>4
    <2>4. data_segment' \in DOMAIN omf_segments'
        BY <1>1, <1>4, <1>18 DEF Grown, BytesKept
    <2> QED
        BY <1>1, <1>4, <1>18, <2>1, <2>2, <2>3, <2>4 DEF Shape
<1>21. \A u \in DOMAIN linked : u # at => sections'[u].data = sections[u].data
    BY <1>1, <1>4
<1>22. /\ remap' = [remap EXCEPT ![at] = [segnum |-> g, offset |-> 0]]
       /\ Holds(omf_segments', g, 0, Image(at))
    BY <1>1, <1>11, <1>12, <1>19
<1>23. 0 \in Nat
    OBVIOUS
<1>24. PlacedInv'
    BY <1>3, <1>5, <1>9, <1>18, <1>20, <1>21, <1>22, <1>23, PlacedOne
<1> QED
    BY <1>18, <1>20, <1>24

LEMMA StackPlaces ==
    ASSUME Ready, BuildStep, Build!StackSegment, Shape, PlacedInv
    PROVE  Shape' /\ PlacedInv' /\ Grown(omf_segments, omf_segments')
<1>1. /\ step = "own" /\ step' = "convert" /\ at \notin DOMAIN sections
      /\ at' = 1 /\ item' = 1
      /\ UNCHANGED << sections, errors, data_segment, linked >>
    BY BuildSteps DEF Build!StackSegment, Build!GoTo
<1>3. Going /\ Going' /\ Placing /\ ~Placing' /\ linked' = linked
    BY <1>1 DEF Going, Placing
<1>4. /\ Segments(omf_segments) /\ data_segment \in DOMAIN omf_segments
      /\ DOMAIN sections = DOMAIN linked /\ \A v \in DOMAIN linked : Alike(v)
      /\ Handed(linked) /\ errors \in Nat /\ DOMAIN remap = DOMAIN linked
      /\ at \in Nat \ {0}
    BY <1>3 DEF Shape
<1>5. PAGE0 \in DOMAIN linked /\ at \notin DOMAIN linked
    BY <1>1, <1>4, PredefinedPlaces
<1>7. \A u \in DOMAIN linked : u < at
    <2>1. PICK m \in Nat : DOMAIN linked = 1 .. m
        BY <1>4 DEF Handed
    <2> QED
        BY <1>4, <1>5, <2>1
<1>8. Done' = Done
    BY <1>1, <1>7 DEF Done, ForData, ForOwn
<1>9. Len(omf_segments) \in Nat /\ DOMAIN omf_segments = 1 .. Len(omf_segments)
    BY <1>4, SegmentNumbers
<1>10. remap[PAGE0].segnum \in 0 .. Len(omf_segments) /\ remap[PAGE0].offset \in Nat
    BY <1>3, <1>5 DEF PlacedInv
<1>11. /\ Segments(omf_segments') /\ Grown(omf_segments, omf_segments')
       /\ DOMAIN remap' = DOMAIN linked
       /\ \A v \in DOMAIN linked : v # PAGE0 => remap'[v] = remap[v]
       /\ remap'[PAGE0].segnum \in 0 .. Len(omf_segments') /\ remap'[PAGE0].offset \in Nat
    <2>1. CASE UNCHANGED << omf_segments, remap >>
        BY <1>4, <1>10, <2>1, GrownNot
    <2>2. CASE ~UNCHANGED << omf_segments, remap >>
        <3>1. PICK s : s = Build!Segment(Len(omf_segments) + 1, "stack", "",
                               Build!Zeros(Build!Pages(sections[PAGE0].size)))
            OBVIOUS
        <3>2. PICK t : t = [s EXCEPT !.data = << >>]
            OBVIOUS
        <3>3. PICK found \in {Len(omf_segments) + 1, 0} :
                  remap' = [remap EXCEPT ![PAGE0] = [segnum |-> found, offset |-> 0]]
            BY <2>2, Names1 DEF Build!StackSegment
        <3>4. omf_segments' = omf_segments \o << t, s >>
            BY <2>2, <3>1, <3>2, Names1 DEF Build!StackSegment
        <3>5. IsSegment(s) /\ \A c \in Kinds : s[c] = << >>
            <4>1. Build!Pages(sections[PAGE0].size) \in Nat
                <5>1. sections[PAGE0].size \in Nat
                    BY <1>4, <1>5 DEF Alike, IsSection
                <5> QED
                    BY <5>1, BuildAssumption DEF Build!Pages
            <4>2. PICK z : z = Build!Zeros(Build!Pages(sections[PAGE0].size))
                OBVIOUS
            <4>3. z \in Seq(Byte) /\ s = Build!Segment(Len(omf_segments) + 1, "stack", "", z)
                BY <3>1, <4>1, <4>2, ZerosType
            <4>4. IsSegment(s)
                BY <4>3, NewSegment, Zenon
            <4>5. \A c \in Kinds : s[c] = << >>
                BY <4>3, NewParts, Zenon
            <4> QED
                BY <4>4, <4>5
        <3>6. IsSegment(t) /\ \A c \in Kinds : t[c] = << >>
            <4>1. t = [segnum |-> s.segnum, kind |-> s.kind, name |-> s.name, data |-> << >>,
                       patches |-> s.patches, relocs |-> s.relocs,
                       intersegs |-> s.intersegs]
                BY <3>2, <3>5 DEF IsSegment
            <4>2. \A c \in Kinds : t[c] = s[c]
                BY <4>1 DEF Kinds
            <4>3. t.data = << >> /\ << >> \in Seq(Byte)
                BY <4>1
            <4>4. t = [segnum |-> t.segnum, kind |-> t.kind, name |-> t.name,
                       data |-> t.data, patches |-> t.patches, relocs |-> t.relocs,
                       intersegs |-> t.intersegs]
                BY <4>1
            <4>5. \A c \in Kinds : IsSequence(t[c])
                BY <3>5, <4>2 DEF IsSegment
            <4>6. IsSegment(t)
                BY <4>3, <4>4, <4>5 DEF IsSegment
            <4> QED
                BY <3>5, <4>2, <4>6
        <3>7. PICK o1 : o1 = Append(omf_segments, t)
            OBVIOUS
        <3>8. /\ Segments(o1) /\ Grown(omf_segments, o1) /\ Len(o1) = Len(omf_segments) + 1
              /\ DOMAIN o1 = 1 .. Len(omf_segments) + 1
            BY <1>4, <3>6, <3>7, AppendGrows
        <3>9. omf_segments' = Append(o1, s)
            <4>1. omf_segments \in Seq({omf_segments[g] : g \in DOMAIN omf_segments})
                BY <1>4 DEF Segments, IsSequence
            <4> QED
                BY <3>4, <3>7, <4>1
        <3>10. /\ Segments(omf_segments') /\ Grown(o1, omf_segments')
               /\ Len(omf_segments') = Len(o1) + 1
            BY <3>5, <3>8, <3>9, AppendGrows
        <3>11. Grown(omf_segments, omf_segments')
            BY <1>4, <3>8, <3>10, GrownTwice
        <3>12. Len(omf_segments') = Len(omf_segments) + 2 /\ found \in 0 .. Len(omf_segments')
            BY <1>9, <3>3, <3>8, <3>10
        <3>13. /\ DOMAIN remap' = DOMAIN linked /\ remap'[PAGE0].segnum = found
               /\ remap'[PAGE0].offset = 0
               /\ \A v \in DOMAIN linked : v # PAGE0 => remap'[v] = remap[v]
            BY <1>4, <1>5, <3>3
        <3> QED
            BY <3>10, <3>11, <3>12, <3>13
    <2> QED
        BY <2>1, <2>2
<1>12. Shape'
    <2>1. \A v \in DOMAIN linked : Alike(v)'
        BY <1>1, <1>4 DEF Alike
    <2>2. data_segment' \in DOMAIN omf_segments'
        BY <1>1, <1>4, <1>11 DEF Grown, BytesKept
    <2> QED
        BY <1>1, <1>4, <1>11, <2>1, <2>2 DEF Shape
<1>13. PlacedInv'
    BY <1>3, <1>8, <1>11, <1>12, PlacedStill DEF Grown
<1> QED
    BY <1>11, <1>12, <1>13

-----------------------------------------------------------------------------
(* The expressions, one after another. *)

Converting == step \in {"convert", "to_omf", "built"}

(* An expression that to_omf() has had, and one whose offset has moved.    *)
Handled(v, j) ==
    Converting /\ (step = "built" \/ v < at \/ (v = at /\ j < item))
Moved(v, j) == Handled(v, j) \/ (step = "to_omf" /\ v = at /\ j = item)

(* Where its bytes are in the segment of its section. *)
PatchAt(v, j) == linked[v].expressions[j].offset + remap[v].offset

ConversionInv ==
    Going =>
        /\ step = "to_omf" => at \in DOMAIN linked /\ item \in DOMAIN linked[at].expressions
        /\ step = "built" => at \notin DOMAIN linked
        /\ \A v \in DOMAIN linked : \A j \in DOMAIN linked[v].expressions :
               /\ sections[v].expressions[j].size = linked[v].expressions[j].size
               /\ sections[v].expressions[j].offset =
                      IF Moved(v, j) THEN PatchAt(v, j) ELSE linked[v].expressions[j].offset

LEMMA AdjustEffect ==
    ASSUME Ready, BuildStep, Build!Adjust, Shape, PlacedInv
    PROVE  /\ step = "convert" /\ step' = "to_omf" /\ at \in DOMAIN linked
           /\ item \in DOMAIN linked[at].expressions
           /\ UNCHANGED << linked, errors, at, item, omf_segments, remap, data_segment >>
           /\ Shape'
           /\ sections'[at].expressions[item].size = sections[at].expressions[item].size
           /\ sections'[at].expressions[item].offset =
                  sections[at].expressions[item].offset + remap[at].offset
           /\ \A v \in DOMAIN linked : \A j \in DOMAIN linked[v].expressions :
                  v # at \/ j # item =>
                      sections'[v].expressions[j] = sections[v].expressions[j]
<1>0. PICK e : e = Build!Adjusted
    OBVIOUS
<1>1. /\ step = "convert" /\ step' = "to_omf" /\ at \in DOMAIN sections
      /\ item \in DOMAIN sections[at].expressions
      /\ UNCHANGED << linked, errors, at, item, omf_segments, remap, data_segment >>
      /\ sections' = [sections EXCEPT ![at].expressions[item] = e]
    BY <1>0, BuildSteps DEF Build!Adjust, Build!AtExpression, Build!made
<1>2. Going /\ Going'
    BY <1>1 DEF Going
<1>3. /\ DOMAIN sections = DOMAIN linked /\ Handed(linked)
      /\ \A v \in DOMAIN linked : Alike(v)
    BY <1>2 DEF Shape
<1>4. IsSection(sections[at]) /\ at \in DOMAIN linked
      /\ item \in DOMAIN linked[at].expressions
    BY <1>1, <1>3 DEF Alike
<1>5. PICK r : r = sections[at].expressions[item]
    OBVIOUS
<1>6. IsExpression(r)
    BY <1>1, <1>4, <1>5 DEF IsSection
<1>7. PICK w : w = Build!Fold.v
    OBVIOUS
<1>8. remap[at].offset \in Nat
    BY <1>2, <1>4 DEF PlacedInv
<1>9. PICK off : off = remap[at].offset
    OBVIOUS
<1>10. e = [r EXCEPT !.offset = r.offset + off, !.stack = w]
    BY <1>0, <1>5, <1>7, <1>9 DEF Build!Adjusted, Build!Raw
<1>11. PICK q : q = r.offset + off
    OBVIOUS
<1>12. e = [section |-> r.section, offset |-> q, size |-> r.size,
            relative |-> r.relative, stack |-> w, undefined |-> r.undefined,
            by |-> r.by, source |-> r.source]
    BY <1>6, <1>10, <1>11 DEF IsExpression
<1>13. q \in Nat /\ r.size \in Nat
    BY <1>6, <1>8, <1>9, <1>11 DEF IsExpression
<1>14. IsExpression(e)
    BY <1>12, <1>13 DEF IsExpression
<1>15. e.size = r.size /\ e.offset = q
    BY <1>12
<1>16. /\ DOMAIN sections' = DOMAIN sections /\ IsSection(sections'[at])
       /\ sections'[at].flags = sections[at].flags /\ sections'[at].size = sections[at].size
       /\ DOMAIN sections'[at].expressions = DOMAIN sections[at].expressions
       /\ sections'[at].expressions[item] = e
       /\ \A k \in DOMAIN sections[at].expressions :
              k # item => sections'[at].expressions[k] = sections[at].expressions[k]
       /\ \A v \in DOMAIN sections : v # at => sections'[v] = sections[v]
    BY <1>1, <1>4, <1>14, ExpressionSet
<1>17. Shape'
    <2>1. ASSUME NEW v \in DOMAIN linked PROVE Alike(v)'
        <3>1. CASE v = at
            BY <1>1, <1>3, <1>4, <1>16, <3>1 DEF Alike
        <3>2. CASE v # at
            BY <1>1, <1>3, <1>16, <3>2 DEF Alike
        <3> QED
            BY <3>1, <3>2
    <2> QED
        BY <1>1, <1>2, <1>3, <1>16, <2>1 DEF Shape
<1>18. ASSUME NEW v \in DOMAIN linked, NEW j \in DOMAIN linked[v].expressions,
              v # at \/ j # item
       PROVE  sections'[v].expressions[j] = sections[v].expressions[j]
    <2>1. CASE v = at
        <3>1. j \in DOMAIN sections[at].expressions /\ j # item
            BY <1>3, <1>4, <1>18, <2>1 DEF Alike
        <3> QED
            BY <1>16, <2>1, <3>1
    <2>2. CASE v # at
        BY <1>3, <1>16, <2>2
    <2> QED
        BY <2>1, <2>2
<1> QED
    BY <1>1, <1>4, <1>5, <1>9, <1>11, <1>15, <1>16, <1>17, <1>18

(* One record more, in one list of one segment. *)
Adds(g, c, r) ==
    /\ g \in DOMAIN omf_segments /\ DOMAIN omf_segments' = DOMAIN omf_segments
    /\ \A h \in DOMAIN omf_segments : omf_segments'[h].data = omf_segments[h].data
    /\ Len(omf_segments[g][c]) \in Nat
    /\ DOMAIN omf_segments[g][c] = 1 .. Len(omf_segments[g][c])
    /\ DOMAIN omf_segments'[g][c] = 1 .. Len(omf_segments[g][c]) + 1
    /\ omf_segments'[g][c][Len(omf_segments[g][c]) + 1] = r
    /\ \A k \in DOMAIN omf_segments[g][c] : omf_segments'[g][c][k] = omf_segments[g][c][k]
    /\ \A h \in DOMAIN omf_segments : \A d \in Kinds :
           h # g \/ d # c => omf_segments'[h][d] = omf_segments[h][d]

LEMMA RecordAdds ==
    ASSUME Segments(omf_segments), NEW g \in DOMAIN omf_segments, NEW c \in Kinds, NEW r,
           omf_segments' = [omf_segments EXCEPT ![g] =
                               [omf_segments[g] EXCEPT ![c] = Append(@, r)]]
    PROVE  Segments(omf_segments') /\ Adds(g, c, r)
<1>1. PICK o, p : o = omf_segments /\ p = omf_segments'
    OBVIOUS
<1>2. Listed(o, g, c, r, p)
    BY <1>1 DEF Listed
<1>3. Segments(o) /\ g \in DOMAIN o
    BY <1>1
<1>4. Segments(p)
    BY <1>2, <1>3, RecordAdded
<1>5. DOMAIN p = DOMAIN o
    BY <1>2, <1>3, RecordAdded
<1>6. p[g].data = o[g].data
    BY <1>2, <1>3, RecordAdded
<1>7. p[g][c] = Append(o[g][c], r)
    BY <1>2, <1>3, RecordAdded
<1>8. \A d \in Kinds : d # c => p[g][d] = o[g][d]
    BY <1>2, <1>3, RecordAdded
<1>9. \A h \in DOMAIN o : h # g => p[h] = o[h]
    BY <1>2, <1>3, RecordAdded
<1>10. PICK s, t : s = o[g][c] /\ t = p[g][c]
    OBVIOUS
<1>11. IsSequence(s) /\ t = Append(s, r)
    BY <1>3, <1>7, <1>10 DEF Segments, IsSegment
<1>12. /\ Len(s) \in Nat /\ DOMAIN s = 1 .. Len(s) /\ DOMAIN t = 1 .. Len(s) + 1
       /\ t[Len(s) + 1] = r /\ \A k \in DOMAIN s : t[k] = s[k]
    BY <1>11, OneMore
<1>13. \A h \in DOMAIN o : p[h].data = o[h].data
    BY <1>6, <1>9
<1>14. \A h \in DOMAIN o : \A d \in Kinds : h # g \/ d # c => p[h][d] = o[h][d]
    BY <1>8, <1>9
<1>15. Adds(g, c, r)
    BY <1>1, <1>3, <1>5, <1>10, <1>12, <1>13, <1>14 DEF Adds
<1> QED
    BY <1>1, <1>4, <1>15

LEMMA ToOmfEffect ==
    ASSUME Ready, BuildStep, ToOmf, Shape, PlacedInv, ConversionInv
    PROVE  /\ step = "to_omf" /\ step' = "convert" /\ at \in DOMAIN linked
           /\ item \in DOMAIN linked[at].expressions /\ item' = item + 1
           /\ UNCHANGED << linked, sections, at, remap, data_segment >>
           /\ Shape' /\ errors \in Nat /\ errors' \in Nat /\ errors' >= errors
           /\ \/ \E c \in Kinds : \E r :
                     /\ Adds(remap[at].segnum, c, r)
                     /\ r.offset = sections[at].expressions[item].offset
                     /\ r.size = sections[at].expressions[item].size
              \/ /\ UNCHANGED omf_segments
                 /\ Needless(sections[at].expressions[item]) \/ errors' > errors
<1>1. step = "to_omf"
    BY DEF ToOmf, Build!Converting, Build!EmptyExpression, Build!PatchBranch,
           Build!PatchConstant, Build!Relocate, Build!RelocateOther,
           Build!ShiftTooLarge, Build!Refuse
<1>2. Going
    BY <1>1 DEF Going
<1>3. /\ Segments(omf_segments) /\ data_segment \in DOMAIN omf_segments
      /\ DOMAIN sections = DOMAIN linked /\ \A v \in DOMAIN linked : Alike(v)
      /\ Handed(linked) /\ errors \in Nat /\ DOMAIN remap = DOMAIN linked
      /\ at \in Nat \ {0} /\ item \in Nat \ {0}
    BY <1>2 DEF Shape
<1>4. at \in DOMAIN linked /\ item \in DOMAIN linked[at].expressions
    BY <1>1, <1>2 DEF ConversionInv
<1>5. PICK e : e = Build!E
    OBVIOUS
<1>6. e = sections[at].expressions[item]
    BY <1>5 DEF Build!E
<1>7. e.size \in Nat
    BY <1>3, <1>4, <1>6 DEF Alike, IsSection, IsExpression
<1>8. /\ step' = "convert" /\ item' = item + 1 /\ remap[at].segnum # 0
      /\ UNCHANGED << sections, at, remap, data_segment >>
      /\ errors' \in Nat /\ errors' >= errors
      /\ \/ \E c \in Kinds : \E r : Recorded(c, r)
         \/ UNCHANGED omf_segments /\ (Needless(Build!E) \/ errors' > errors)
    BY <1>3, <1>5, <1>7, Conversions
<1>9. linked' = linked
    BY BuildSteps
<1>10. remap[at].segnum \in DOMAIN omf_segments
    <2>1. remap[at].segnum \in 0 .. Len(omf_segments)
        BY <1>2, <1>4 DEF PlacedInv
    <2>2. Len(omf_segments) \in Nat /\ DOMAIN omf_segments = 1 .. Len(omf_segments)
        BY <1>3, SegmentNumbers
    <2> QED
        BY <1>8, <2>1, <2>2
<1>11. /\ Segments(omf_segments') /\ DOMAIN omf_segments' = DOMAIN omf_segments
       /\ \/ \E c \in Kinds : \E r : /\ Adds(remap[at].segnum, c, r)
                                     /\ r.offset = e.offset /\ r.size = e.size
          \/ UNCHANGED omf_segments /\ (Needless(e) \/ errors' > errors)
    <2>1. CASE UNCHANGED omf_segments /\ (Needless(Build!E) \/ errors' > errors)
        BY <1>3, <1>5, <2>1
    <2>2. CASE \E c \in Kinds : \E r : Recorded(c, r)
        <3>1. PICK c \in Kinds : \E r : Recorded(c, r)
            BY <2>2
        <3>2. PICK r : Recorded(c, r)
            BY <3>1
        <3>3. PICK g : g = remap[at].segnum
            OBVIOUS
        <3>4. omf_segments' = [omf_segments EXCEPT ![g] =
                                  [omf_segments[g] EXCEPT ![c] = Append(@, r)]]
            BY <3>2, <3>3 DEF Recorded
        <3>5. Segments(omf_segments') /\ Adds(g, c, r)
            BY <1>3, <1>10, <3>3, <3>4, RecordAdds
        <3>6. r.offset = e.offset /\ r.size = e.size
            BY <1>5, <3>2 DEF Recorded
        <3>7. DOMAIN omf_segments' = DOMAIN omf_segments
            BY <3>5 DEF Adds
        <3> QED
            BY <3>3, <3>5, <3>6, <3>7
    <2> QED
        BY <1>8, <2>1, <2>2
<1>12. Shape'
    <2>1. \A v \in DOMAIN linked : Alike(v)'
        BY <1>3, <1>8, <1>9 DEF Alike
    <2>2. item + 1 \in Nat \ {0}
        BY <1>3
    <2> QED
        BY <1>3, <1>8, <1>9, <1>11, <2>1, <2>2 DEF Shape
<1> QED
    BY <1>1, <1>3, <1>4, <1>6, <1>8, <1>9, <1>11, <1>12

LEMMA NextEffect ==
    ASSUME Ready, BuildStep, Build!NextExpressions \/ Build!Built, Shape
    PROVE  /\ Shape' /\ step = "convert"
           /\ UNCHANGED << linked, sections, errors, omf_segments, remap, data_segment >>
           /\ \/ /\ step' = "convert" /\ at \in DOMAIN linked /\ at' = at + 1 /\ item' = 1
                 /\ item \notin DOMAIN linked[at].expressions
              \/ step' = "built" /\ at \notin DOMAIN linked /\ UNCHANGED << at, item >>
<1>1. /\ step = "convert"
      /\ UNCHANGED << linked, sections, errors, omf_segments, remap, data_segment >>
      /\ \/ /\ step' = "convert" /\ at \in DOMAIN sections /\ at' = at + 1 /\ item' = 1
            /\ item \notin DOMAIN sections[at].expressions
         \/ step' = "built" /\ at \notin DOMAIN sections /\ UNCHANGED << at, item >>
    BY BuildSteps DEF Build!NextExpressions, Build!Built, Build!made
<1>2. Going
    BY <1>1 DEF Going
<1>3. /\ Segments(omf_segments) /\ data_segment \in DOMAIN omf_segments
      /\ DOMAIN sections = DOMAIN linked /\ \A v \in DOMAIN linked : Alike(v)
      /\ Handed(linked) /\ errors \in Nat /\ DOMAIN remap = DOMAIN linked
      /\ at \in Nat \ {0} /\ item \in Nat \ {0}
    BY <1>2 DEF Shape
<1>4. \A v \in DOMAIN linked : Alike(v)'
    BY <1>1, <1>3 DEF Alike
<1>5. at' \in Nat \ {0} /\ item' \in Nat \ {0}
    BY <1>1, <1>3
<1>6. Shape'
    BY <1>1, <1>3, <1>4, <1>5 DEF Shape
<1> QED
    BY <1>1, <1>3, <1>6 DEF Alike

LEMMA ExpressionNumbers ==
    ASSUME Handed(linked), NEW v \in DOMAIN linked
    PROVE  \E m \in Nat : DOMAIN linked[v].expressions = 1 .. m
<1>1. IsSection(linked[v])
    BY HandedParts
<1> QED
    BY <1>1 DEF IsSection

(* Which expressions have been handled, from step to step. *)
LEMMA HandledSteps ==
    ASSUME Handed(linked), linked' = linked, at \in Nat \ {0}, item \in Nat \ {0},
           NEW v \in DOMAIN linked, NEW j \in DOMAIN linked[v].expressions
    PROVE  /\ ~Converting => ~Handled(v, j) /\ ~Moved(v, j)
           /\ Placing /\ step' = "convert" /\ at' = 1 /\ item' = 1 =>
                  ~Handled(v, j)' /\ ~Moved(v, j)'
           /\ step = "convert" /\ step' = "to_omf" /\ at' = at /\ item' = item =>
                  /\ Handled(v, j)' <=> Handled(v, j)
                  /\ Moved(v, j) <=> Handled(v, j)
                  /\ Moved(v, j)' <=> Handled(v, j) \/ (v = at /\ j = item)
                  /\ Handled(v, j) => ~(v = at /\ j = item)
           /\ step = "to_omf" /\ step' = "convert" /\ at' = at /\ item' = item + 1 =>
                  /\ Handled(v, j)' <=> Handled(v, j) \/ (v = at /\ j = item)
                  /\ Moved(v, j)' <=> Handled(v, j)'
                  /\ Moved(v, j) <=> Handled(v, j)'
                  /\ Handled(v, j) => v < at \/ (v = at /\ j < item)
           /\ step = "convert" /\ step' = "convert" /\ at' = at + 1 /\ item' = 1
              /\ at \in DOMAIN linked /\ item \notin DOMAIN linked[at].expressions =>
                  /\ Handled(v, j)' <=> Handled(v, j)
                  /\ Moved(v, j) <=> Handled(v, j)
                  /\ Moved(v, j)' <=> Handled(v, j)
           /\ step = "convert" /\ step' = "built" /\ at \notin DOMAIN linked =>
                  /\ Handled(v, j)' <=> Handled(v, j)
                  /\ Moved(v, j) <=> Handled(v, j)
                  /\ Moved(v, j)' <=> Handled(v, j)
<1>1. PICK m \in Nat : DOMAIN linked[v].expressions = 1 .. m
    BY ExpressionNumbers
<1>2. PICK n \in Nat : DOMAIN linked = 1 .. n
    BY DEF Handed
<1>3. v \in 1 .. n /\ j \in 1 .. m
    BY <1>1, <1>2
<1>4. ~(v < 1) /\ ~(j < 1) /\ ~(at < at) /\ ~(item < item)
    BY <1>3
<1>5. ~Converting => ~Handled(v, j) /\ ~Moved(v, j)
    BY DEF Converting, Handled, Moved
<1>6. ASSUME Placing, step' = "convert", at' = 1, item' = 1
      PROVE  ~Handled(v, j)' /\ ~Moved(v, j)'
    BY <1>4, <1>6 DEF Handled, Moved
<1>7. ASSUME step = "convert", step' = "to_omf", at' = at, item' = item
      PROVE  /\ Handled(v, j)' <=> Handled(v, j)
             /\ Moved(v, j) <=> Handled(v, j)
             /\ Moved(v, j)' <=> Handled(v, j) \/ (v = at /\ j = item)
             /\ Handled(v, j) => ~(v = at /\ j = item)
    BY <1>4, <1>7 DEF Handled, Moved, Converting
<1>8. ASSUME step = "to_omf", step' = "convert", at' = at, item' = item + 1
      PROVE  /\ Handled(v, j)' <=> Handled(v, j) \/ (v = at /\ j = item)
             /\ Moved(v, j)' <=> Handled(v, j)'
             /\ Moved(v, j) <=> Handled(v, j)'
             /\ Handled(v, j) => v < at \/ (v = at /\ j < item)
    <2>1. j < item + 1 <=> j < item \/ j = item
        BY <1>3
    <2> QED
        BY <1>8, <2>1 DEF Handled, Moved, Converting
<1>9. ASSUME step = "convert", step' = "convert", at' = at + 1, item' = 1,
             at \in DOMAIN linked, item \notin DOMAIN linked[at].expressions
      PROVE  /\ Handled(v, j)' <=> Handled(v, j)
             /\ Moved(v, j) <=> Handled(v, j)
             /\ Moved(v, j)' <=> Handled(v, j)
    <2>1. v < at + 1 <=> v < at \/ v = at
        BY <1>3
    <2>2. v = at => j < item
        BY <1>1, <1>3, <1>9
    <2> QED
        BY <1>4, <1>9, <2>1, <2>2 DEF Handled, Moved, Converting
<1>10. ASSUME step = "convert", step' = "built", at \notin DOMAIN linked
       PROVE  /\ Handled(v, j)' <=> Handled(v, j)
              /\ Moved(v, j) <=> Handled(v, j)
              /\ Moved(v, j)' <=> Handled(v, j)
    <2>1. v < at
        BY <1>2, <1>3, <1>10
    <2> QED
        BY <1>10, <2>1 DEF Handled, Moved, Converting
<1> QED
    BY <1>5, <1>6, <1>7, <1>8, <1>9, <1>10

(* The bytes stay where they are while the expressions are converted. *)
LEMMA PlacedConverts ==
    ASSUME PlacedInv, Shape, Shape', Going, Going', linked' = linked, remap' = remap,
           ~Placing, ~Placing', DOMAIN omf_segments' = DOMAIN omf_segments,
           \A h \in DOMAIN omf_segments : omf_segments'[h].data = omf_segments[h].data
    PROVE  PlacedInv'
<1>1. /\ Segments(omf_segments) /\ Segments(omf_segments') /\ Handed(linked)
    BY DEF Shape
<1>2. \A h \in DOMAIN omf_segments : Len(omf_segments[h].data) \in Nat
    BY <1>1 DEF Segments, IsSegment
<1>3. BytesKept(omf_segments, omf_segments')
    BY <1>2 DEF BytesKept
<1>4. Done' = Done
    BY DEF Done, Going, Placing, ForData, ForOwn
<1>5. remap[PAGE0].segnum \in 0 .. Len(omf_segments) /\ remap[PAGE0].offset \in Nat
    BY <1>1, HandedParts DEF PlacedInv
<1>6. Len(omf_segments') = Len(omf_segments)
    <2>1. /\ Len(omf_segments) \in Nat /\ DOMAIN omf_segments = 1 .. Len(omf_segments)
          /\ Len(omf_segments') \in Nat /\ DOMAIN omf_segments' = 1 .. Len(omf_segments')
        BY <1>1, SegmentNumbers
    <2>2. \A m, n \in Nat : 1 .. m = 1 .. n => m = n
        <3>1. SUFFICES ASSUME NEW m \in Nat, NEW n \in Nat, 1 .. m = 1 .. n PROVE m = n
            OBVIOUS
        <3>2. m = 0 \/ m \in 1 .. n
            BY <3>1
        <3>3. n = 0 \/ n \in 1 .. m
            BY <3>1
        <3> QED
            BY <3>2, <3>3
    <2> QED
        BY <2>1, <2>2
<1> QED
    BY <1>3, <1>4, <1>5, <1>6, PlacedStill

LEMMA CodePlaces ==
    ASSUME Ready, BuildStep, Build!CodeSegment
    PROVE  PlacedInv'
<1>1. /\ Shape' /\ linked = sections /\ Handed(linked) /\ linked' = linked
      /\ step' = "merge"
      /\ sections' = [sections EXCEPT ![CODE].data = << >>]
      /\ remap' = [v \in DOMAIN linked |-> IF v = CODE THEN [segnum |-> 1, offset |-> 0]
                                           ELSE [segnum |-> 0, offset |-> 0]]
      /\ DOMAIN omf_segments' = {1} /\ omf_segments'[1].data = linked[CODE].data
    BY CodeShape
<1>2. CODE \in DOMAIN linked /\ CODE # UDATA
    BY <1>1, PredefinedPlaces
<1>3. Done' = {CODE}
    BY <1>1, <1>2 DEF Done
<1>4. /\ remap'[CODE].segnum = 1 /\ remap'[CODE].offset = 0
      /\ \A v \in DOMAIN linked : v # CODE => remap'[v].segnum = 0 /\ remap'[v].offset = 0
    BY <1>1, <1>2
<1>5. Image(CODE)' = linked[CODE].data /\ Image(CODE) = linked[CODE].data
    BY <1>1, <1>2 DEF Image
<1>6. linked[CODE].data \in Seq(Byte)
    BY <1>1, <1>2, <1>5, Images
<1>7. Holds(omf_segments', 1, 0, linked[CODE].data)
    <2>1. 1 \in DOMAIN omf_segments'
        BY <1>1
    <2> QED
        BY <1>1, <1>6, <2>1, AppendHolds
<1>8. Segments(omf_segments')
    BY <1>1 DEF Shape, Going
<1>9. Len(omf_segments') \in Nat /\ 1 \in 1 .. Len(omf_segments')
    BY <1>1, <1>8, SegmentNumbers
<1>10. ASSUME NEW v \in DOMAIN linked
       PROVE  /\ remap'[v].segnum \in 0 .. Len(omf_segments') /\ remap'[v].offset \in Nat
              /\ v \notin Done' => v = PAGE0 \/ remap'[v].segnum = 0
    BY <1>3, <1>4, <1>9
<1>11. ASSUME NEW v \in DOMAIN linked, v \notin Done'
       PROVE  sections'[v].data = linked[v].data
    BY <1>1, <1>3, <1>11
<1>12. \A v \in Done' : Holds(omf_segments', remap'[v].segnum, remap'[v].offset, Image(v)')
    BY <1>3, <1>4, <1>5, <1>7
<1>13. \A v, w \in Done' : ~(v < w)
    BY <1>1, <1>2, <1>3, PredefinedPlaces
<1> QED
    BY <1>1, <1>10, <1>11, <1>12, <1>13 DEF PlacedInv

(* What the steps that place the sections leave alone. *)
LEMMA PlacingKeeps ==
    ASSUME Ready, BuildStep, Shape, PlacedInv, Placing
    PROVE  /\ Shape' /\ PlacedInv' /\ Grown(omf_segments, omf_segments') /\ linked' = linked
           /\ \/ Placing'
              \/ step' = "convert" /\ at' = 1 /\ item' = 1
           /\ \A v \in DOMAIN linked : sections'[v].expressions = sections[v].expressions
<1>1. \/ Build!MergeData \/ Build!DataSection \/ Build!SkipSection
      \/ Build!Udata \/ Build!OwnSegment \/ Build!StackSegment
    BY BuildCases DEF BuildStep, Placing
<1>2. Shape' /\ PlacedInv' /\ Grown(omf_segments, omf_segments')
    BY <1>1, MergePlaces, DataPlaces, SkipPlaces, UdataPlaces, OwnPlaces, StackPlaces
<1>3. \/ Placing'
      \/ step' = "convert" /\ at' = 1 /\ item' = 1
    BY <1>1 DEF Placing, Build!MergeData, Build!DataSection, Build!SkipSection,
           Build!Udata, Build!OwnSegment, Build!StackSegment, Build!GoTo, Build!NextSection
<1>4. \/ sections' = sections
      \/ at \in DOMAIN sections /\ sections' = [sections EXCEPT ![at].data = << >>]
    BY <1>1 DEF Build!MergeData, Build!DataSection, Build!SkipSection,
           Build!Udata, Build!OwnSegment, Build!StackSegment
<1>5. DOMAIN sections = DOMAIN linked /\ \A v \in DOMAIN linked : IsSection(sections[v])
    BY DEF Shape, Going, Placing, Alike
<1>6. ASSUME NEW v \in DOMAIN linked
      PROVE  sections'[v].expressions = sections[v].expressions
    <2>1. CASE sections' = sections
        BY <2>1
    <2>2. CASE at \in DOMAIN sections /\ sections' = [sections EXCEPT ![at].data = << >>]
        <3>1. IsSection(sections[at])
            BY <1>5, <2>2
        <3>2. /\ sections'[at].expressions = sections[at].expressions
              /\ \A w \in DOMAIN sections : w # at => sections'[w] = sections[w]
            BY <2>2, <3>1, Emptied
        <3> QED
            BY <1>5, <3>2
    <2> QED
        BY <1>4, <2>1, <2>2
<1>7. linked' = linked
    BY BuildSteps
<1> QED
    BY <1>2, <1>3, <1>6, <1>7

LEMMA ConversionKept ==
    ASSUME Ready, BuildStep, Shape, PlacedInv, ConversionInv, Going'
    PROVE  Shape' /\ PlacedInv' /\ ConversionInv'
<1>0. CASE step = "code"
    <2>1. Build!CodeSegment
        BY <1>0, BuildCases DEF BuildStep
    <2>2. /\ Shape' /\ linked = sections /\ Handed(linked) /\ linked' = linked /\ step' = "merge"
          /\ sections' = [sections EXCEPT ![CODE].data = << >>]
        BY <2>1, CodeShape
    <2>3. PlacedInv'
        BY <2>1, CodePlaces
    <2>4. CODE \in DOMAIN linked /\ IsSection(linked[CODE])
        BY <2>2, HandedParts
    <2>5. \A v \in DOMAIN linked : sections'[v].expressions = linked[v].expressions
        <3>1. /\ sections'[CODE].expressions = sections[CODE].expressions
              /\ \A v \in DOMAIN sections : v # CODE => sections'[v] = sections[v]
            BY <2>2, <2>4, Emptied
        <3> QED
            BY <2>2, <3>1
    <2>6. \A v \in DOMAIN linked : \A j \in DOMAIN linked[v].expressions : ~Moved(v, j)'
        BY <2>2 DEF Moved, Handled, Converting
    <2>7. ConversionInv'
        BY <2>2, <2>5, <2>6 DEF ConversionInv
    <2> QED
        BY <2>2, <2>3, <2>7
<1>1. CASE Placing
    <2>1. /\ Shape' /\ PlacedInv' /\ linked' = linked
          /\ \/ Placing'
             \/ step' = "convert" /\ at' = 1 /\ item' = 1
          /\ \A v \in DOMAIN linked : sections'[v].expressions = sections[v].expressions
        BY <1>1, PlacingKeeps
    <2>2. Handed(linked) /\ at \in Nat \ {0} /\ item \in Nat \ {0} /\ Going
        BY <1>1 DEF Shape, Going, Placing
    <2>3. ASSUME NEW v \in DOMAIN linked, NEW j \in DOMAIN linked[v].expressions
          PROVE  ~Moved(v, j) /\ ~Moved(v, j)'
        <3>1. ~Moved(v, j)
            BY <1>1 DEF Placing, Moved, Handled, Converting
        <3>2. CASE Placing'
            BY <3>1, <3>2 DEF Placing, Moved, Handled, Converting
        <3>3. CASE step' = "convert" /\ at' = 1 /\ item' = 1
            BY <1>1, <2>1, <2>2, <3>1, <3>3, HandledSteps
        <3> QED
            BY <2>1, <3>1, <3>2, <3>3
    <2>4. step' # "to_omf" /\ step' # "built"
        BY <2>1 DEF Placing
    <2>5. ConversionInv'
        BY <2>1, <2>2, <2>3, <2>4 DEF ConversionInv
    <2> QED
        BY <2>1, <2>5
<1>2. CASE step = "convert" /\ Build!Adjust
    <2>1. /\ step' = "to_omf" /\ at \in DOMAIN linked
          /\ item \in DOMAIN linked[at].expressions
          /\ UNCHANGED << linked, at, item, omf_segments, remap >>
          /\ Shape'
          /\ sections'[at].expressions[item].size = sections[at].expressions[item].size
          /\ sections'[at].expressions[item].offset =
                 sections[at].expressions[item].offset + remap[at].offset
          /\ \A v \in DOMAIN linked : \A j \in DOMAIN linked[v].expressions :
                 v # at \/ j # item =>
                     sections'[v].expressions[j] = sections[v].expressions[j]
        BY <1>2, AdjustEffect
    <2>2. Going /\ ~Placing /\ ~Placing'
        BY <1>2, <2>1 DEF Going, Placing
    <2>3. Handed(linked) /\ at \in Nat \ {0} /\ item \in Nat \ {0}
        BY <2>2 DEF Shape
    <2>4. PlacedInv'
        BY <2>1, <2>2, PlacedConverts
    <2>5. ASSUME NEW v \in DOMAIN linked, NEW j \in DOMAIN linked[v].expressions
          PROVE  /\ sections'[v].expressions[j].size = linked[v].expressions[j].size
                 /\ sections'[v].expressions[j].offset =
                        IF Moved(v, j)' THEN PatchAt(v, j)' ELSE linked[v].expressions[j].offset
        <3>1. /\ Moved(v, j) <=> Handled(v, j)
              /\ Moved(v, j)' <=> Handled(v, j) \/ (v = at /\ j = item)
              /\ Handled(v, j) => ~(v = at /\ j = item)
            BY <1>2, <2>1, <2>3, HandledSteps
        <3>2. PatchAt(v, j)' = PatchAt(v, j)
            BY <2>1 DEF PatchAt
        <3>3. /\ sections[v].expressions[j].size = linked[v].expressions[j].size
              /\ sections[v].expressions[j].offset =
                     IF Moved(v, j) THEN PatchAt(v, j) ELSE linked[v].expressions[j].offset
            BY <2>2 DEF ConversionInv
        <3>4. CASE v = at /\ j = item
            BY <2>1, <3>1, <3>2, <3>3, <3>4 DEF PatchAt
        <3>5. CASE ~(v = at /\ j = item)
            BY <2>1, <3>1, <3>2, <3>3, <3>5
        <3> QED
            BY <3>4, <3>5
    <2>6. ConversionInv'
        BY <2>1, <2>5 DEF ConversionInv
    <2> QED
        BY <2>1, <2>4, <2>6
<1>3. CASE step = "to_omf" /\ ToOmf
    <2>1. /\ step' = "convert" /\ item' = item + 1
          /\ UNCHANGED << linked, sections, at, remap >>
          /\ Shape'
          /\ \/ \E c \in Kinds : \E r : Adds(remap[at].segnum, c, r)
             \/ UNCHANGED omf_segments
        BY <1>3, ToOmfEffect
    <2>2. Going /\ ~Placing /\ ~Placing'
        BY <1>3, <2>1 DEF Going, Placing
    <2>3. Handed(linked) /\ at \in Nat \ {0} /\ item \in Nat \ {0}
        BY <2>2 DEF Shape
    <2>4. /\ DOMAIN omf_segments' = DOMAIN omf_segments
          /\ \A h \in DOMAIN omf_segments : omf_segments'[h].data = omf_segments[h].data
        BY <2>1 DEF Adds
    <2>5. PlacedInv'
        BY <2>1, <2>2, <2>4, PlacedConverts
    <2>6. ASSUME NEW v \in DOMAIN linked, NEW j \in DOMAIN linked[v].expressions
          PROVE  (Moved(v, j)' <=> Moved(v, j)) /\ PatchAt(v, j)' = PatchAt(v, j)
        BY <1>3, <2>1, <2>3, HandledSteps DEF PatchAt
    <2>7. ConversionInv'
        BY <2>1, <2>2, <2>6 DEF ConversionInv
    <2> QED
        BY <2>1, <2>5, <2>7
<1>4. CASE step = "convert" /\ (Build!NextExpressions \/ Build!Built)
    <2>1. /\ Shape'
          /\ UNCHANGED << linked, sections, omf_segments, remap >>
          /\ \/ /\ step' = "convert" /\ at \in DOMAIN linked /\ at' = at + 1 /\ item' = 1
                /\ item \notin DOMAIN linked[at].expressions
             \/ step' = "built" /\ at \notin DOMAIN linked /\ UNCHANGED << at, item >>
        BY <1>4, NextEffect
    <2>2. Going /\ ~Placing /\ ~Placing'
        BY <1>4, <2>1 DEF Going, Placing
    <2>3. Handed(linked) /\ at \in Nat \ {0} /\ item \in Nat \ {0}
        BY <2>2 DEF Shape
    <2>4. PlacedInv'
        BY <2>1, <2>2, PlacedConverts
    <2>5. ASSUME NEW v \in DOMAIN linked, NEW j \in DOMAIN linked[v].expressions
          PROVE  (Moved(v, j)' <=> Moved(v, j)) /\ PatchAt(v, j)' = PatchAt(v, j)
        BY <1>4, <2>1, <2>3, HandledSteps DEF PatchAt
    <2>6. ConversionInv'
        BY <2>1, <2>2, <2>5 DEF ConversionInv
    <2> QED
        BY <2>1, <2>4, <2>6
<1>5. CASE Build!ConversionDies
    <2>1. step' = "aborted"
        BY <1>5 DEF Build!ConversionDies
    <2> QED
        BY <2>1 DEF Going
<1>6. step = "code" \/ Placing \/ step \in {"convert", "to_omf"}
    BY BuildCases DEF BuildStep, Placing
<1>7. /\ step = "convert" => \/ Build!Adjust \/ Build!ConversionDies
                             \/ Build!NextExpressions \/ Build!Built
      /\ step = "to_omf" => Build!ConversionDies \/ ToOmf
    BY BuildCases DEF BuildStep
<1> QED
    BY <1>0, <1>1, <1>2, <1>3, <1>4, <1>5, <1>6, <1>7

-----------------------------------------------------------------------------
(* What becomes of the expressions. *)

(* Record r of segment g is that of an expression. *)
StandsFor(v, j, g, r) ==
    /\ remap[v].segnum = g /\ r.offset = PatchAt(v, j)
    /\ r.size = linked[v].expressions[j].size

(* Every record is that of an expression that has been handled. *)
RecordsInv ==
    Going =>
        \A g \in DOMAIN omf_segments : \A c \in Kinds :
            /\ ~Converting => omf_segments[g][c] = << >>
            /\ Converting => \A k \in DOMAIN omf_segments[g][c] :
                   \E v \in DOMAIN linked : \E j \in DOMAIN linked[v].expressions :
                       Handled(v, j) /\ StandsFor(v, j, g, omf_segments[g][c][k])

(* And every expression that has been handled has a record, or was reported. *)
Recorded1(v, j) ==
    \E c \in Kinds : \E k \in DOMAIN omf_segments[remap[v].segnum][c] :
        LET r == omf_segments[remap[v].segnum][c][k]
        IN  /\ r.offset = sections[v].expressions[j].offset
            /\ r.size = sections[v].expressions[j].size

LostInv ==
    Going /\ errors = 0 =>
        \A v \in DOMAIN linked : \A j \in DOMAIN linked[v].expressions :
            Handled(v, j) => \/ Needless(sections[v].expressions[j])
                             \/ remap[v].segnum \in DOMAIN omf_segments /\ Recorded1(v, j)

(* What each step does to them. *)
RecordsSame ==
    /\ linked' = linked /\ remap' = remap /\ omf_segments' = omf_segments
    /\ Converting /\ Converting'
    /\ \A v \in DOMAIN linked : \A j \in DOMAIN linked[v].expressions :
           /\ Handled(v, j)' <=> Handled(v, j)
           /\ Handled(v, j) => sections'[v].expressions[j] = sections[v].expressions[j]

None ==
    /\ linked' = linked
    /\ \A v \in DOMAIN linked : \A j \in DOMAIN linked[v].expressions : ~Handled(v, j)'
    /\ \A g \in DOMAIN omf_segments' : \A c \in Kinds : omf_segments'[g][c] = << >>

One ==
    /\ linked' = linked /\ remap' = remap /\ sections' = sections
    /\ Converting /\ Converting' /\ Going
    /\ errors \in Nat /\ errors' \in Nat /\ errors' >= errors
    /\ at \in DOMAIN linked /\ item \in DOMAIN linked[at].expressions
    /\ \A v \in DOMAIN linked : \A j \in DOMAIN linked[v].expressions :
           /\ Handled(v, j)' <=> Handled(v, j) \/ (v = at /\ j = item)
           /\ Handled(v, j) => v < at \/ (v = at /\ j < item)
    /\ sections[at].expressions[item].offset = PatchAt(at, item)
    /\ sections[at].expressions[item].size = linked[at].expressions[item].size
    /\ \/ \E c \in Kinds : \E r : /\ Adds(remap[at].segnum, c, r)
                                  /\ r.offset = sections[at].expressions[item].offset
                                  /\ r.size = sections[at].expressions[item].size
       \/ /\ UNCHANGED omf_segments
          /\ Needless(sections[at].expressions[item]) \/ errors' > errors

LEMMA ConversionSteps ==
    ASSUME Ready, BuildStep, Shape, PlacedInv, ConversionInv, RecordsInv, Going'
    PROVE  \/ None /\ (step = "code" \/ Placing)
           \/ RecordsSame /\ Going /\ errors' = errors
           \/ One
<1>0. CASE step = "code"
    <2>1. Build!CodeSegment
        BY <1>0, BuildCases DEF BuildStep
    <2>2. /\ linked' = linked /\ step' = "merge"
          /\ DOMAIN omf_segments' = {1} /\ \A c \in Kinds : omf_segments'[1][c] = << >>
        BY <2>1, CodeShape
    <2> QED
        BY <1>0, <2>2 DEF None, Handled, Converting
<1>1. CASE Placing
    <2>1. /\ Grown(omf_segments, omf_segments') /\ linked' = linked
          /\ \/ Placing'
             \/ step' = "convert" /\ at' = 1 /\ item' = 1
        BY <1>1, PlacingKeeps
    <2>2. Handed(linked) /\ at \in Nat \ {0} /\ item \in Nat \ {0} /\ Going
        BY <1>1 DEF Shape, Going, Placing
    <2>3. ASSUME NEW v \in DOMAIN linked, NEW j \in DOMAIN linked[v].expressions
          PROVE  ~Handled(v, j)'
        <3>2. CASE Placing'
            BY <3>2 DEF Placing, Handled, Converting
        <3>3. CASE step' = "convert" /\ at' = 1 /\ item' = 1
            BY <1>1, <2>1, <2>2, <3>3, HandledSteps
        <3> QED
            BY <2>1, <3>2, <3>3
    <2>4. ~Converting
        BY <1>1 DEF Placing, Converting
    <2>5. \A g \in DOMAIN omf_segments : \A c \in Kinds : omf_segments[g][c] = << >>
        BY <2>2, <2>4 DEF RecordsInv
    <2>6. \A g \in DOMAIN omf_segments' : \A c \in Kinds : omf_segments'[g][c] = << >>
        BY <2>1, <2>5 DEF Grown
    <2> QED
        BY <1>1, <2>1, <2>3, <2>4, <2>6 DEF None
<1>2. CASE step = "convert" /\ Build!Adjust
    <2>1. /\ step' = "to_omf" /\ at \in DOMAIN linked
          /\ item \in DOMAIN linked[at].expressions
          /\ UNCHANGED << linked, errors, at, item, omf_segments, remap >>
          /\ \A v \in DOMAIN linked : \A j \in DOMAIN linked[v].expressions :
                 v # at \/ j # item =>
                     sections'[v].expressions[j] = sections[v].expressions[j]
        BY <1>2, AdjustEffect
    <2>2. Going /\ Converting /\ Converting'
        BY <1>2, <2>1 DEF Going, Converting
    <2>3. Handed(linked) /\ at \in Nat \ {0} /\ item \in Nat \ {0}
        BY <2>2 DEF Shape
    <2>4. ASSUME NEW v \in DOMAIN linked, NEW j \in DOMAIN linked[v].expressions
          PROVE  /\ Handled(v, j)' <=> Handled(v, j)
                 /\ Handled(v, j) => sections'[v].expressions[j] = sections[v].expressions[j]
        <3>1. /\ Handled(v, j)' <=> Handled(v, j)
              /\ Handled(v, j) => ~(v = at /\ j = item)
            BY <1>2, <2>1, <2>3, HandledSteps
        <3> QED
            BY <2>1, <3>1
    <2> QED
        BY <2>1, <2>2, <2>4 DEF RecordsSame
<1>3. CASE step = "to_omf" /\ ToOmf
    <2>1. /\ step' = "convert" /\ item' = item + 1
          /\ at \in DOMAIN linked /\ item \in DOMAIN linked[at].expressions
          /\ UNCHANGED << linked, sections, at, remap >>
          /\ errors \in Nat /\ errors' \in Nat /\ errors' >= errors
          /\ \/ \E c \in Kinds : \E r :
                    /\ Adds(remap[at].segnum, c, r)
                    /\ r.offset = sections[at].expressions[item].offset
                    /\ r.size = sections[at].expressions[item].size
             \/ /\ UNCHANGED omf_segments
                /\ Needless(sections[at].expressions[item]) \/ errors' > errors
        BY <1>3, ToOmfEffect
    <2>2. Going /\ Converting /\ Converting'
        BY <1>3, <2>1 DEF Going, Converting
    <2>3. Handed(linked) /\ at \in Nat \ {0} /\ item \in Nat \ {0}
        BY <2>2 DEF Shape
    <2>4. ASSUME NEW v \in DOMAIN linked, NEW j \in DOMAIN linked[v].expressions
          PROVE  /\ Handled(v, j)' <=> Handled(v, j) \/ (v = at /\ j = item)
                 /\ Handled(v, j) => v < at \/ (v = at /\ j < item)
        BY <1>3, <2>1, <2>3, HandledSteps
    <2>5. Moved(at, item)
        BY <1>3 DEF Moved
    <2>6. /\ sections[at].expressions[item].offset = PatchAt(at, item)
          /\ sections[at].expressions[item].size = linked[at].expressions[item].size
        BY <2>1, <2>2, <2>5 DEF ConversionInv
    <2> QED
        BY <2>1, <2>2, <2>4, <2>6 DEF One
<1>4. CASE step = "convert" /\ (Build!NextExpressions \/ Build!Built)
    <2>1. /\ UNCHANGED << linked, sections, errors, omf_segments, remap >>
          /\ \/ /\ step' = "convert" /\ at \in DOMAIN linked /\ at' = at + 1 /\ item' = 1
                /\ item \notin DOMAIN linked[at].expressions
             \/ step' = "built" /\ at \notin DOMAIN linked /\ UNCHANGED << at, item >>
        BY <1>4, NextEffect
    <2>2. Going /\ Converting /\ Converting'
        BY <1>4, <2>1 DEF Going, Converting
    <2>3. Handed(linked) /\ at \in Nat \ {0} /\ item \in Nat \ {0}
        BY <2>2 DEF Shape
    <2>5. ASSUME NEW v \in DOMAIN linked, NEW j \in DOMAIN linked[v].expressions
          PROVE  Handled(v, j)' <=> Handled(v, j)
        BY <1>4, <2>1, <2>3, HandledSteps
    <2> QED
        BY <2>1, <2>2, <2>5 DEF RecordsSame
<1>5. CASE Build!ConversionDies
    <2>1. step' = "aborted"
        BY <1>5 DEF Build!ConversionDies
    <2> QED
        BY <2>1 DEF Going
<1>6. step = "code" \/ Placing \/ step \in {"convert", "to_omf"}
    BY BuildCases DEF BuildStep, Placing
<1>7. /\ step = "convert" => \/ Build!Adjust \/ Build!ConversionDies
                             \/ Build!NextExpressions \/ Build!Built
      /\ step = "to_omf" => Build!ConversionDies \/ ToOmf
    BY BuildCases DEF BuildStep
<1> QED
    BY <1>0, <1>1, <1>2, <1>3, <1>4, <1>5, <1>6, <1>7

LEMMA AddsKeep ==
    ASSUME NEW h, NEW d \in Kinds, NEW r, Adds(h, d, r),
           NEW g \in DOMAIN omf_segments, NEW c \in Kinds,
           NEW k \in DOMAIN omf_segments[g][c]
    PROVE  /\ k \in DOMAIN omf_segments'[g][c]
           /\ omf_segments'[g][c][k] = omf_segments[g][c][k]
<1>1. CASE g # h \/ c # d
    BY <1>1 DEF Adds
<1>2. CASE g = h /\ c = d
    BY <1>2 DEF Adds
<1> QED
    BY <1>1, <1>2

LEMMA RecordsKept ==
    ASSUME RecordsInv, None \/ (RecordsSame /\ Going) \/ One
    PROVE  RecordsInv'
<1>1. CASE None
    BY <1>1 DEF None, RecordsInv
<1>2. CASE RecordsSame /\ Going
    <2>1. ASSUME NEW v \in DOMAIN linked, NEW j \in DOMAIN linked[v].expressions,
                 NEW g, NEW r
          PROVE  StandsFor(v, j, g, r)' <=> StandsFor(v, j, g, r)
        BY <1>2 DEF RecordsSame, StandsFor, PatchAt
    <2> QED
        BY <1>2, <2>1 DEF RecordsSame, RecordsInv
<1>3. CASE One
    <2>1. ASSUME NEW v, NEW j, NEW g, NEW r
          PROVE  StandsFor(v, j, g, r)' <=> StandsFor(v, j, g, r)
        BY <1>3 DEF One, StandsFor, PatchAt
    <2>2. ASSUME NEW g \in DOMAIN omf_segments, NEW c \in Kinds,
                 NEW k \in DOMAIN omf_segments[g][c]
          PROVE  \E v \in DOMAIN linked : \E j \in DOMAIN linked[v].expressions :
                     Handled(v, j)' /\ StandsFor(v, j, g, omf_segments[g][c][k])
        <3>1. \E v \in DOMAIN linked : \E j \in DOMAIN linked[v].expressions :
                     Handled(v, j) /\ StandsFor(v, j, g, omf_segments[g][c][k])
            BY <1>3 DEF One, RecordsInv
        <3> QED
            BY <1>3, <3>1 DEF One
    <2>3. CASE UNCHANGED omf_segments
        BY <1>3, <2>1, <2>2, <2>3 DEF One, RecordsInv
    <2>4. CASE \E c \in Kinds : \E r :
                   /\ Adds(remap[at].segnum, c, r)
                   /\ r.offset = sections[at].expressions[item].offset
                   /\ r.size = sections[at].expressions[item].size
        <3>1. PICK c \in Kinds : \E r :
                   /\ Adds(remap[at].segnum, c, r)
                   /\ r.offset = sections[at].expressions[item].offset
                   /\ r.size = sections[at].expressions[item].size
            BY <2>4
        <3>2. PICK r : /\ Adds(remap[at].segnum, c, r)
                       /\ r.offset = sections[at].expressions[item].offset
                       /\ r.size = sections[at].expressions[item].size
            BY <3>1
        <3>3. PICK g : g = remap[at].segnum
            OBVIOUS
        <3>4. PICK w \in DOMAIN linked : w = at
            BY <1>3 DEF One
        <3>a. PICK q \in DOMAIN linked[w].expressions : q = item
            BY <1>3, <3>4 DEF One
        <3>b. StandsFor(w, q, g, r)
            <4>1. /\ r.offset = PatchAt(w, q)
                  /\ r.size = linked[w].expressions[q].size
                BY <1>3, <3>2, <3>4, <3>a DEF One
            <4> QED
                BY <3>3, <3>4, <4>1 DEF StandsFor
        <3>c. Handled(w, q)'
            BY <1>3, <3>4, <3>a DEF One
        <3>5. ASSUME NEW h \in DOMAIN omf_segments', NEW d \in Kinds,
                     NEW k \in DOMAIN omf_segments'[h][d]
              PROVE  \E v \in DOMAIN linked : \E j \in DOMAIN linked[v].expressions :
                         Handled(v, j)' /\ StandsFor(v, j, h, omf_segments'[h][d][k])
            <4>0. h \in DOMAIN omf_segments
                BY <3>2 DEF Adds
            <4>1. CASE h # g \/ d # c
                <5>1. omf_segments'[h][d] = omf_segments[h][d]
                    BY <3>2, <3>3, <4>0, <4>1 DEF Adds
                <5> QED
                    BY <2>2, <4>0, <5>1
            <4>2. CASE h = g /\ d = c /\ k \in DOMAIN omf_segments[g][c]
                <5>1. omf_segments'[h][d][k] = omf_segments[h][d][k]
                    BY <3>2, <3>3, <4>2 DEF Adds
                <5> QED
                    BY <2>2, <4>0, <4>2, <5>1
            <4>3. CASE h = g /\ d = c /\ k \notin DOMAIN omf_segments[g][c]
                <5>1. omf_segments'[h][d][k] = r
                    BY <3>2, <3>3, <4>3 DEF Adds
                <5> QED
                    BY <3>b, <3>c, <4>3, <5>1
            <4> QED
                BY <4>1, <4>2, <4>3
        <3> QED
            BY <1>3, <2>1, <3>5 DEF One, RecordsInv
    <2> QED
        BY <1>3, <2>3, <2>4 DEF One
<1> QED
    BY <1>1, <1>2, <1>3

LEMMA LostKept ==
    ASSUME LostInv, None \/ (RecordsSame /\ Going /\ errors' = errors) \/ One
    PROVE  LostInv'
<1>1. CASE None
    BY <1>1 DEF None, LostInv
<1>2. CASE RecordsSame /\ Going /\ errors' = errors
    <2>1. SUFFICES ASSUME errors = 0, NEW v \in DOMAIN linked,
                          NEW j \in DOMAIN linked[v].expressions, Handled(v, j)
                   PROVE  \/ Needless(sections'[v].expressions[j])
                          \/ remap[v].segnum \in DOMAIN omf_segments /\ Recorded1(v, j)'
        BY <1>2 DEF LostInv, RecordsSame
    <2>2. sections'[v].expressions[j] = sections[v].expressions[j]
        BY <1>2, <2>1 DEF RecordsSame
    <2>3. \/ Needless(sections[v].expressions[j])
          \/ remap[v].segnum \in DOMAIN omf_segments /\ Recorded1(v, j)
        BY <1>2, <2>1 DEF LostInv
    <2>4. Recorded1(v, j) => Recorded1(v, j)'
        BY <1>2, <2>2 DEF Recorded1, RecordsSame
    <2> QED
        BY <2>2, <2>3, <2>4
<1>3. CASE One
    <2>1. SUFFICES ASSUME errors' = 0, NEW v \in DOMAIN linked,
                          NEW j \in DOMAIN linked[v].expressions, Handled(v, j)'
                   PROVE  \/ Needless(sections[v].expressions[j])
                          \/ remap[v].segnum \in DOMAIN omf_segments' /\ Recorded1(v, j)'
        BY <1>3 DEF LostInv, One
    <2>2. errors = 0 /\ ~(errors' > errors)
        BY <1>3, <2>1 DEF One
    <2>3. DOMAIN omf_segments' = DOMAIN omf_segments
        BY <1>3 DEF One, Adds
    <2>4. CASE Handled(v, j)
        <3>1. \/ Needless(sections[v].expressions[j])
              \/ remap[v].segnum \in DOMAIN omf_segments /\ Recorded1(v, j)
            BY <1>3, <2>2, <2>4 DEF LostInv, One
        <3>2. ASSUME remap[v].segnum \in DOMAIN omf_segments, Recorded1(v, j)
              PROVE  Recorded1(v, j)'
            <4>0. PICK g : g = remap[v].segnum
                OBVIOUS
            <4>1. PICK c \in Kinds : \E k \in DOMAIN omf_segments[g][c] :
                      /\ omf_segments[g][c][k].offset = sections[v].expressions[j].offset
                      /\ omf_segments[g][c][k].size = sections[v].expressions[j].size
                BY <3>2, <4>0 DEF Recorded1
            <4>2. PICK k \in DOMAIN omf_segments[g][c] :
                      /\ omf_segments[g][c][k].offset = sections[v].expressions[j].offset
                      /\ omf_segments[g][c][k].size = sections[v].expressions[j].size
                BY <4>1
            <4>3. /\ k \in DOMAIN omf_segments'[g][c]
                  /\ omf_segments'[g][c][k] = omf_segments[g][c][k]
                <5>1. CASE UNCHANGED omf_segments
                    BY <4>2, <5>1
                <5>2. CASE \E d \in Kinds : \E r : Adds(remap[at].segnum, d, r)
                    <6>1. PICK d \in Kinds : \E r : Adds(remap[at].segnum, d, r)
                        BY <5>2
                    <6> QED
                        BY <3>2, <4>0, <4>2, <6>1, AddsKeep
                <5> QED
                    BY <1>3, <5>1, <5>2 DEF One
            <4> QED
                BY <1>3, <4>0, <4>2, <4>3 DEF One, Recorded1
        <3> QED
            BY <2>3, <3>1, <3>2
    <2>5. CASE v = at /\ j = item
        <3>1. CASE Needless(sections[at].expressions[item])
            BY <2>5, <3>1
        <3>2. CASE \E c \in Kinds : \E r :
                       /\ Adds(remap[at].segnum, c, r)
                       /\ r.offset = sections[at].expressions[item].offset
                       /\ r.size = sections[at].expressions[item].size
            <4>1. PICK c \in Kinds : \E r :
                       /\ Adds(remap[at].segnum, c, r)
                       /\ r.offset = sections[at].expressions[item].offset
                       /\ r.size = sections[at].expressions[item].size
                BY <3>2
            <4>2. PICK r : /\ Adds(remap[at].segnum, c, r)
                           /\ r.offset = sections[at].expressions[item].offset
                           /\ r.size = sections[at].expressions[item].size
                BY <4>1
            <4>3. PICK g : g = remap[v].segnum
                OBVIOUS
            <4>4. PICK k : k = Len(omf_segments[g][c]) + 1
                OBVIOUS
            <4>5. /\ g \in DOMAIN omf_segments /\ k \in DOMAIN omf_segments'[g][c]
                  /\ omf_segments'[g][c][k] = r
                BY <2>5, <4>2, <4>3, <4>4 DEF Adds
            <4> QED
                BY <1>3, <2>3, <2>5, <4>2, <4>3, <4>5 DEF One, Recorded1
        <3> QED
            BY <1>3, <2>2, <3>1, <3>2 DEF One
    <2> QED
        BY <1>3, <2>1, <2>4, <2>5 DEF One
<1> QED
    BY <1>1, <1>2, <1>3

-----------------------------------------------------------------------------
(* The records do not overlap. *)

(* The two sections that exist only as a size have no expressions: nothing *)
(* was assembled into page0 or udata.                                      *)
ReservesOnly ==
    linked # << >> =>
        linked[PAGE0].expressions = << >> /\ linked[UDATA].expressions = << >>

OrderInv ==
    Going /\ ReservesOnly =>
        \A g \in DOMAIN omf_segments : \A c, d \in Kinds :
            \A j \in DOMAIN omf_segments[g][c] : \A k \in DOMAIN omf_segments[g][d] :
                /\ c = d /\ j < k => Apart(omf_segments[g][c][j], omf_segments[g][d][k])
                /\ c # d => \/ Apart(omf_segments[g][c][j], omf_segments[g][d][k])
                            \/ Apart(omf_segments[g][d][k], omf_segments[g][c][j])

(* By induction over their distance. *)
LEMMA PatchesApart ==
    ASSUME NEW S, NEW v, IsSection(S), WellPatched(S, v),
           NEW j \in DOMAIN S.expressions, NEW k \in DOMAIN S.expressions, j < k
    PROVE  Apart(S.expressions[j], S.expressions[k])
<1>0. PICK x : x = S.expressions
    OBVIOUS
<1>1. PICK m \in Nat : DOMAIN x = 1 .. m
    BY <1>0 DEF IsSection
<1>2. \A n \in 1 .. m : x[n].offset \in Nat /\ x[n].size \in Nat
    BY <1>0, <1>1 DEF IsSection, IsExpression
<1>3. \A n \in 1 .. m : n > 1 => x[n - 1].offset + x[n - 1].size <= x[n].offset
    BY <1>0, <1>1 DEF WellPatched, Apart
<1> DEFINE T == {n \in Nat : \A q \in 1 .. m : q + n + 1 \in 1 .. m =>
                                 x[q].offset + x[q].size <= x[q + n + 1].offset}
<1>4. 0 \in T
    <2>1. ASSUME NEW q \in 1 .. m, q + 0 + 1 \in 1 .. m
          PROVE  x[q].offset + x[q].size <= x[q + 0 + 1].offset
        <3>1. q + 1 \in 1 .. m /\ q + 1 > 1 /\ (q + 1) - 1 = q /\ q + 0 + 1 = q + 1
            BY <2>1
        <3> QED
            BY <1>3, <3>1
    <2> QED
        BY <2>1
<1>5. ASSUME NEW n \in Nat, n \in T PROVE n + 1 \in T
    <2>1. ASSUME NEW q \in 1 .. m, q + (n + 1) + 1 \in 1 .. m
          PROVE  x[q].offset + x[q].size <= x[q + (n + 1) + 1].offset
        <3>1. PICK y : y = q + n + 1
            OBVIOUS
        <3>2. /\ y \in 1 .. m /\ y + 1 \in 1 .. m /\ y + 1 > 1 /\ (y + 1) - 1 = y
              /\ q + (n + 1) + 1 = y + 1
            BY <1>1, <2>1, <3>1
        <3>3. x[q].offset + x[q].size <= x[y].offset
            BY <1>5, <3>1, <3>2
        <3>4. x[y].offset + x[y].size <= x[y + 1].offset
            BY <1>3, <3>2
        <3>5. /\ x[q].offset \in Nat /\ x[q].size \in Nat /\ x[y].offset \in Nat
              /\ x[y].size \in Nat /\ x[y + 1].offset \in Nat
            BY <1>2, <3>2
        <3>6. x[q].offset + x[q].size <= x[y + 1].offset
            BY <3>3, <3>4, <3>5
        <3> QED
            BY <3>2, <3>6
    <2> QED
        BY <2>1
<1>6. Nat \subseteq T
    <2> HIDE DEF T
    <2> QED
        BY <1>4, <1>5, NatSets
<1>7. PICK n : n = k - j - 1
    OBVIOUS
<1>8. n \in Nat /\ j + n + 1 = k /\ j \in 1 .. m /\ k \in 1 .. m
    BY <1>0, <1>1, <1>7
<1>9. x[j].offset + x[j].size <= x[j + n + 1].offset
    BY <1>6, <1>8
<1> QED
    BY <1>0, <1>8, <1>9 DEF Apart

(* The record of the next expression comes after all others. *)
LEMMA NextApart ==
    ASSUME Shape, PlacedInv, Going, Converting, ReservesOnly,
           NEW v \in DOMAIN linked, NEW j \in DOMAIN linked[v].expressions,
           NEW w \in DOMAIN linked, NEW k \in DOMAIN linked[w].expressions,
           v < w \/ (v = w /\ j < k),
           remap[v].segnum = remap[w].segnum, remap[w].segnum \in DOMAIN omf_segments
    PROVE  PatchAt(v, j) + linked[v].expressions[j].size <= PatchAt(w, k)
<1>1. Handed(linked) /\ Segments(omf_segments)
    BY DEF Shape
<1>2. /\ PAGE0 \in DOMAIN linked /\ UDATA \in DOMAIN linked
      /\ DOMAIN linked \subseteq Nat
      /\ \A u \in DOMAIN linked : IsSection(linked[u]) /\ WellPatched(linked[u], u)
    BY <1>1, HandedParts DEF Handed
<1>3. PICK e : e = linked[v].expressions[j]
    OBVIOUS
<1>4. PICK f : f = linked[w].expressions[k]
    OBVIOUS
<1>5. e.offset \in Nat /\ e.size \in Nat /\ f.offset \in Nat
    BY <1>2, <1>3, <1>4 DEF IsSection, IsExpression
<1>6. remap[v].offset \in Nat /\ remap[w].offset \in Nat
    BY DEF PlacedInv
<1>7. CASE v = w /\ j < k
    <2>1. Apart(e, f)
        BY <1>2, <1>3, <1>4, <1>7, PatchesApart
    <2>2. e.offset + e.size <= f.offset
        BY <2>1 DEF Apart
    <2>3. (e.offset + remap[v].offset) + e.size <= f.offset + remap[w].offset
        BY <1>5, <1>6, <1>7, <2>2
    <2> QED
        BY <1>3, <1>4, <2>3 DEF PatchAt
<1>8. CASE v < w
    <2>1. v # PAGE0 /\ v # UDATA /\ w # PAGE0 /\ w # UDATA
        BY DEF ReservesOnly
    <2>2. remap[w].segnum # 0
        BY <1>1, SegmentNumbers
    <2>3. v \in Done /\ w \in Done
        BY <2>1, <2>2 DEF PlacedInv
    <2>4. remap[v].offset + Len(Image(v)) <= remap[w].offset
        BY <1>8, <2>1, <2>3 DEF PlacedInv
    <2>5. Image(v) = linked[v].data
        BY <2>1 DEF Image
    <2>6. PICK n : n = Len(linked[v].data)
        OBVIOUS
    <2>7. n \in Nat
        BY <1>2, <2>6 DEF IsSection
    <2>8. e.offset + e.size <= n
        BY <1>2, <1>3, <2>6 DEF WellPatched, Patches
    <2>9. (e.offset + remap[v].offset) + e.size <= f.offset + remap[w].offset
        BY <1>5, <1>6, <2>4, <2>5, <2>6, <2>7, <2>8
    <2> QED
        BY <1>3, <1>4, <2>9 DEF PatchAt
<1> QED
    BY <1>7, <1>8

LEMMA OrderKept ==
    ASSUME Shape, PlacedInv, RecordsInv, OrderInv,
           None \/ (RecordsSame /\ Going) \/ One
    PROVE  OrderInv'
<1>1. CASE None
    BY <1>1 DEF None, OrderInv
<1>2. CASE RecordsSame /\ Going
    BY <1>2 DEF RecordsSame, OrderInv, ReservesOnly
<1>3. CASE One
    <2>1. CASE UNCHANGED omf_segments
        BY <1>3, <2>1 DEF One, OrderInv, ReservesOnly
    <2>2. CASE \E c \in Kinds : \E r :
                   /\ Adds(remap[at].segnum, c, r)
                   /\ r.offset = sections[at].expressions[item].offset
                   /\ r.size = sections[at].expressions[item].size
        <3>1. PICK a \in Kinds : \E r :
                   /\ Adds(remap[at].segnum, a, r)
                   /\ r.offset = sections[at].expressions[item].offset
                   /\ r.size = sections[at].expressions[item].size
            BY <2>2
        <3>2. PICK r : /\ Adds(remap[at].segnum, a, r)
                       /\ r.offset = sections[at].expressions[item].offset
                       /\ r.size = sections[at].expressions[item].size
            BY <3>1
        <3>3. PICK h : h = remap[at].segnum
            OBVIOUS
        <3>4. h \in DOMAIN omf_segments /\ Going /\ Converting
            BY <1>3, <3>2, <3>3 DEF Adds, One
        <3>5. ASSUME ReservesOnly, NEW b \in Kinds, NEW n \in DOMAIN omf_segments[h][b]
              PROVE  Apart(omf_segments[h][b][n], r)
            <4>1. PICK v \in DOMAIN linked : \E j \in DOMAIN linked[v].expressions :
                      Handled(v, j) /\ StandsFor(v, j, h, omf_segments[h][b][n])
                BY <3>4 DEF RecordsInv
            <4>2. PICK j \in DOMAIN linked[v].expressions :
                      Handled(v, j) /\ StandsFor(v, j, h, omf_segments[h][b][n])
                BY <4>1
            <4>3. /\ at \in DOMAIN linked /\ item \in DOMAIN linked[at].expressions
                  /\ v < at \/ (v = at /\ j < item)
                BY <1>3, <4>2 DEF One
            <4>4. remap[v].segnum = h
                BY <4>2 DEF StandsFor
            <4>5. PatchAt(v, j) + linked[v].expressions[j].size <= PatchAt(at, item)
                BY <3>3, <3>4, <3>5, <4>3, <4>4, NextApart
            <4>6. r.offset = PatchAt(at, item)
                BY <1>3, <3>2 DEF One
            <4> QED
                BY <4>2, <4>5, <4>6 DEF StandsFor, Apart
        <3>6. /\ DOMAIN omf_segments' = DOMAIN omf_segments
              /\ \A g \in DOMAIN omf_segments : \A d \in Kinds :
                     g # h \/ d # a => omf_segments'[g][d] = omf_segments[g][d]
            BY <3>2, <3>3 DEF Adds
        <3>7. PICK n : n = Len(omf_segments[h][a]) + 1
            OBVIOUS
        <3>8. /\ DOMAIN omf_segments[h][a] = 1 .. n - 1 /\ n \in Nat \ {0}
              /\ DOMAIN omf_segments'[h][a] = 1 .. n
              /\ omf_segments'[h][a][n] = r
              /\ \A k \in 1 .. n - 1 : omf_segments'[h][a][k] = omf_segments[h][a][k]
            BY <3>2, <3>3, <3>7 DEF Adds
        <3> DEFINE Old(g, c, j) == j \in DOMAIN omf_segments[g][c]
        <3>9. ASSUME NEW g \in DOMAIN omf_segments, NEW c \in Kinds,
                     NEW j \in DOMAIN omf_segments'[g][c]
              PROVE  \/ /\ Old(g, c, j) /\ omf_segments'[g][c][j] = omf_segments[g][c][j]
                        /\ ~(g = h /\ c = a /\ j = n)
                     \/ g = h /\ c = a /\ j = n /\ omf_segments'[g][c][j] = r
            <4>1. CASE g # h \/ c # a
                BY <3>6, <4>1
            <4>2. CASE g = h /\ c = a /\ j = n
                BY <3>8, <4>2
            <4>3. CASE g = h /\ c = a /\ j # n
                <5>1. j \in 1 .. n - 1
                    BY <3>8, <4>3
                <5> QED
                    BY <3>8, <4>3, <5>1
            <4> QED
                BY <4>1, <4>2, <4>3
        <3>10. SUFFICES ASSUME ReservesOnly, NEW g \in DOMAIN omf_segments,
                               NEW c \in Kinds, NEW d \in Kinds,
                               NEW j \in DOMAIN omf_segments'[g][c],
                               NEW k \in DOMAIN omf_segments'[g][d]
                        PROVE  /\ c = d /\ j < k =>
                                      Apart(omf_segments'[g][c][j], omf_segments'[g][d][k])
                               /\ c # d =>
                                      \/ Apart(omf_segments'[g][c][j], omf_segments'[g][d][k])
                                      \/ Apart(omf_segments'[g][d][k], omf_segments'[g][c][j])
            <4>1. ReservesOnly' <=> ReservesOnly
                BY <1>3 DEF One, ReservesOnly
            <4> QED
                BY <3>6, <4>1 DEF OrderInv
        <3>11. CASE /\ Old(g, c, j) /\ omf_segments'[g][c][j] = omf_segments[g][c][j]
                    /\ Old(g, d, k) /\ omf_segments'[g][d][k] = omf_segments[g][d][k]
            BY <3>4, <3>10, <3>11 DEF OrderInv
        <3>12. CASE /\ g = h /\ c = a /\ j = n /\ omf_segments'[g][c][j] = r
                    /\ Old(g, d, k) /\ omf_segments'[g][d][k] = omf_segments[g][d][k]
            <4>1. Apart(omf_segments'[g][d][k], omf_segments'[g][c][j])
                BY <3>5, <3>10, <3>12
            <4>2. c = d => ~(j < k)
                BY <3>8, <3>12
            <4> QED
                BY <4>1, <4>2
        <3>13. CASE /\ Old(g, c, j) /\ omf_segments'[g][c][j] = omf_segments[g][c][j]
                    /\ g = h /\ d = a /\ k = n /\ omf_segments'[g][d][k] = r
            <4>1. Apart(omf_segments'[g][c][j], omf_segments'[g][d][k])
                BY <3>5, <3>10, <3>13
            <4> QED
                BY <4>1
        <3>14. CASE g = h /\ c = a /\ j = n /\ d = a /\ k = n
            BY <3>8, <3>14
        <3> QED
            BY <3>9, <3>11, <3>12, <3>13, <3>14
    <2> QED
        BY <1>3, <2>1, <2>2 DEF One
<1> QED
    BY <1>1, <1>2, <1>3

-----------------------------------------------------------------------------
(* The inductive invariant of build_omf_segments(). *)
BuildInv ==
    /\ Ready /\ Shape /\ PlacedInv /\ ConversionInv
    /\ RecordsInv /\ LostInv /\ OrderInv

LEMMA BuildFirst == ToolInit => BuildInv
<1> SUFFICES ASSUME ToolInit PROVE BuildInv
    OBVIOUS
<1>1. Ready
    BY ReadyFirst
<1>2. ~Going
    BY DEF ToolInit, Build!InitBuild, Going
<1> QED
    BY <1>1, <1>2 DEF BuildInv, Shape, PlacedInv, ConversionInv, RecordsInv, LostInv, OrderInv

LEMMA BuildLinks ==
    ASSUME BuildInv, LinkStep
    PROVE  BuildInv'
<1>1. Ready' /\ step' = "code"
    BY ReadyLink DEF BuildInv
<1>2. ~Going'
    BY <1>1 DEF Going
<1> QED
    BY <1>1, <1>2 DEF BuildInv, Shape, PlacedInv, ConversionInv, RecordsInv, LostInv, OrderInv

LEMMA BuildBuilds ==
    ASSUME BuildInv, BuildStep
    PROVE  BuildInv'
<1>1. Ready'
    BY BuildSteps DEF BuildInv
<1>2. CASE ~Going'
    BY <1>1, <1>2 DEF BuildInv, Shape, PlacedInv, ConversionInv, RecordsInv, LostInv, OrderInv
<1>3. CASE Going'
    <2>1. Shape' /\ PlacedInv' /\ ConversionInv'
        BY <1>3, ConversionKept DEF BuildInv
    <2>2. \/ None /\ (step = "code" \/ Placing)
          \/ RecordsSame /\ Going /\ errors' = errors
          \/ One
        BY <1>3, ConversionSteps DEF BuildInv
    <2>3. RecordsInv'
        BY <2>2, RecordsKept DEF BuildInv
    <2>4. LostInv'
        BY <2>2, LostKept DEF BuildInv
    <2>5. OrderInv'
        BY <2>2, OrderKept DEF BuildInv
    <2> QED
        BY <1>1, <2>1, <2>3, <2>4, <2>5 DEF BuildInv
<1> QED
    BY <1>2, <1>3

LEMMA SubSequence ==
    ASSUME NEW A, NEW d \in Seq(A), NEW b \in Seq(A), NEW off \in Nat,
           off + Len(b) <= Len(d), \A k \in 1 .. Len(b) : d[off + k] = b[k]
    PROVE  SubSeq(d, off + 1, off + Len(b)) = b
<1>1. Len(b) \in Nat /\ Len(d) \in Nat
    OBVIOUS
<1>2. PICK n : n = Len(b)
    OBVIOUS
<1>3. PICK s : s = SubSeq(d, off + 1, off + n)
    OBVIOUS
<1>4. /\ s \in Seq(A) /\ Len(s) = n
      /\ \A k \in 1 .. n : s[k] = d[off + k]
    <2>1. /\ n \in Nat /\ off + n <= Len(d) /\ off + 1 \in Nat /\ off + n \in Nat
          /\ \A k \in off + 1 .. off + n : d[k] \in A
        BY <1>1, <1>2
    <2>2. s \in Seq(A)
        BY <2>1, <1>3
    <2>3. Len(s) = n
        BY <2>1, <1>3
    <2>4. \A k \in 1 .. n : s[k] = d[off + k]
        BY <2>1, <1>3
    <2> QED
        BY <2>2, <2>3, <2>4
<1>5. \A k \in 1 .. Len(b) : s[k] = b[k]
    BY <1>2, <1>4
<1>6. s = b
    BY <1>2, <1>4, <1>5
<1> QED
    BY <1>2, <1>3, <1>6

-----------------------------------------------------------------------------
(* What the invariant says when the segments have been built. *)

LEMMA BuiltPlaces ==
    ASSUME BuildInv
    PROVE  BytesPlaced
<1> SUFFICES ASSUME step = "built", NEW v \in DOMAIN linked,
                    v = Build!UDATA \/ "REF_ONLY" \notin linked[v].flags
             PROVE  LET bytes == IF v = Build!UDATA THEN Build!Zeros(linked[v].size)
                                                    ELSE linked[v].data
                    IN  SubSeq(omf_segments[remap[v].segnum].data,
                               remap[v].offset + 1, remap[v].offset + Len(bytes)) = bytes
    BY DEF BytesPlaced
<1>1. Going
    BY DEF Going
<1>2. Handed(linked) /\ Segments(omf_segments)
    BY <1>1 DEF BuildInv, Shape
<1>3. v \in Done
    BY Names1 DEF Done, ForData, ForOwn
<1>4. PICK b : b = Image(v)
    OBVIOUS
<1>5. PICK g, off : g = remap[v].segnum /\ off = remap[v].offset
    OBVIOUS
<1>6. PICK d : d = omf_segments[g].data
    OBVIOUS
<1>7. Holds(omf_segments, g, off, b) /\ off \in Nat
    BY <1>1, <1>3, <1>4, <1>5 DEF BuildInv, PlacedInv
<1>8. b \in Seq(Byte)
    BY <1>2, <1>4, Images
<1>9. d \in Seq(Byte)
    BY <1>2, <1>6, <1>7 DEF Holds, Segments, IsSegment
<1>10. off + Len(b) <= Len(d) /\ \A k \in 1 .. Len(b) : d[off + k] = b[k]
    BY <1>6, <1>7 DEF Holds
<1>11. SubSeq(d, off + 1, off + Len(b)) = b
    BY <1>7, <1>8, <1>9, <1>10, SubSequence
<1>12. b = IF v = Build!UDATA THEN Build!Zeros(linked[v].size) ELSE linked[v].data
    BY <1>4, Names1 DEF Image
<1> QED
    BY <1>5, <1>6, <1>11, <1>12

LEMMA BuiltLoses ==
    ASSUME BuildInv
    PROVE  NothingLost
<1> SUFFICES ASSUME step = "built", errors = 0, NEW x \in Expressions
             PROVE  \/ Ex(x).size = 0
                    \/ Len(Ex(x).stack) = 3 /\ Ex(x).stack[2].value > MaxShift
                    \/ \E kind \in {"patches", "relocs", "intersegs"} :
                           \E k \in DOMAIN SegOf(x)[kind] :
                               /\ SegOf(x)[kind][k].offset = Ex(x).offset
                               /\ SegOf(x)[kind][k].size = Ex(x).size
    BY DEF NothingLost
<1>1. Going /\ Converting
    BY DEF Going, Converting
<1>2. /\ DOMAIN sections = DOMAIN linked
      /\ \A v \in DOMAIN linked : Alike(v)
    BY <1>1 DEF BuildInv, Shape
<1>3. PICK v \in DOMAIN sections : \E j \in DOMAIN sections[v].expressions : x = << v, j >>
    BY DEF Expressions
<1>4. PICK j \in DOMAIN sections[v].expressions : x = << v, j >>
    BY <1>3
<1>5. v \in DOMAIN linked /\ j \in DOMAIN linked[v].expressions
    BY <1>2, <1>3, <1>4 DEF Alike
<1>6. Handled(v, j)
    BY <1>1 DEF Handled
<1>7. Needless(sections[v].expressions[j]) \/ Recorded1(v, j)
    BY <1>1, <1>5, <1>6 DEF BuildInv, LostInv
<1>8. Ex(x) = sections[v].expressions[j] /\ SegOf(x) = omf_segments[remap[v].segnum]
    BY <1>4 DEF Ex, SegOf
<1>9. CASE Needless(sections[v].expressions[j])
    BY <1>8, <1>9 DEF Needless
<1>10. CASE Recorded1(v, j)
    BY <1>8, <1>10 DEF Recorded1, Kinds
<1> QED
    BY <1>7, <1>9, <1>10

(* An element of a concatenation is one of the parts'. *)
LEMMA JoinedParts ==
    ASSUME NEW A, NEW x \in Seq(A), NEW y \in Seq(A), NEW z \in Seq(A),
           NEW all, all = x \o y \o z
    PROVE  /\ Len(x) \in Nat /\ Len(y) \in Nat
           /\ \A k \in DOMAIN all :
                  /\ k \in Nat
                  /\ \/ k \in 1 .. Len(x) /\ all[k] = x[k]
                     \/ k - Len(x) \in 1 .. Len(y) /\ all[k] = y[k - Len(x)]
                     \/ /\ k - Len(x) - Len(y) \in 1 .. Len(z)
                        /\ all[k] = z[k - Len(x) - Len(y)]
<1>1. PICK xy : xy = x \o y
    OBVIOUS
<1>2. /\ xy \in Seq(A) /\ Len(xy) = Len(x) + Len(y)
      /\ \A k \in 1 .. Len(x) : xy[k] = x[k]
      /\ \A k \in 1 .. Len(x) + Len(y) : k \notin 1 .. Len(x) => xy[k] = y[k - Len(x)]
    BY <1>1
<1>3. all = xy \o z
    BY <1>1
<1>4. /\ all \in Seq(A) /\ Len(all) = Len(xy) + Len(z)
      /\ \A k \in 1 .. Len(xy) : all[k] = xy[k]
      /\ \A k \in 1 .. Len(xy) + Len(z) : k \notin 1 .. Len(xy) => all[k] = z[k - Len(xy)]
    BY <1>2, <1>3
<1>5. Len(x) \in Nat /\ Len(y) \in Nat /\ Len(z) \in Nat
    OBVIOUS
<1>6. PICK m, n, q : m = Len(x) /\ n = Len(y) /\ q = Len(z)
    OBVIOUS
<1>7. DOMAIN all = 1 .. m + n + q
    BY <1>2, <1>4, <1>5, <1>6
<1>8. ASSUME NEW k \in 1 .. m + n + q
      PROVE  \/ k \in 1 .. m
             \/ k \notin 1 .. m /\ k \in 1 .. m + n /\ k - m \in 1 .. n
             \/ k \notin 1 .. m + n /\ k - (m + n) = k - m - n /\ k - m - n \in 1 .. q
    BY <1>5, <1>6, <1>8
<1>9. ASSUME NEW k \in 1 .. m + n + q
      PROVE  \/ k \in 1 .. m /\ all[k] = x[k]
             \/ k - m \in 1 .. n /\ all[k] = y[k - m]
             \/ k - m - n \in 1 .. q /\ all[k] = z[k - m - n]
    <2>1. CASE k \in 1 .. m
        <3>1. k \in 1 .. m + n
            BY <1>5, <1>6, <2>1
        <3> QED
            BY <1>2, <1>4, <1>6, <2>1, <3>1
    <2>2. CASE k \notin 1 .. m /\ k \in 1 .. m + n /\ k - m \in 1 .. n
        BY <1>2, <1>4, <1>6, <2>2
    <2>3. CASE k \notin 1 .. m + n /\ k - (m + n) = k - m - n /\ k - m - n \in 1 .. q
        BY <1>2, <1>4, <1>6, <2>3
    <2> QED
        BY <1>8, <2>1, <2>2, <2>3
<1>10. \A k \in 1 .. m + n + q : k \in Nat
    BY <1>5, <1>6
<1> QED
    BY <1>5, <1>6, <1>7, <1>9, <1>10

LEMMA ExtentParts ==
    ASSUME NEW s, IsSequence(s), NEW t, t = Extents(s)
    PROVE  /\ IsSequence(t) /\ Len(t) = Len(s) /\ Len(t) \in Nat
           /\ DOMAIN t = 1 .. Len(t) /\ DOMAIN s = 1 .. Len(t)
           /\ \A k \in 1 .. Len(t) : t[k].offset = s[k].offset /\ t[k].size = s[k].size
<1>1. PICK n : n = Len(s)
    OBVIOUS
<1>2. n \in Nat /\ DOMAIN s = 1 .. n
    BY <1>1 DEF IsSequence
<1>3. t = [k \in 1 .. n |-> [offset |-> s[k].offset, size |-> s[k].size]]
    BY <1>2 DEF Extents
<1>4. DOMAIN t = 1 .. n
    BY <1>3
<1>5. PICK A : A = {t[k] : k \in DOMAIN t}
    OBVIOUS
<1>6. t \in [1 .. n -> A]
    BY <1>3, <1>4, <1>5
<1>7. t \in Seq(A) /\ Len(t) = n
    BY <1>2, <1>6
<1>8. \A k \in 1 .. n : t[k].offset = s[k].offset /\ t[k].size = s[k].size
    BY <1>3
<1> QED
    BY <1>1, <1>2, <1>4, <1>5, <1>7, <1>8 DEF IsSequence

(* A record is inside its segment. *)
LEMMA RecordInside ==
    ASSUME BuildInv, Going, Converting, ReservesOnly,
           NEW g \in DOMAIN omf_segments, NEW c \in Kinds,
           NEW k \in DOMAIN omf_segments[g][c]
    PROVE  LET r == omf_segments[g][c][k]
           IN  r.offset + r.size <= Len(omf_segments[g].data)
<1>1. PICK r : r = omf_segments[g][c][k]
    OBVIOUS
<1>2. PICK v \in DOMAIN linked : \E j \in DOMAIN linked[v].expressions :
          Handled(v, j) /\ StandsFor(v, j, g, r)
    BY <1>1 DEF BuildInv, RecordsInv
<1>3. PICK j \in DOMAIN linked[v].expressions : StandsFor(v, j, g, r)
    BY <1>2
<1>4. PICK e : e = linked[v].expressions[j]
    OBVIOUS
<1>5. remap[v].segnum = g /\ r.offset = e.offset + remap[v].offset /\ r.size = e.size
    BY <1>3, <1>4 DEF StandsFor, PatchAt
<1>6. Handed(linked) /\ Segments(omf_segments)
    BY DEF BuildInv, Shape
<1>7. /\ IsSection(linked[v]) /\ WellPatched(linked[v], v)
      /\ PAGE0 \in DOMAIN linked
    BY <1>6, HandedParts DEF Handed
<1>8. v # PAGE0 /\ v # UDATA
    BY <1>7 DEF ReservesOnly
<1>9. g # 0
    BY <1>6, SegmentNumbers
<1>10. v \in Done
    BY <1>5, <1>8, <1>9 DEF BuildInv, PlacedInv
<1>11. PICK n : n = Len(linked[v].data)
    OBVIOUS
<1>12. Image(v) = linked[v].data
    BY <1>8 DEF Image
<1>13. remap[v].offset + n <= Len(omf_segments[g].data) /\ remap[v].offset \in Nat
    BY <1>5, <1>10, <1>11, <1>12 DEF BuildInv, PlacedInv, Holds
<1>14. e.offset + e.size <= n /\ n \in Nat
    BY <1>4, <1>7, <1>11 DEF WellPatched, Patches, IsSection
<1>15. e.offset \in Nat /\ e.size \in Nat
    BY <1>4, <1>7 DEF IsSection, IsExpression
<1>16. Len(omf_segments[g].data) \in Nat
    BY <1>6 DEF Segments, IsSegment
<1>17. r.offset + r.size <= Len(omf_segments[g].data)
    BY <1>5, <1>13, <1>14, <1>15, <1>16
<1> QED
    BY <1>1, <1>17

LEMMA BuiltApart ==
    ASSUME BuildInv, ReservesOnly
    PROVE  RecordsApart
<1> SUFFICES ASSUME step = "built" PROVE RecordsApart
    BY DEF RecordsApart
<1>1. Going /\ Converting
    BY DEF Going, Converting
<1>2. Segments(omf_segments)
    BY <1>1 DEF BuildInv, Shape
<1>3. ASSUME NEW g \in DOMAIN omf_segments, NEW s, s = omf_segments[g],
             NEW all, all = Extents(s.patches) \o Extents(s.relocs) \o Extents(s.intersegs)
      PROVE  /\ \A k \in DOMAIN all : all[k].offset + all[k].size <= Len(s.data)
             /\ \A j, k \in DOMAIN all : j < k =>
                    \/ all[j].offset + all[j].size <= all[k].offset
                    \/ all[k].offset + all[k].size <= all[j].offset
             /\ \A c \in {"relocs", "intersegs"} : \A k \in DOMAIN s[c] :
                    k > 1 => s[c][k - 1].offset + s[c][k - 1].size <= s[c][k].offset
    <2>1. /\ IsSequence(s["patches"]) /\ IsSequence(s["relocs"])
          /\ IsSequence(s["intersegs"])
        BY <1>2, <1>3 DEF Segments, IsSegment, Kinds
    <2>2. PICK x, y, z : /\ x = Extents(s.patches) /\ y = Extents(s.relocs)
                         /\ z = Extents(s.intersegs)
        OBVIOUS
    <2>3. PICK m : m = Len(x)
        OBVIOUS
    <2>4. PICK n : n = Len(x) + Len(y)
        OBVIOUS
    <2>5. /\ x \in Seq({x[q] : q \in DOMAIN x}) /\ Len(x) \in Nat
          /\ DOMAIN s["patches"] = 1 .. Len(x)
          /\ \A k \in 1 .. Len(x) : /\ x[k].offset = s["patches"][k].offset
                                    /\ x[k].size = s["patches"][k].size
        <3>1. PICK a : a = s["patches"]
            OBVIOUS
        <3>2. IsSequence(a) /\ x = Extents(a)
            BY <2>1, <2>2, <3>1
        <3>3. IsSequence(x)
            BY <3>2, ExtentParts
        <3>4. Len(x) \in Nat /\ DOMAIN a = 1 .. Len(x)
            BY <3>2, ExtentParts
        <3>5. \A k \in 1 .. Len(x) : x[k].offset = a[k].offset /\ x[k].size = a[k].size
            BY <3>2, ExtentParts
        <3> QED
            BY <3>1, <3>3, <3>4, <3>5 DEF IsSequence
    <2>6. /\ y \in Seq({y[q] : q \in DOMAIN y}) /\ Len(y) \in Nat
          /\ DOMAIN s["relocs"] = 1 .. Len(y)
          /\ \A k \in 1 .. Len(y) : /\ y[k].offset = s["relocs"][k].offset
                                    /\ y[k].size = s["relocs"][k].size
        <3>1. PICK a : a = s["relocs"]
            OBVIOUS
        <3>2. IsSequence(a) /\ y = Extents(a)
            BY <2>1, <2>2, <3>1
        <3>3. IsSequence(y)
            BY <3>2, ExtentParts
        <3>4. Len(y) \in Nat /\ DOMAIN a = 1 .. Len(y)
            BY <3>2, ExtentParts
        <3>5. \A k \in 1 .. Len(y) : y[k].offset = a[k].offset /\ y[k].size = a[k].size
            BY <3>2, ExtentParts
        <3> QED
            BY <3>1, <3>3, <3>4, <3>5 DEF IsSequence
    <2>7. /\ z \in Seq({z[q] : q \in DOMAIN z}) /\ Len(z) \in Nat
          /\ DOMAIN s["intersegs"] = 1 .. Len(z)
          /\ \A k \in 1 .. Len(z) : /\ z[k].offset = s["intersegs"][k].offset
                                    /\ z[k].size = s["intersegs"][k].size
        <3>1. PICK a : a = s["intersegs"]
            OBVIOUS
        <3>2. IsSequence(a) /\ z = Extents(a)
            BY <2>1, <2>2, <3>1
        <3>3. IsSequence(z)
            BY <3>2, ExtentParts
        <3>4. Len(z) \in Nat /\ DOMAIN a = 1 .. Len(z)
            BY <3>2, ExtentParts
        <3>5. \A k \in 1 .. Len(z) : z[k].offset = a[k].offset /\ z[k].size = a[k].size
            BY <3>2, ExtentParts
        <3> QED
            BY <3>1, <3>3, <3>4, <3>5 DEF IsSequence
    <2> DEFINE Of(k, c, p) == /\ p \in DOMAIN s[c] /\ all[k].offset = s[c][p].offset
                              /\ all[k].size = s[c][p].size
               Off(c) == IF c = "patches" THEN 0 ELSE IF c = "relocs" THEN m ELSE n
    <2>8. m \in Nat /\ n \in Nat /\ \A c \in Kinds : Off(c) \in Nat
        BY <2>3, <2>4, <2>5, <2>6
    <2>9. ASSUME NEW k \in DOMAIN all
          PROVE  k \in Nat /\ \E c \in Kinds : \E p \in Nat : Of(k, c, p) /\ k = p + Off(c)
        <3> DEFINE A == {x[q] : q \in DOMAIN x} \cup {y[q] : q \in DOMAIN y}
                        \cup {z[q] : q \in DOMAIN z}
        <3>1. x \in Seq(A) /\ y \in Seq(A) /\ z \in Seq(A)
            <4>1. /\ x \in Seq({x[q] : q \in DOMAIN x}) /\ y \in Seq({y[q] : q \in DOMAIN y})
                  /\ z \in Seq({z[q] : q \in DOMAIN z})
                BY <2>5, <2>6, <2>7
            <4>2. ASSUME NEW B, NEW C, B \subseteq C, NEW q \in Seq(B) PROVE q \in Seq(C)
                BY <4>2
            <4> QED
                BY <4>1, <4>2
        <3> HIDE DEF A
        <3>2. all = x \o y \o z
            BY <1>3, <2>2
        <3>3. /\ Len(x) \in Nat /\ Len(y) \in Nat /\ k \in Nat
              /\ \/ k \in 1 .. Len(x) /\ all[k] = x[k]
                 \/ k - Len(x) \in 1 .. Len(y) /\ all[k] = y[k - Len(x)]
                 \/ /\ k - Len(x) - Len(y) \in 1 .. Len(z)
                    /\ all[k] = z[k - Len(x) - Len(y)]
            BY <3>1, <3>2, JoinedParts
        <3>4. CASE k \in 1 .. Len(x) /\ all[k] = x[k]
            <4>1. Of(k, "patches", k)
                BY <2>5, <3>4
            <4>2. k = k + Off("patches")
                BY <3>3
            <4> QED
                BY <3>3, <4>1, <4>2 DEF Kinds
        <3>5. CASE k - Len(x) \in 1 .. Len(y) /\ all[k] = y[k - Len(x)]
            <4>0. PICK p : p = k - Len(x)
                OBVIOUS
            <4>1. Of(k, "relocs", p)
                BY <2>6, <3>5, <4>0
            <4>2. k = p + Off("relocs") /\ p \in Nat
                BY <2>3, <3>3, <3>5, <4>0
            <4> QED
                BY <3>3, <4>1, <4>2 DEF Kinds
        <3>6. CASE /\ k - Len(x) - Len(y) \in 1 .. Len(z)
                   /\ all[k] = z[k - Len(x) - Len(y)]
            <4>0. PICK p : p = k - Len(x) - Len(y)
                OBVIOUS
            <4>1. Of(k, "intersegs", p)
                BY <2>7, <3>6, <4>0
            <4>2. k = p + Off("intersegs") /\ p \in Nat
                BY <2>4, <3>3, <3>6, <4>0
            <4> QED
                BY <3>3, <4>1, <4>2 DEF Kinds
        <3> QED
            BY <3>3, <3>4, <3>5, <3>6
    <2>10. \A c \in Kinds : \A p \in DOMAIN s[c] : s[c][p].offset + s[c][p].size <= Len(s.data)
        BY <1>1, <1>3, RecordInside
    <2>11. ASSUME NEW c \in Kinds, NEW d \in Kinds, NEW p \in DOMAIN s[c], NEW q \in DOMAIN s[d]
           PROVE  /\ c = d /\ p < q => s[c][p].offset + s[c][p].size <= s[d][q].offset
                  /\ c # d => \/ s[c][p].offset + s[c][p].size <= s[d][q].offset
                              \/ s[d][q].offset + s[d][q].size <= s[c][p].offset
        BY <1>1, <1>3 DEF BuildInv, OrderInv, Apart
    <2> HIDE DEF Off
    <2>12. ASSUME NEW k \in DOMAIN all
           PROVE  all[k].offset + all[k].size <= Len(s.data)
        <3>1. PICK c \in Kinds : \E p \in Nat : Of(k, c, p)
            BY <2>9
        <3>2. PICK p \in Nat : Of(k, c, p)
            BY <3>1
        <3> QED
            BY <2>10, <3>2
    <2>13. ASSUME NEW j \in DOMAIN all, NEW k \in DOMAIN all, j < k
           PROVE  \/ all[j].offset + all[j].size <= all[k].offset
                  \/ all[k].offset + all[k].size <= all[j].offset
        <3>1. PICK c \in Kinds : \E p \in Nat : Of(j, c, p) /\ j = p + Off(c)
            BY <2>9
        <3>2. PICK p \in Nat : Of(j, c, p) /\ j = p + Off(c)
            BY <3>1
        <3>3. PICK d \in Kinds : \E q \in Nat : Of(k, d, q) /\ k = q + Off(d)
            BY <2>9
        <3>4. PICK q \in Nat : Of(k, d, q) /\ k = q + Off(d)
            BY <3>3
        <3>5. c = d => p < q
            <4>1. ASSUME c = d PROVE p < q
                <5>1. Off(c) \in Nat
                    BY <2>8
                <5>2. p + Off(c) < q + Off(c)
                    BY <2>13, <3>2, <3>4, <4>1
                <5> QED
                    BY <5>1, <5>2
            <4> QED
                BY <4>1
        <3> QED
            BY <2>11, <3>2, <3>4, <3>5
    <2>14. ASSUME NEW c \in {"relocs", "intersegs"}, NEW k \in DOMAIN s[c], k > 1
           PROVE  s[c][k - 1].offset + s[c][k - 1].size <= s[c][k].offset
        <3>1. k - 1 \in DOMAIN s[c] /\ k - 1 < k /\ c \in Kinds
            BY <2>1, <2>14 DEF IsSequence, Kinds
        <3> QED
            BY <2>11, <3>1
    <2> QED
        BY <2>12, <2>13, <2>14
<1> QED
    BY <1>3 DEF RecordsApart

-----------------------------------------------------------------------------
(* The whole tool: the writer of the file leaves all this alone. *)

LEMMA BuildStays ==
    ASSUME BuildInv, UNCHANGED toolVars
    PROVE  BuildInv'
<1>1. /\ UNCHANGED vars /\ [Next]_vars
      /\ UNCHANGED << linked, step, at, item, omf_segments, remap, data_segment >>
      /\ UNCHANGED << sections, errors, pc >>
    BY DEF toolVars, buildOwn, vars
<1>2. step = "code" => TypeInv' /\ PatchesInv'
    BY <1>1, NextTypes, NextPatches DEF BuildInv, Ready
<1>3. Ready'
    BY <1>1, <1>2 DEF BuildInv, Ready
<1>4. Shape'
    BY <1>1 DEF BuildInv, Shape, Going, Alike
<1>5. Done' = Done /\ Going' = Going /\ Placing' = Placing /\ Converting' = Converting
    BY <1>1 DEF Done, ForData, ForOwn, Going, Placing, Converting
<1>6. PlacedInv'
    BY <1>1, <1>5 DEF BuildInv, PlacedInv, Image
<1>7. ConversionInv'
    BY <1>1 DEF BuildInv, ConversionInv, Moved, Handled, Converting, PatchAt, Going
<1>8. RecordsInv'
    BY <1>1 DEF BuildInv, RecordsInv, Handled, Converting, StandsFor, PatchAt, Going
<1>9. LostInv'
    BY <1>1 DEF BuildInv, LostInv, Handled, Converting, Recorded1, Going
<1>10. OrderInv'
    BY <1>1 DEF BuildInv, OrderInv, ReservesOnly, Going
<1> QED
    BY <1>3, <1>4, <1>6, <1>7, <1>8, <1>9, <1>10 DEF BuildInv

LEMMA BuildSaves ==
    ASSUME BuildInv, SaveOmf
    PROVE  BuildInv'
<1>1. step = "built" /\ step' = "returned" /\ UNCHANGED vars
    BY DEF SaveOmf
<1>2. pc' = pc
    BY <1>1 DEF vars
<1>3. Ready'
    BY <1>1, <1>2 DEF BuildInv, Ready
<1>4. ~Going'
    BY <1>1 DEF Going
<1> QED
    BY <1>3, <1>4 DEF BuildInv, Shape, PlacedInv, ConversionInv, RecordsInv, LostInv, OrderInv

(* The inductive invariant, of all that wdclink does until it exits. *)
LEMMA BuildAlways == WdcSpec => []BuildInv
<1>1. WdcInit => BuildInv
    BY BuildFirst DEF WdcInit
<1>2. ASSUME BuildInv, [WdcNext \/ (Exited /\ UNCHANGED wdcVars)]_wdcVars
      PROVE  BuildInv'
    <2>1. CASE LinkStep
        BY <1>2, <2>1, BuildLinks
    <2>2. CASE BuildStep
        BY <1>2, <2>2, BuildBuilds
    <2>3. CASE SaveOmf
        BY <1>2, <2>3, BuildSaves
    <2>4. CASE UNCHANGED toolVars
        BY <1>2, <2>4, BuildStays
    <2>5. \/ LinkStep \/ BuildStep \/ SaveOmf \/ UNCHANGED toolVars
        BY <1>2 DEF WdcNext, ToolStep, SaveStep, SetFileType, wdcVars
    <2> QED
        BY <2>1, <2>2, <2>3, <2>4, <2>5
<1> QED
    BY <1>1, <1>2, PTL DEF WdcSpec

(* build_omf_segments(): for every command line and whatever the modules   *)
(* are, the bytes of every section that is not REF_ONLY are, as a whole,   *)
(* where remap says, and udata has room of its own.                        *)
THEOREM SectionsArePlaced == WdcSpec => []BytesPlaced
<1>1. BuildInv => BytesPlaced
    BY BuiltPlaces
<1> QED
    BY <1>1, BuildAlways, PTL

(* to_omf(): without a reported error, every expression is a record of the *)
(* segment that its section went to, but for those of no size and those    *)
(* whose shift is too large.                                               *)
THEOREM ExpressionsAreKept == WdcSpec => []NothingLost
<1>1. BuildInv => NothingLost
    BY BuiltLoses
<1> QED
    BY <1>1, BuildAlways, PTL

(* The records are in their segment, in order, and none overlaps another,  *)
(* whatever sections the modules are spread over. page0 and udata have to  *)
(* be what the linker takes them for, a size without data (link.cpp 762):  *)
(* udata is placed after all sections of data but converted as section 5,  *)
(* so expressions in it would come before others that precede them.        *)
THEOREM RecordsStayApart == WdcSpec => [](ReservesOnly => RecordsApart)
<1>1. BuildInv => (ReservesOnly => RecordsApart)
    BY BuiltApart
<1> QED
    BY <1>1, BuildAlways, PTL

-----------------------------------------------------------------------------
(* What is merged in the first code segment fits in a bank.                *)

(* The sums of c over the first sections.                                  *)
Sums(c, n, f) ==
    f = [v \in 0 .. n |-> IF v = 0 THEN 0 ELSE f[v - 1] + c[v]]

LEMMA SumsExist ==
    ASSUME NEW n \in Nat, NEW c
    PROVE  \E f : Sums(c, n, f)
<1> DEFINE S == {k \in Nat : \E f : Sums(c, k, f)}
<1>1. 0 \in S
    <2>1. [v \in 0 .. 0 |-> 0] = [v \in 0 .. 0 |-> IF v = 0 THEN 0
                                                   ELSE [w \in 0 .. 0 |-> 0][v - 1] + c[v]]
        OBVIOUS
    <2> QED
        BY <2>1 DEF Sums
<1>2. ASSUME NEW k \in Nat, k \in S PROVE k + 1 \in S
    <2>1. PICK f : Sums(c, k, f)
        BY <1>2
    <2> DEFINE g == [v \in 0 .. k + 1 |-> IF v = k + 1 THEN f[k] + c[k + 1] ELSE f[v]]
    <2>2. ASSUME NEW v \in 0 .. k + 1
          PROVE  g[v] = IF v = 0 THEN 0 ELSE g[v - 1] + c[v]
        <3>1. CASE v = k + 1
            BY <3>1
        <3>2. CASE v # k + 1
            <4>1. v \in 0 .. k /\ g[v] = f[v] /\ (v # 0 => g[v - 1] = f[v - 1])
                BY <2>2, <3>2
            <4> QED
                BY <2>1, <4>1 DEF Sums
        <3> QED
            BY <3>1, <3>2
    <2>3. g = [v \in 0 .. k + 1 |-> IF v = 0 THEN 0 ELSE g[v - 1] + c[v]]
        BY <2>2
    <2> HIDE DEF g
    <2>4. Sums(c, k + 1, g)
        BY <2>3 DEF Sums
    <2> QED
        BY <2>4
<1> HIDE DEF S
<1>3. Nat \subseteq S
    BY <1>1, <1>2, NatSets
<1> QED
    BY <1>3 DEF S

(* What Crowded compares with the limit, over the sections of S.           *)
Share(S, v) == IF v \in S THEN sections[v].size ELSE 0

LEMMA SizeIsSum ==
    ASSUME Len(sections) \in Nat, NEW S,
           \A v \in 1 .. Len(sections) : Share(S, v) \in Nat
    PROVE  \E f : /\ f[Len(sections)] = Build!SizeOf(S) /\ f[0] = 0
                  /\ \A v \in 0 .. Len(sections) : f[v] \in Nat
                  /\ \A v \in 1 .. Len(sections) : f[v] = f[v - 1] + Share(S, v)
<1>1. PICK n \in Nat : n = Len(sections)
    OBVIOUS
<1>2. PICK c : c = [v \in 1 .. n |-> Share(S, v)]
    OBVIOUS
<1>3. PICK g : Sums(c, n, g)
    BY SumsExist
<1> DEFINE P(f) == f = [v \in 0 .. Len(sections) |->
                           IF v = 0 THEN 0
                           ELSE f[v - 1] + (IF v \in S THEN sections[v].size ELSE 0)]
<1>4. P(g)
    <2>1. \A v \in 0 .. n : g[v] = IF v = 0 THEN 0 ELSE g[v - 1] + Share(S, v)
        BY <1>2, <1>3 DEF Sums
    <2> QED
        BY <1>1, <1>3, <2>1 DEF Sums, Share
<1>5. PICK f : f = CHOOSE h : P(h)
    OBVIOUS
<1>6. P(f)
    BY <1>4, <1>5
<1>7. Build!SizeOf(S) = f[Len(sections)]
    BY <1>5 DEF Build!SizeOf
<1>8. \A v \in 0 .. n : f[v] = IF v = 0 THEN 0 ELSE f[v - 1] + Share(S, v)
    BY <1>1, <1>6 DEF Share
<1> HIDE DEF P
<1> DEFINE T == {k \in Nat : k \in 0 .. n => f[k] \in Nat}
<1>9. Nat \subseteq T
    <2>1. 0 \in T
        BY <1>8
    <2>2. ASSUME NEW k \in Nat, k \in T PROVE k + 1 \in T
        <3>1. ASSUME k + 1 \in 0 .. n PROVE f[k + 1] \in Nat
            <4>1. k \in 0 .. n /\ k + 1 \in 1 .. n /\ k + 1 # 0 /\ (k + 1) - 1 = k
                BY <1>1, <3>1
            <4>2. f[k] \in Nat
                BY <2>2, <4>1
            <4>3. Share(S, k + 1) \in Nat
                BY <1>1, <4>1
            <4>4. f[k + 1] = f[k] + Share(S, k + 1)
                BY <1>8, <3>1, <4>1
            <4> QED
                BY <4>2, <4>3, <4>4
        <3> QED
            BY <3>1
    <2> HIDE DEF T
    <2> QED
        BY <2>1, <2>2, NatSets
<1>10. \A v \in 0 .. n : f[v] \in Nat
    BY <1>1, <1>9
<1> QED
    BY <1>1, <1>7, <1>8, <1>10

(* The bytes of a section that has some are as many as its modules say.    *)
Sized ==
    \A v \in DOMAIN linked :
        "REF_ONLY" \notin linked[v].flags => linked[v].size = Len(linked[v].data)

LinkedInv ==
    /\ step = "code" => /\ NowReading /\ NumbersInv /\ FlagsInv /\ SizesInv
                        /\ pc = "linked" => IsSequence(sections)
    /\ step # "code" => (TrueSizes /\ OwnSections => Sized)

LEMMA LinkedNext ==
    ASSUME TypeInv, NowReading, NumbersInv, FlagsInv, SizesInv, [Next]_vars,
           pc = "linked" => IsSequence(sections)
    PROVE  /\ NowReading' /\ NumbersInv' /\ FlagsInv' /\ SizesInv'
           /\ pc' = "linked" => IsSequence(sections')
<1>1. NowReading'
    BY NextReading
<1>2. NumbersInv'
    BY NextNumbers
<1>3. FlagsInv'
    BY NextFlags
<1>4. SizesInv'
    BY NextSizes
<1>5. ASSUME pc' = "linked" PROVE IsSequence(sections')
    <2>1. CASE UNCHANGED vars
        BY <1>5, <2>1 DEF vars
    <2>2. CASE simplify
        <3>1. sections \in Seq(Section)
            BY <1>5, <2>2, SimplifiedSections
        <3>2. PICK n : n = Len(sections)
            OBVIOUS
        <3>3. n \in Nat /\ DOMAIN sections = 1 .. n
            BY <3>1, <3>2
        <3>4. PICK t : t = sections'
            OBVIOUS
        <3>5. t = [v \in 1 .. n |-> t[v]]
            BY <1>5, <2>2, <3>3, <3>4 DEF simplify, Abort
        <3>6. DOMAIN t = 1 .. n
            BY <3>5
        <3>7. PICK A : A = {t[k] : k \in DOMAIN t}
            OBVIOUS
        <3>8. t \in [1 .. n -> A]
            BY <3>5, <3>6, <3>7
        <3>9. t \in Seq(A)
            BY <3>3, <3>8
        <3> QED
            BY <3>4, <3>7, <3>9 DEF IsSequence
    <2> QED
        BY <1>5, <2>1, <2>2, Endings
<1> QED
    BY <1>1, <1>2, <1>3, <1>4, <1>5

LEMMA LinkedAlways == WdcSpec => []LinkedInv
<1>1. WdcInit => LinkedInv
    <2> SUFFICES ASSUME WdcInit PROVE LinkedInv
        OBVIOUS
    <2>1. Init /\ step = "code"
        BY DEF WdcInit, ToolInit, Build!InitBuild
    <2>2. NowReading /\ SizesInv
        <3>1. /\ pc = "file" /\ DOMAIN sections = Predefined
              /\ \A v \in Predefined : sections[v].size = 0 /\ sections[v].data = << >>
            BY <2>1 DEF Init, PredefinedSection
        <3> QED
            BY <3>1 DEF SizesInv, NowReading, ReadingModule
    <2>3. NumbersInv
        BY <2>1 DEF Init, NumbersInv, SectionsApart, ReadingModule
    <2>4. FlagsInv
        BY <2>1 DEF Init, FlagsInv, ReadingModule, PredefinedSection
    <2>5. pc # "linked"
        BY <2>1 DEF Init
    <2> QED
        BY <2>1, <2>2, <2>3, <2>4, <2>5 DEF LinkedInv
<1>2. ASSUME BuildInv, LinkedInv, [WdcNext \/ (Exited /\ UNCHANGED wdcVars)]_wdcVars
      PROVE  LinkedInv'
    <2>1. CASE LinkStep
        <3>1. step = "code" /\ step' = "code" /\ [Next]_vars /\ TypeInv
            BY <1>2, <2>1, ReadyLink DEF BuildInv, LinkStep, Ready
        <3>2. /\ NowReading' /\ NumbersInv' /\ FlagsInv' /\ SizesInv'
              /\ pc' = "linked" => IsSequence(sections')
            BY <1>2, <3>1, LinkedNext DEF LinkedInv
        <3> QED
            BY <3>1, <3>2 DEF LinkedInv
    <2>2. CASE BuildStep
        <3>1. step' # "code" /\ pc = "linked" /\ linked' = linked /\ loaded' = loaded
            BY <1>2, <2>2, BuildSteps DEF BuildInv, BuildStep
        <3>2. TrueSizes' = TrueSizes /\ OwnSections' = OwnSections /\ Sized' = Sized
            BY <3>1 DEF TrueSizes, OwnSections, Sized
        <3>3. CASE step = "code"
            <4>1. linked = sections
                BY <1>2, <3>1, <3>3 DEF BuildInv, Ready
            <4>2. SizesInv /\ ~ReadingModule
                BY <1>2, <3>1, <3>3 DEF LinkedInv, ReadingModule
            <4>3. TrueSizes /\ OwnSections => Sized
                BY <3>1, <4>1, <4>2 DEF SizesInv, Sized, HasData, OpenSection
            <4> QED
                BY <3>1, <3>2, <4>3 DEF LinkedInv
        <3>4. CASE step # "code"
            BY <1>2, <3>1, <3>2, <3>4 DEF LinkedInv
        <3> QED
            BY <3>3, <3>4
    <2>3. CASE SaveOmf \/ UNCHANGED toolVars
        <3>1. /\ UNCHANGED vars /\ UNCHANGED linked
              /\ step' = step \/ (step = "built" /\ step' = "returned")
            BY <2>3 DEF SaveOmf, toolVars, buildOwn
        <3>2. loaded' = loaded
            BY <3>1 DEF vars
        <3>3. TrueSizes' = TrueSizes /\ OwnSections' = OwnSections /\ Sized' = Sized
            BY <3>1, <3>2 DEF TrueSizes, OwnSections, Sized
        <3>4. CASE step = "code"
            <4>1. TypeInv
                BY <1>2, <3>4 DEF BuildInv, Ready
            <4>2. /\ NowReading' /\ NumbersInv' /\ FlagsInv' /\ SizesInv'
                  /\ pc' = "linked" => IsSequence(sections')
                BY <1>2, <3>1, <3>4, <4>1, LinkedNext DEF LinkedInv
            <4> QED
                BY <3>1, <3>4, <4>2 DEF LinkedInv
        <3>5. CASE step # "code"
            BY <1>2, <3>1, <3>3, <3>5 DEF LinkedInv
        <3> QED
            BY <3>4, <3>5
    <2>4. \/ LinkStep \/ BuildStep \/ SaveOmf \/ UNCHANGED toolVars
        BY <1>2 DEF WdcNext, ToolStep, SaveStep, SetFileType, wdcVars
    <2> QED
        BY <2>1, <2>2, <2>3, <2>4
<1> QED
    BY <1>1, <1>2, BuildAlways, PTL DEF WdcSpec

(* What is merged: f sums the sizes of the sections for the segment of the *)
(* code, the first m of all; ahead of the section at, only the code is in  *)
(* the segment already, and udata comes last.                              *)
Portion(v) == IF ForData(v) \/ v \in {CODE, UDATA} THEN linked[v].size ELSE 0

Totals(f, m) ==
    /\ m \in Nat /\ DOMAIN linked = 1 .. m
    /\ f[0] = 0 /\ f[m] <= MergeLimit
    /\ \A v \in 0 .. m : f[v] \in Nat
    /\ \A v \in 1 .. m : f[v] = f[v - 1] + Portion(v)

Ahead == IF at <= CODE THEN linked[CODE].size ELSE 0
Later == IF at > UDATA THEN linked[UDATA].size ELSE 0
Filled == Len(omf_segments[1].data)

MergedInv ==
    Going /\ Sized =>
        /\ step = "merge" => /\ data_segment = 1 /\ IsSequence(sections)
                             /\ Filled = linked[CODE].size
        /\ step = "data" /\ data_segment = 1 =>
               \E m, f : /\ Totals(f, m) /\ at \in 1 .. m + 1
                         /\ Filled + Later = f[at - 1] + Ahead
        /\ step \notin {"merge", "data"} /\ data_segment = 1 => Filled <= MergeLimit

LEMMA MergedCode ==
    ASSUME BuildInv, LinkedInv, BuildStep, Build!CodeSegment
    PROVE  MergedInv'
<1>1. /\ linked = sections /\ Handed(linked) /\ linked' = linked
      /\ step = "code" /\ step' = "merge"
      /\ sections' = [sections EXCEPT ![CODE].data = << >>]
      /\ omf_segments'[1].data = linked[CODE].data
    BY CodeShape DEF BuildInv
<1>2. data_segment' = 1
    BY <1>1 DEF BuildInv, Ready, Build!CodeSegment
<1>3. IsSequence(sections)
    BY <1>1 DEF LinkedInv, BuildStep
<1>4. PICK s, t, e : s = sections /\ t = sections' /\ e = [s[CODE] EXCEPT !.data = << >>]
    OBVIOUS
<1>5. t = [s EXCEPT ![CODE] = e] /\ IsSequence(s)
    BY <1>1, <1>3, <1>4
<1>6. IsSequence(t)
    BY <1>5, OneReplaced
<1>7. ASSUME Sized PROVE Len(linked[CODE].data) = linked[CODE].size
    <2>1. CODE \in DOMAIN linked /\ linked[CODE].flags = PredefinedFlags[CODE]
        <3>1. CODE \in Predefined
            BY DEF Predefined, CODE, PAGE0, UDATA
        <3>2. Flagged(linked)
            BY <1>1 DEF Handed
        <3> QED
            BY <3>1, <3>2 DEF Flagged
    <2>2. "REF_ONLY" \notin PredefinedFlags[CODE]
        BY DEF PredefinedFlags, CODE
    <2> QED
        BY <1>7, <2>1, <2>2 DEF Sized
<1>8. Sized' = Sized
    BY <1>1 DEF Sized
<1> QED
    BY <1>1, <1>2, <1>4, <1>6, <1>7, <1>8 DEF MergedInv, Filled

LEMMA MergedMerge ==
    ASSUME BuildInv, BuildStep, Build!MergeData, MergedInv
    PROVE  MergedInv'
<1>1. /\ step = "merge" /\ step' = "data" /\ at' = 1 /\ linked' = linked
      /\ UNCHANGED sections /\ Going
    BY BuildSteps DEF BuildInv, Build!MergeData, Build!GoTo, Going
<1>2. /\ Handed(linked) /\ DOMAIN sections = DOMAIN linked /\ Segments(omf_segments)
      /\ \A v \in DOMAIN linked : Alike(v)
      /\ data_segment \in DOMAIN omf_segments
    BY <1>1 DEF BuildInv, Shape
<1>3. Sized' = Sized
    BY <1>1 DEF Sized
<1> SUFFICES ASSUME Sized, data_segment' = 1
             PROVE  \E m, f : Totals(f, m)' /\ at' \in 1 .. m + 1
                              /\ (Filled + Later)' = f[at' - 1] + Ahead'
    BY <1>1, <1>3 DEF MergedInv
<1>4. data_segment = 1 /\ IsSequence(sections) /\ Filled = linked[CODE].size
    BY <1>1 DEF MergedInv
<1>5. ~Build!Crowded /\ UNCHANGED << omf_segments, data_segment >>
    <2>1. Len(omf_segments) \in Nat /\ DOMAIN omf_segments = 1 .. Len(omf_segments)
        BY <1>2, SegmentNumbers
    <2>2. Len(omf_segments) + 1 # 1
        BY <1>2, <2>1
    <2> QED
        BY <2>2 DEF Build!MergeData
<1>6. PICK m \in Nat : m = Len(sections) /\ DOMAIN sections = 1 .. m
    <2>1. PICK s, A : s = sections /\ A = {s[k] : k \in DOMAIN s}
        OBVIOUS
    <2>2. s \in Seq(A)
        BY <1>4, <2>1 DEF IsSequence
    <2> QED
        BY <2>1, <2>2
<1>7. PICK S : S = {v \in DOMAIN sections : Build!IsData(v) /\ ~Build!RefOnly(v)}
                       \cup {UDATA, CODE}
    OBVIOUS
<1>8. ~(Build!SizeOf(S) > MergeLimit)
    BY <1>5, <1>7, Names1 DEF Build!Crowded
<1>9. \A v \in 1 .. m : Share(S, v) = Portion(v) /\ Portion(v) \in Nat
    <2>1. ASSUME NEW v \in 1 .. m PROVE Share(S, v) = Portion(v) /\ Portion(v) \in Nat
        <3>1. v \in DOMAIN linked /\ v \in DOMAIN sections /\ Alike(v)
            BY <1>2, <1>6
        <3>2. linked[v].size \in Nat /\ sections[v].size = linked[v].size
              /\ sections[v].flags = linked[v].flags
            BY <3>1 DEF Alike, IsSection
        <3>3. v \in S <=> ForData(v) \/ v \in {CODE, UDATA}
            BY <1>7, <3>1, <3>2 DEF ForData, Build!IsData, Build!RefOnly
        <3> QED
            BY <3>2, <3>3 DEF Share, Portion
    <2> QED
        BY <2>1
<1>10. PICK f : /\ f[m] = Build!SizeOf(S) /\ f[0] = 0
                /\ \A v \in 0 .. m : f[v] \in Nat
                /\ \A v \in 1 .. m : f[v] = f[v - 1] + Share(S, v)
    BY <1>6, <1>9, SizeIsSum
<1>11. f[m] <= MergeLimit
    <2>1. f[m] \in Nat
        BY <1>10
    <2> QED
        BY <1>8, <1>10, <2>1, BuildAssumption
<1>12. Totals(f, m)'
    <2>1. \A v : Portion(v)' = Portion(v)
        BY <1>1 DEF Portion, ForData
    <2>2. \A v \in 1 .. m : f[v] = f[v - 1] + Portion(v)
        BY <1>9, <1>10
    <2> QED
        BY <1>1, <1>2, <1>6, <1>10, <1>11, <2>1, <2>2 DEF Totals
<1>13. at' \in 1 .. m + 1 /\ f[at' - 1] = 0
    BY <1>1, <1>6, <1>10
<1>14. Filled' = linked[CODE].size /\ Later' = 0 /\ Ahead' = linked[CODE].size
    BY <1>1, <1>4, <1>5 DEF Filled, Later, Ahead, UDATA, CODE
<1>15. linked[CODE].size \in Nat
    BY <1>2, HandedParts DEF IsSection
<1>16. (Filled + Later)' = f[at' - 1] + Ahead'
    BY <1>13, <1>14, <1>15
<1> QED
    BY <1>12, <1>13, <1>16

(* One section more is ahead. *)
LEMMA MergedData ==
    ASSUME BuildInv, BuildStep, Build!DataSection, MergedInv
    PROVE  MergedInv'
<1>1. /\ step = "data" /\ step' = "data" /\ at \in DOMAIN sections /\ at' = at + 1
      /\ Build!IsData(at) /\ ~Build!RefOnly(at)
      /\ UNCHANGED << data_segment, linked >> /\ Going /\ Placing
    BY BuildSteps DEF BuildInv, Build!DataSection, Build!NextSection, Going, Placing
<1>2. /\ Handed(linked) /\ DOMAIN sections = DOMAIN linked /\ Segments(omf_segments)
      /\ \A v \in DOMAIN linked : Alike(v)
      /\ data_segment \in DOMAIN omf_segments
    BY <1>1 DEF BuildInv, Shape
<1>0. at \in Nat
    BY <1>1 DEF BuildInv, Shape
<1>3. Sized' = Sized
    BY <1>1 DEF Sized
<1> SUFFICES ASSUME Sized, data_segment = 1
             PROVE  \E m, f : Totals(f, m)' /\ at' \in 1 .. m + 1
                              /\ (Filled + Later)' = f[at' - 1] + Ahead'
    BY <1>1, <1>3 DEF MergedInv
<1>4. PICK m, f : /\ Totals(f, m) /\ at \in 1 .. m + 1
                  /\ Filled + Later = f[at - 1] + Ahead
    BY <1>1 DEF MergedInv
<1>5. /\ m \in Nat /\ DOMAIN linked = 1 .. m /\ at \in 1 .. m
      /\ f[at] = f[at - 1] + Portion(at) /\ f[at] \in Nat /\ f[at - 1] \in Nat
    <2>1. m \in Nat /\ DOMAIN linked = 1 .. m
        BY <1>4 DEF Totals
    <2>2. at \in 1 .. m /\ at \in 0 .. m /\ at - 1 \in 0 .. m
        BY <1>1, <1>2, <2>1
    <2> QED
        BY <1>4, <2>1, <2>2 DEF Totals
<1>6. ForData(at) /\ at # CODE /\ at # UDATA
    <2>1. ForData(at)
        BY <1>1, <1>2 DEF Build!IsData, Build!RefOnly, Alike, ForData
    <2> QED
        BY <1>2, <2>1, PredefinedPlaces
<1>7. at \notin Done
    <2>1. ~(at < at)
        BY <1>0
    <2> QED
        BY <1>1, <1>6, <2>1 DEF Done
<1>8. sections[at].data = linked[at].data
    BY <1>1, <1>2, <1>7 DEF BuildInv, PlacedInv
<1>9. Portion(at) = Len(linked[at].data) /\ Len(linked[at].data) \in Nat
    <2>1. linked[at].size = Len(linked[at].data)
        BY <1>1, <1>2, <1>6 DEF Sized, ForData
    <2>2. linked[at].data \in Seq(Byte)
        BY <1>1, <1>2, HandedParts DEF IsSection
    <2> QED
        BY <1>6, <2>1, <2>2 DEF Portion
<1>10. Filled' = Filled + Len(linked[at].data) /\ Filled \in Nat
    <2>1. PICK o, p, b : o = omf_segments /\ p = omf_segments' /\ b = linked[at].data
        OBVIOUS
    <2>2. Longer(o, 1, b, p)
        BY <1>8, <2>1 DEF Build!DataSection, Build!Extend, Longer
    <2>3. Segments(o) /\ 1 \in DOMAIN o /\ b \in Seq(Byte)
        BY <1>1, <1>2, <2>1, HandedParts DEF IsSection
    <2>4. p[1].data = o[1].data \o b
        BY <2>2, <2>3, DataAdded
    <2>5. o[1].data \in Seq(Byte)
        BY <2>3 DEF Segments, IsSegment
    <2>6. PICK d : d = o[1].data
        OBVIOUS
    <2>7. Len(d \o b) = Len(d) + Len(b) /\ Len(d) \in Nat
        BY <2>3, <2>5, <2>6
    <2> QED
        BY <2>1, <2>4, <2>6, <2>7 DEF Filled
<1>11. Later' = Later /\ Ahead' = Ahead /\ Later \in Nat /\ Ahead \in Nat
    <2>1. linked[CODE].size \in Nat /\ linked[UDATA].size \in Nat
        BY <1>2, HandedParts DEF IsSection
    <2>2. (at + 1 <= CODE <=> at <= CODE) /\ (at + 1 > UDATA <=> at > UDATA)
        BY <1>0, <1>6 DEF CODE, UDATA
    <2> QED
        BY <1>1, <2>1, <2>2 DEF Later, Ahead
<1>12. Totals(f, m)'
    <2>1. \A v : Portion(v)' = Portion(v)
        BY <1>1 DEF Portion, ForData
    <2> QED
        BY <1>1, <1>4, <2>1 DEF Totals
<1>13. at' \in 1 .. m + 1 /\ at' - 1 = at
    BY <1>1, <1>5
<1>14. (Filled + Later)' = f[at' - 1] + Ahead'
    <2>1. PICK x, y, n, a, d : /\ x = f[at - 1] /\ y = f[at] /\ n = Filled /\ a = Ahead
                               /\ d = Later
        OBVIOUS
    <2>2. PICK b : b = Len(linked[at].data)
        OBVIOUS
    <2>3. /\ x \in Nat /\ y \in Nat /\ n \in Nat /\ a \in Nat /\ d \in Nat /\ b \in Nat
          /\ y = x + b /\ n + d = x + a
        BY <1>4, <1>5, <1>9, <1>10, <1>11, <2>1, <2>2
    <2>4. (n + b) + d = y + a
        BY <2>3
    <2> QED
        BY <1>10, <1>11, <1>13, <2>1, <2>2, <2>4
<1> QED
    BY <1>12, <1>13, <1>14

LEMMA MergedSkip ==
    ASSUME BuildInv, BuildStep, Build!SkipSection, MergedInv
    PROVE  MergedInv'
<1>1. /\ step' = step /\ step \in {"data", "own"} /\ at \in DOMAIN sections /\ at' = at + 1
      /\ step = "data" => Build!RefOnly(at) \/ ~Build!IsData(at)
      /\ UNCHANGED << data_segment, linked, omf_segments >> /\ Going
    BY BuildSteps DEF BuildInv, Build!SkipSection, Build!NextSection, Going
<1>2. /\ Handed(linked) /\ DOMAIN sections = DOMAIN linked
      /\ \A v \in DOMAIN linked : Alike(v)
    BY <1>1 DEF BuildInv, Shape
<1>0. at \in Nat
    BY <1>1 DEF BuildInv, Shape
<1>3. Sized' = Sized /\ Filled' = Filled
    BY <1>1 DEF Sized, Filled
<1>4. CASE step = "own"
    BY <1>1, <1>3, <1>4 DEF MergedInv
<1>5. CASE step = "data"
    <2> SUFFICES ASSUME Sized, data_segment = 1
                 PROVE  \E m, f : Totals(f, m)' /\ at' \in 1 .. m + 1
                                  /\ (Filled + Later)' = f[at' - 1] + Ahead'
        BY <1>1, <1>3, <1>5 DEF MergedInv
    <2>4. PICK m, f : /\ Totals(f, m) /\ at \in 1 .. m + 1
                      /\ Filled + Later = f[at - 1] + Ahead
        BY <1>1, <1>5 DEF MergedInv
    <2>5. /\ m \in Nat /\ DOMAIN linked = 1 .. m /\ at \in 1 .. m
          /\ f[at] = f[at - 1] + Portion(at) /\ f[at] \in Nat /\ f[at - 1] \in Nat
        <3>1. m \in Nat /\ DOMAIN linked = 1 .. m
            BY <2>4 DEF Totals
        <3>2. at \in 1 .. m
            BY <1>1, <1>2, <3>1
        <3>3. at \in 0 .. m /\ at - 1 \in 0 .. m
            BY <3>1, <3>2
        <3> QED
            BY <2>4, <3>1, <3>2, <3>3 DEF Totals
    <2>6. ~ForData(at)
        BY <1>1, <1>2, <1>5 DEF Build!IsData, Build!RefOnly, Alike, ForData
    <2>7. PICK c, u : c = linked[CODE].size /\ u = linked[UDATA].size
        OBVIOUS
    <2>8. c \in Nat /\ u \in Nat
        BY <1>2, <2>7, HandedParts DEF IsSection
    <2>9. Filled \in Nat
        <3>1. 1 \in DOMAIN omf_segments /\ Segments(omf_segments)
            BY <1>1 DEF BuildInv, Shape
        <3> QED
            BY <3>1 DEF Segments, IsSegment, Filled
    <2>10. /\ Portion(at) = (IF at = CODE THEN c ELSE IF at = UDATA THEN u ELSE 0)
           /\ Ahead = (IF at <= CODE THEN c ELSE 0)
           /\ Later = (IF at > UDATA THEN u ELSE 0)
           /\ Ahead' = (IF at + 1 <= CODE THEN c ELSE 0)
           /\ Later' = (IF at + 1 > UDATA THEN u ELSE 0)
        BY <1>1, <2>6, <2>7 DEF Portion, Ahead, Later
    <2>11. Filled + Later' = f[at] + Ahead'
        <3>1. PICK x, y, n, a : x = f[at - 1] /\ y = f[at] /\ n = Filled /\ a = at
            OBVIOUS
        <3>2. /\ x \in Nat /\ y \in Nat /\ n \in Nat /\ a \in Nat
              /\ y = x + (IF a = 2 THEN c ELSE IF a = 5 THEN u ELSE 0)
              /\ n + (IF a > 5 THEN u ELSE 0) = x + (IF a <= 2 THEN c ELSE 0)
            BY <1>0, <2>4, <2>5, <2>9, <2>10, <3>1 DEF CODE, UDATA
        <3>3. n + (IF a + 1 > 5 THEN u ELSE 0) = y + (IF a + 1 <= 2 THEN c ELSE 0)
            BY <2>8, <3>2
        <3> QED
            BY <2>10, <3>1, <3>3 DEF CODE, UDATA
    <2>12. Totals(f, m)'
        <3>1. \A v : Portion(v)' = Portion(v)
            BY <1>1 DEF Portion, ForData
        <3> QED
            BY <1>1, <2>4, <3>1 DEF Totals
    <2>13. at' \in 1 .. m + 1 /\ at' - 1 = at
        BY <1>1, <2>5
    <2> QED
        BY <1>3, <2>11, <2>12, <2>13
<1> QED
    BY <1>1, <1>4, <1>5

LEMMA MergedUdata ==
    ASSUME BuildInv, BuildStep, Build!Udata, MergedInv
    PROVE  MergedInv'
<1>1. /\ step = "data" /\ step' = "own" /\ at \notin DOMAIN sections
      /\ UNCHANGED << data_segment, linked >> /\ Going
    BY BuildSteps DEF BuildInv, Build!Udata, Build!GoTo, Going
<1>2. /\ Handed(linked) /\ DOMAIN sections = DOMAIN linked /\ Segments(omf_segments)
      /\ \A v \in DOMAIN linked : Alike(v)
      /\ data_segment \in DOMAIN omf_segments
    BY <1>1 DEF BuildInv, Shape
<1>0. at \in Nat
    BY <1>1 DEF BuildInv, Shape
<1>3. Sized' = Sized
    BY <1>1 DEF Sized
<1> SUFFICES ASSUME Sized, data_segment = 1 PROVE Filled' <= MergeLimit
    BY <1>1, <1>3 DEF MergedInv
<1>4. PICK m, f : /\ Totals(f, m) /\ at \in 1 .. m + 1
                  /\ Filled + Later = f[at - 1] + Ahead
    BY <1>1 DEF MergedInv
<1>5. m \in Nat /\ DOMAIN linked = 1 .. m /\ f[m] \in Nat /\ f[m] <= MergeLimit
    BY <1>4 DEF Totals
<1>6. at = m + 1 /\ at - 1 = m
    BY <1>0, <1>1, <1>2, <1>4, <1>5
<1>7. m >= 5
    <2>1. 5 \in DOMAIN linked
        BY <1>2, HandedParts DEF UDATA
    <2> QED
        BY <1>5, <2>1
<1>8. PICK u : u = linked[UDATA].size
    OBVIOUS
<1>9. u \in Nat /\ sections[UDATA].size = u
    BY <1>2, <1>8, HandedParts DEF Alike, IsSection
<1>10. Later = u /\ Ahead = 0
    BY <1>5, <1>6, <1>7, <1>8 DEF Later, Ahead, CODE, UDATA
<1>11. Filled' = Filled + u /\ Filled \in Nat
    <2>1. PICK o, p, b : o = omf_segments /\ p = omf_segments' /\ b = Build!Zeros(u)
        OBVIOUS
    <2>2. Longer(o, 1, b, p)
        BY <1>9, <2>1, Names1 DEF Build!Udata, Build!Extend, Longer
    <2>3. Segments(o) /\ 1 \in DOMAIN o /\ b \in Seq(Byte) /\ Len(b) = u
        BY <1>2, <1>9, <2>1, ZerosType
    <2>4. p[1].data = o[1].data \o b
        BY <2>2, <2>3, DataAdded
    <2>5. o[1].data \in Seq(Byte)
        BY <2>3 DEF Segments, IsSegment
    <2>6. PICK d : d = o[1].data
        OBVIOUS
    <2>7. Len(d \o b) = Len(d) + Len(b) /\ Len(d) \in Nat
        BY <2>3, <2>5, <2>6
    <2> QED
        BY <2>1, <2>3, <2>4, <2>6, <2>7 DEF Filled
<1>12. f[at - 1] = f[m]
    BY <1>6
<1>13. Filled + u = f[m]
    BY <1>4, <1>5, <1>10, <1>12
<1> QED
    BY <1>5, <1>11, <1>13

(* What comes after leaves the segment as long as it is. *)
LEMMA MergedAfter ==
    ASSUME BuildInv, BuildStep, step \in {"own", "convert", "to_omf"}, MergedInv, Going'
    PROVE  MergedInv'
<1>1. Going /\ linked' = linked
    BY BuildSteps DEF BuildInv, Going
<1>2. Segments(omf_segments) /\ data_segment \in DOMAIN omf_segments
    BY <1>1 DEF BuildInv, Shape
<1>3. Sized' = Sized
    BY <1>1 DEF Sized
<1>4. ASSUME 1 \in DOMAIN omf_segments
      PROVE  /\ Filled' = Filled /\ data_segment' = data_segment
             /\ step' \notin {"merge", "data"}
    <2>1. CASE Build!SkipSection
        BY <2>1 DEF Build!SkipSection, Build!NextSection, Filled
    <2>2. CASE Build!OwnSegment
        <3>1. PICK o, p, s : /\ o = omf_segments /\ p = omf_segments'
                             /\ s = Build!Segment(Len(omf_segments) + 1, "code",
                                          sections[at].name, sections[at].data)
            OBVIOUS
        <3>2. p = Append(o, s) /\ step' = step /\ data_segment' = data_segment
            BY <2>2, <3>1 DEF Build!OwnSegment, Build!NextSection
        <3>3. IsSequence(o) /\ 1 \in DOMAIN o
            BY <1>2, <1>4, <3>1 DEF Segments
        <3>4. \A k \in DOMAIN o : p[k] = o[k]
            BY <3>2, <3>3, OneMore
        <3> QED
            BY <3>1, <3>2, <3>3, <3>4 DEF Filled
    <2>3. CASE Build!StackSegment
        <3>0. step' = "convert" /\ data_segment' = data_segment
            BY <2>3 DEF Build!StackSegment, Build!GoTo
        <3>1. CASE UNCHANGED omf_segments
            BY <3>0, <3>1 DEF Filled
        <3>2. CASE ~UNCHANGED omf_segments
            <4>1. PICK o, p, s, t : /\ o = omf_segments /\ p = omf_segments'
                                    /\ p = o \o << t, s >>
                BY <2>3, <3>2 DEF Build!StackSegment
            <4>2. IsSequence(o) /\ 1 \in DOMAIN o
                BY <1>2, <1>4, <4>1 DEF Segments
            <4>3. PICK q : q = Append(o, t)
                OBVIOUS
            <4>4. p = Append(q, s)
                BY <4>1, <4>2, <4>3 DEF IsSequence
            <4>5. IsSequence(q)
                BY <4>2, <4>3, OneMore
            <4>6. \A k \in DOMAIN o : q[k] = o[k]
                BY <4>2, <4>3, OneMore
            <4>7. 1 \in DOMAIN q
                BY <4>2, <4>3, OneMore
            <4>8. \A k \in DOMAIN q : p[k] = q[k]
                BY <4>4, <4>5, OneMore
            <4> QED
                BY <3>0, <4>1, <4>2, <4>6, <4>7, <4>8 DEF Filled
        <3> QED
            BY <3>1, <3>2
    <2>4. CASE Build!Adjust
        BY <2>4, AdjustEffect DEF BuildInv, Filled
    <2>5. CASE Build!NextExpressions \/ Build!Built
        BY <2>5, NextEffect DEF BuildInv, Filled
    <2>6. CASE ToOmf
        <3>1. /\ step' = "convert" /\ data_segment' = data_segment
              /\ \/ \E c \in Kinds : \E r : Adds(remap[at].segnum, c, r)
                 \/ UNCHANGED omf_segments
            BY <2>6, ToOmfEffect DEF BuildInv
        <3>2. omf_segments'[1].data = omf_segments[1].data
            BY <1>4, <3>1 DEF Adds
        <3> QED
            BY <3>1, <3>2 DEF Filled
    <2>7. ~Build!ConversionDies
        BY DEF Build!ConversionDies, Going
    <2>8. \/ Build!SkipSection \/ Build!OwnSegment \/ Build!StackSegment \/ Build!Adjust
          \/ Build!NextExpressions \/ Build!Built \/ ToOmf
        BY <2>7, BuildCases DEF BuildStep
    <2> QED
        BY <2>1, <2>2, <2>3, <2>4, <2>5, <2>6, <2>8
<1>5. /\ step' \notin {"merge", "data"}
      /\ data_segment' = 1 => data_segment = 1 /\ Filled' = Filled
    <2>1. data_segment' = data_segment /\ step' \notin {"merge", "data"}
        <3>1. 1 \in DOMAIN omf_segments
            <4>1. /\ Len(omf_segments) \in Nat /\ DOMAIN omf_segments = 1 .. Len(omf_segments)
                BY <1>2, SegmentNumbers
            <4> QED
                BY <1>2, <4>1
        <3> QED
            BY <1>4, <3>1
    <2> QED
        BY <1>2, <1>4, <2>1
<1> QED
    BY <1>1, <1>3, <1>5 DEF MergedInv

LEMMA MergedAlways == WdcSpec => []MergedInv
<1>1. WdcInit => MergedInv
    BY DEF WdcInit, ToolInit, Build!InitBuild, MergedInv, Going
<1>2. ASSUME BuildInv, LinkedInv, MergedInv,
             [WdcNext \/ (Exited /\ UNCHANGED wdcVars)]_wdcVars
      PROVE  MergedInv'
    <2>1. CASE LinkStep
        <3>1. step' = "code"
            BY <1>2, <2>1, ReadyLink DEF BuildInv
        <3> QED
            BY <3>1 DEF MergedInv, Going
    <2>2. CASE BuildStep
        <3>1. CASE ~Going'
            BY <3>1 DEF MergedInv
        <3>2. CASE Going' /\ step \in {"code", "merge", "data"}
            <4>1. \/ Build!CodeSegment \/ Build!MergeData \/ Build!DataSection
                  \/ Build!SkipSection \/ Build!Udata
                BY <2>2, <3>2, BuildCases DEF BuildStep
            <4> QED
                BY <1>2, <2>2, <4>1, MergedCode, MergedMerge, MergedData, MergedSkip,
                   MergedUdata
        <3>3. CASE Going' /\ step \in {"own", "convert", "to_omf"}
            BY <1>2, <2>2, <3>3, MergedAfter
        <3> QED
            BY <2>2, <3>1, <3>2, <3>3, BuildCases DEF BuildStep
    <2>3. CASE SaveOmf
        BY <2>3 DEF SaveOmf, MergedInv, Going
    <2>4. CASE UNCHANGED toolVars
        <3>1. /\ UNCHANGED << sections, linked, step, at, omf_segments, data_segment >>
            BY <2>4 DEF toolVars, buildOwn, vars
        <3>2. /\ Sized' = Sized /\ Going' = Going /\ Filled' = Filled /\ Later' = Later
              /\ Ahead' = Ahead
            BY <3>1 DEF Sized, Going, Filled, Later, Ahead
        <3>3. \A f, m : Totals(f, m)' = Totals(f, m)
            <4>1. \A v : Portion(v)' = Portion(v)
                BY <3>1 DEF Portion, ForData
            <4> QED
                BY <3>1, <4>1 DEF Totals
        <3> QED
            BY <1>2, <3>1, <3>2, <3>3 DEF MergedInv
    <2>5. \/ LinkStep \/ BuildStep \/ SaveOmf \/ UNCHANGED toolVars
        BY <1>2 DEF WdcNext, ToolStep, SaveStep, SetFileType, wdcVars
    <2> QED
        BY <2>1, <2>2, <2>3, <2>4, <2>5
<1> QED
    BY <1>1, <1>2, BuildAlways, LinkedAlways, PTL DEF WdcSpec

(* build_omf_segments() decides by the declared sizes whether the data     *)
(* join the first code segment. Where every module puts as many bytes into *)
(* a section as it declares, and gives its own sections names of their     *)
(* own, the segment of whatever it merges is no longer than the limit.     *)
THEOREM MergedDataFit == WdcSpec => [](TrueSizes /\ OwnSections => MergedFits)
<1>1. BuildInv /\ LinkedInv /\ MergedInv => (TrueSizes /\ OwnSections => MergedFits)
    BY DEF LinkedInv, MergedInv, MergedFits, Going, Filled
<1> QED
    BY <1>1, BuildAlways, LinkedAlways, MergedAlways, PTL
=============================================================================
