------------------------------ MODULE OmfBuild ------------------------------
(***************************************************************************)
(* build_omf_segments() and to_omf() of link.cpp: the sections of a        *)
(* finished link become OMF segments, and the expressions that are left in *)
(* them become bytes or relocation records of the segments.                *)
(*                                                                         *)
(* An action is one turn of one loop of build_omf_segments(). The segments *)
(* are numbered from 1, as in OMF; 0 is the segment of what was not placed.*)
(***************************************************************************)
EXTENDS Integers, Sequences, FiniteSets, Expression

CONSTANTS
    MergeLimit,     \* 0xffff: the most that is merged in one segment
    ShortReach,     \* 127: the furthest branch by one byte
    LongReach,      \* 32767: the furthest branch by more
    MaxShift,       \* 24: the furthest shift of an address
    PageSize        \* 256: page0 is allotted in pages

VARIABLES
    sections, errors,   \* what the link left
    stack_segment,      \* flags.S
    step,               \* the part of build_omf_segments() that runs
    at, item,           \* the section of the loop, the expression in it
    omf_segments,
    remap,              \* section -> [segnum, offset]
    data_segment        \* the segment that data sections go to

made == << omf_segments, remap, data_segment >>
buildVars == << sections, errors, stack_segment, step, at, item, made >>

PAGE0 == 1
CODE  == 2
UDATA == 5

Zero == [by |-> 0, section |-> 0, at |-> 0]    \* a byte that no record put there
Zeros(n) == [k \in 1 .. n |-> Zero]

Nowhere == [segnum |-> 0, offset |-> 0]

Segment(segnum, kind, name, data) ==
    [segnum |-> segnum, kind |-> kind, name |-> name, data |-> data,
     patches |-> << >>, relocs |-> << >>, intersegs |-> << >>]

InitBuild ==
    /\ stack_segment \in BOOLEAN
    /\ step = "code" /\ at = 1 /\ item = 1
    /\ omf_segments = << >> /\ remap = << >> /\ data_segment = 1

-----------------------------------------------------------------------------
(* The segments. *)

RefOnly(v) == "REF_ONLY" \in sections[v].flags
IsData(v)  == "DATA" \in sections[v].flags

GoTo(s) == step' = s /\ at' = 1 /\ item' = 1

CodeSegment ==
    /\ step = "code"
    /\ omf_segments' = << Segment(1, "code", "", sections[CODE].data) >>
    /\ remap' = [v \in DOMAIN sections |->
                    IF v = CODE THEN [segnum |-> 1, offset |-> 0] ELSE Nowhere]
    /\ sections' = [sections EXCEPT ![CODE].data = << >>]
    /\ GoTo("merge")
    /\ UNCHANGED << errors, stack_segment, data_segment >>

SizeOf(S) ==
    LET sum[v \in 0 .. Len(sections)] ==
            IF v = 0 THEN 0
            ELSE sum[v - 1] + (IF v \in S THEN sections[v].size ELSE 0)
    IN  sum[Len(sections)]

(* Variant: the code is not counted. *)
Crowded_DataOnly ==
    SizeOf({v \in DOMAIN sections : IsData(v) /\ ~RefOnly(v)} \cup {UDATA}) > MergeLimit

(* By the declared sizes: the data and the first code segment do not share *)
(* a bank.                                                                 *)
Crowded == SizeOf({v \in DOMAIN sections : IsData(v) /\ ~RefOnly(v)}
                  \cup {UDATA, CODE}) > MergeLimit

MergeData ==
    /\ step = "merge"
    /\ \/ /\ Crowded
          /\ omf_segments' = Append(omf_segments,
                                    Segment(Len(omf_segments) + 1, "data", "", << >>))
          /\ data_segment' = Len(omf_segments) + 1
       \/ ~Crowded /\ UNCHANGED << omf_segments, data_segment >>
    /\ GoTo("data")
    /\ UNCHANGED << sections, errors, stack_segment, remap >>

(* The place at the end of the data segment, and more bytes there. *)
Allot(v) == remap' = [remap EXCEPT ![v] =
                [segnum |-> data_segment,
                 offset |-> Len(omf_segments[data_segment].data)]]
Extend(bytes) == omf_segments' = [omf_segments EXCEPT ![data_segment].data = @ \o bytes]

NextSection == at' = at + 1 /\ UNCHANGED << errors, stack_segment, step, item, data_segment >>

DataSection ==
    /\ step = "data" /\ at \in DOMAIN sections /\ IsData(at) /\ ~RefOnly(at)
    /\ Allot(at) /\ Extend(sections[at].data)
    /\ sections' = [sections EXCEPT ![at].data = << >>]
    /\ NextSection

SkipSection ==
    /\ at \in DOMAIN sections
    /\ \/ step = "data" /\ (RefOnly(at) \/ ~IsData(at))
       \/ step = "own"  /\ (RefOnly(at) \/ IsData(at) \/ at = CODE)
    /\ NextSection /\ UNCHANGED << sections, omf_segments, remap >>

(* Variant: udata starts at its first byte in the last data section. *)
Udata_Before ==
    /\ step = "data" /\ at \notin DOMAIN sections
    /\ remap' = [remap EXCEPT ![UDATA] = [segnum |-> data_segment, offset |-> 0]]
    /\ Extend(Zeros(sections[UDATA].size))
    /\ GoTo("own")
    /\ UNCHANGED << sections, errors, stack_segment, data_segment >>

(* udata is only a size: room after the last data section. *)
Udata ==
    /\ step = "data" /\ at \notin DOMAIN sections
    /\ Allot(UDATA) /\ Extend(Zeros(sections[UDATA].size))
    /\ GoTo("own")
    /\ UNCHANGED << sections, errors, stack_segment, data_segment >>

(* Any other code section is a segment of its own. *)
OwnSegment ==
    /\ step = "own" /\ at \in DOMAIN sections
    /\ ~RefOnly(at) /\ ~IsData(at) /\ at # CODE
    /\ LET n == Len(omf_segments) + 1
       IN  /\ omf_segments' = Append(omf_segments,
                  Segment(n, "code", sections[at].name, sections[at].data))
           /\ remap' = [remap EXCEPT ![at] = [segnum |-> n, offset |-> 0]]
    /\ sections' = [sections EXCEPT ![at].data = << >>]
    /\ NextSection

Pages(size) == ((size + PageSize - 1) \div PageSize) * PageSize

(* -S: the segment is appended, then moved into a copy of itself at the    *)
(* end, which has its number, and remap takes the number from the emptied  *)
(* original (which may have been freed: any number).                       *)
StackSegment ==
    /\ step = "own" /\ at \notin DOMAIN sections
    /\ LET n     == Len(omf_segments) + 1
           size  == sections[PAGE0].size
           stack == Segment(n, "stack", "", Zeros(Pages(size)))
       IN  \/ /\ stack_segment /\ size > 0
              /\ omf_segments' = omf_segments \o << [stack EXCEPT !.data = << >>], stack >>
              /\ \E found \in {n, 0} :
                     remap' = [remap EXCEPT ![PAGE0] = [segnum |-> found, offset |-> 0]]
           \/ ~(stack_segment /\ size > 0) /\ UNCHANGED << omf_segments, remap >>
    /\ GoTo("convert")
    /\ UNCHANGED << sections, errors, stack_segment, data_segment >>

-----------------------------------------------------------------------------
(* The expressions: the offsets move with the sections, what then can be   *)
(* folded is folded in place, and to_omf() makes a record of the rest.     *)

AtExpression == /\ step = "convert" /\ at \in DOMAIN sections
                /\ item \in DOMAIN sections[at].expressions

Moved(t) == IF t.tag = "LOC"
            THEN Loc(remap[t.section].segnum, Wrap(t.value + remap[t.section].offset))
            ELSE t

Raw == sections[at].expressions[item]
Fold == simplify_expression([k \in DOMAIN Raw.stack |-> Moved(Raw.stack[k])])

(* Variant: the offset of the patch stays. *)
Adjusted_StackOnly == [Raw EXCEPT !.stack = Fold.v]

Adjusted == [Raw EXCEPT !.offset = @ + remap[at].offset, !.stack = Fold.v]

Adjust ==
    /\ AtExpression /\ Fold.ok
    /\ sections' = [sections EXCEPT ![at].expressions[item] = Adjusted]
    /\ step' = "to_omf"
    /\ UNCHANGED << errors, stack_segment, at, item, made >>

Seg == omf_segments[remap[at].segnum]

(* expr_error() also counts an expression that it cannot print: one that   *)
(* does not reduce to one operand.                                         *)
Depth(stack, n) ==
    Cardinality({k \in 1 .. n : stack[k].tag \in Operands})
    - Cardinality({k \in 1 .. n : stack[k].tag \in BinaryOps})
Printable(stack) ==
    /\ Depth(stack, Len(stack)) = 1
    /\ \A k \in DOMAIN stack : stack[k].tag \notin Operands => Depth(stack, k) > 0

Complaint(fatal, e) == IF fatal \/ ~Printable(e.stack) THEN 1 ELSE 0

(* An expression that does not fit is complained about, and converted.     *)
TooWide(e) == IF e.size > 4 THEN 1 ELSE 0

Single(e) == e.size > 0 /\ Len(e.stack) = 1
Target(e) == e.stack[1]

Branch(e) == Single(e) /\ e.relative /\ Target(e).tag \in {"VAL", "LOC"}

(* Variant: from the first of the bytes. *)
Distance_FromStart(e) == Signed(Target(e).value) - e.offset

Distance(e) == Signed(Target(e).value) - e.offset - e.size
InReach(e) == LET far == IF e.size = 1 THEN ShortReach ELSE LongReach
              IN  Distance(e) \in -far - 1 .. far

Address(e) == Single(e) /\ ~e.relative /\ Target(e).tag = "LOC"
Shifted(e) ==
    /\ e.size > 0 /\ Len(e.stack) = 3
    /\ Target(e).tag = "LOC" /\ e.stack[2].tag = "VAL" /\ e.stack[3].tag \in {"SHL", "SHR"}

Shift(e) == IF Len(e.stack) = 1 THEN 0
            ELSE IF e.stack[3].tag = "SHR" THEN -e.stack[2].value ELSE e.stack[2].value

(* to_omf() has E; the loop goes on, with n more errors. *)
E == sections[at].expressions[item]
Converting == step = "to_omf" /\ remap[at].segnum # 0
ConvertNext(n) ==
    /\ errors' = errors + n
    /\ item' = item + 1 /\ step' = "convert"
    /\ UNCHANGED << sections, stack_segment, at, remap, data_segment >>

Update(seg) == omf_segments' = [omf_segments EXCEPT ![remap[at].segnum] = seg]

(* An expression of a section without a segment: at(-1) throws; or the     *)
(* folding ends the process.                                               *)
ConversionDies ==
    /\ \/ AtExpression /\ ~Fold.ok
       \/ step = "to_omf" /\ remap[at].segnum = 0
    /\ step' = "aborted"
    /\ UNCHANGED << sections, errors, stack_segment, at, item, made >>

EmptyExpression ==
    /\ Converting /\ (E.stack = << >> \/ E.size = 0)
    /\ ConvertNext(Complaint(FALSE, E)) /\ UNCHANGED omf_segments

Patch(e, value) == [offset |-> e.offset, size |-> e.size, value |-> value]

PatchBranch ==
    /\ Converting /\ Branch(E) /\ InReach(E)
    /\ Update([Seg EXCEPT !.patches = Append(@, Patch(E, Distance(E)))])
    /\ ConvertNext(TooWide(E))

PatchConstant ==
    /\ Converting /\ Single(E) /\ ~E.relative /\ Target(E).tag = "VAL"
    /\ Update([Seg EXCEPT !.patches = Append(@, Patch(E, Target(E).value))])
    /\ ConvertNext(TooWide(E))

Relocatable == /\ Address(E) \/ Shifted(E)
               /\ Target(E).section # 0
               /\ Shifted(E) => E.stack[2].value <= MaxShift

Reloc(e) == [offset |-> e.offset, size |-> e.size, shift |-> Shift(e),
             value |-> Target(e).value]

InterSeg(e) == [offset |-> e.offset, size |-> e.size, shift |-> Shift(e),
                segment |-> Target(e).section, segment_offset |-> Target(e).value]

(* An address in the segment itself, ... *)
Relocate ==
    /\ Converting /\ Relocatable /\ Target(E).section = Seg.segnum
    /\ Update([Seg EXCEPT !.relocs = Append(@, Reloc(E))])
    /\ ConvertNext(TooWide(E))

(* ... and one in another segment. *)
RelocateOther ==
    /\ Converting /\ Relocatable /\ Target(E).section # Seg.segnum
    /\ Update([Seg EXCEPT !.intersegs = Append(@, InterSeg(E))])
    /\ ConvertNext(TooWide(E))

(* "Shift too large": the only complaint that is not an error. *)
ShiftTooLarge ==
    /\ Converting /\ Shifted(E) /\ E.stack[2].value > MaxShift
    /\ ConvertNext(Complaint(FALSE, E) + TooWide(E)) /\ UNCHANGED omf_segments

(* Variant: a warning. *)
Refuse_Warns ==
    /\ Converting /\ E.stack # << >> /\ E.size > 0
    /\ \/ Branch(E) /\ ~InReach(E)
       \/ ~(Branch(E) \/ Address(E) \/ Shifted(E)
            \/ (Single(E) /\ ~E.relative /\ Target(E).tag = "VAL"))
    /\ ConvertNext(Complaint(FALSE, E)) /\ UNCHANGED omf_segments

(* "Relative branch out of range", "Invalid segment", "too complex": the   *)
(* bytes stay zero.                                                        *)
Refuse ==
    /\ Converting /\ E.stack # << >> /\ E.size > 0
    /\ \/ Branch(E) /\ ~InReach(E)
       \/ (Address(E) \/ Shifted(E)) /\ Target(E).section = 0
              /\ (Shifted(E) => E.stack[2].value <= MaxShift)
       \/ ~(Branch(E) \/ Address(E) \/ Shifted(E)
            \/ (Single(E) /\ ~E.relative /\ Target(E).tag = "VAL"))
    /\ ConvertNext(Complaint(TRUE, E) + TooWide(E)) /\ UNCHANGED omf_segments

NextExpressions ==
    /\ step = "convert" /\ at \in DOMAIN sections
    /\ item \notin DOMAIN sections[at].expressions
    /\ at' = at + 1 /\ item' = 1
    /\ UNCHANGED << sections, errors, stack_segment, step, made >>

Built ==
    /\ step = "convert" /\ at \notin DOMAIN sections
    /\ step' = "built"
    /\ UNCHANGED << sections, errors, stack_segment, at, item, made >>

BuildNext ==
    \/ CodeSegment \/ MergeData \/ DataSection \/ SkipSection \/ Udata
    \/ OwnSegment \/ StackSegment \/ Adjust \/ ConversionDies \/ EmptyExpression
    \/ PatchBranch \/ PatchConstant \/ Relocate \/ RelocateOther
    \/ ShiftTooLarge \/ Refuse \/ NextExpressions \/ Built
=============================================================================
