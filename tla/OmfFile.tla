------------------------------ MODULE OmfFile ------------------------------
(***************************************************************************)
(* save_omf() of omf.cpp: the file that the segments of a link are written *)
(* to. A relocation record takes one of three forms: as it is, with short  *)
(* fields, or as an entry in a SUPER record, which has only the offset (by *)
(* page) and leaves the value in the bytes that the loader will change.    *)
(*                                                                         *)
(* A piece of the file is a record: where it is, how many bytes it takes,  *)
(* the fields of its header that readers navigate by, and what it holds.   *)
(***************************************************************************)
EXTENDS Integers, Sequences, SequencesExt, FiniteSets

CONSTANTS
    Byte,           \* 256: the values of a byte; the bytes of a page
    MaxSuper,       \* 12: the last segment with a SUPER record of its own
    NameMax,        \* 255: the longest name that is written
    BlockSize,      \* 512: the unit of a version 1 file
    SegmentLists,   \* the segments to write
    Missing,        \* by how many bytes a write may be short
    MaxFaults       \* bound: the writes that are short or fail

ASSUME FileAssumption ==
    /\ Byte \in {2 * n : n \in 2 .. 128} /\ MaxSuper \in 0 .. 12
    /\ NameMax \in Nat /\ BlockSize \in Nat \ {0}
    /\ Missing \subseteq Nat \ {0} /\ MaxFaults \in Nat

(* A segment of a link: its name, by its length, its bytes and its         *)
(* records, those of a kind in the order of their offsets. A record for an *)
(* address in the segment itself is no interseg.                           *)
Reloc    == [offset: Nat, size: Nat, shift: Int, value: Nat]
InterSeg == [offset: Nat, size: Nat, shift: Int,
             segment: Nat \ {0}, segment_offset: Nat]
InOrder(r) == \A i, j \in DOMAIN r : i < j => r[i].offset + r[i].size <= r[j].offset
LinkSegment ==
    [segname: Nat, segnum: Nat, data: Seq(Nat), relocs: Seq(Reloc), intersegs: Seq(InterSeg)]
IsLink(S) ==
    /\ S \in Seq(LinkSegment)
    /\ \A j \in DOMAIN S :
           /\ S[j].segnum = j /\ InOrder(S[j].relocs) /\ InOrder(S[j].intersegs)
           /\ \A i \in DOMAIN S[j].intersegs : S[j].intersegs[i].segment # j

ASSUME SegmentsAssumption == \A S \in SegmentLists : IsLink(S)

VARIABLES
    given,                              \* the segments of the link
    segments,                           \* and as they are written
    compress, super, expressload, v1,   \* how
    step, n, k,         \* the loop that runs, its segment and its record
    offset,             \* where the next piece goes, as save_omf() has it
    position, faults,   \* where it goes, and the writes that went wrong
    data, records, ss,  \* the segment's bytes, its records, its super_helpers
    expr_headers, expr_offsets,         \* what ~ExpressLoad says
    file

flags == << compress, super, expressload, v1 >>
segmentVars == << data, records, ss >>
expressVars == << expr_headers, expr_offsets >>
placeVars == << offset, position, faults >>
fileVars == << given, segments, flags, step, n, k, placeVars, segmentVars, expressVars, file >>

-----------------------------------------------------------------------------
(* super_helper: bytes that are offsets in a page, after their number less *)
(* one; a byte from SkipFlag on skips pages.                               *)

SkipFlag == Byte \div 2
Helper == [data |-> << >>, page |-> 0, count |-> 0]

(* Variant: one byte for any distance. *)
Skips_Once(skip) == IF skip > 0 THEN << SkipFlag + skip >> ELSE << >>

Skips(skip) ==
    LET full == IF skip < SkipFlag THEN 0 ELSE (skip - SkipFlag) \div (SkipFlag - 1) + 1
        rest == skip - full * (SkipFlag - 1)
    IN  [j \in 1 .. full |-> Byte - 1]
            \o (IF rest > 0 THEN << SkipFlag + rest >> ELSE << >>)

(* Variant: the pages are counted from the page in hand. *)
Turned_NoStep(h, page) ==
    IF page = h.page THEN h
    ELSE [data |-> h.data \o Skips(page - h.page), page |-> page, count |-> 0]

(* A new page: the page after the one in hand needs no skip. *)
Turned(h, page) ==
    IF page = h.page THEN h
    ELSE [data  |-> h.data \o Skips(page - h.page - (IF h.count > 0 THEN 1 ELSE 0)),
          page  |-> page,
          count |-> 0]

(* The offset of pc in its page follows the others; their number is the    *)
(* byte before the first of them. (assert(page >= _page): the records come *)
(* in the order of their offsets.)                                         *)
Appended(h, pc) ==
    LET t == Turned(h, pc \div Byte)
        counted == IF t.count = 0 THEN Append(t.data, 0)
                   ELSE [t.data EXCEPT ![Len(t.data) - t.count] = t.count]
    IN  [data |-> Append(counted, pc % Byte), page |-> t.page, count |-> t.count + 1]

-----------------------------------------------------------------------------
(* The forms of a record. *)

SUPER_RELOC2 == 0
SUPER_RELOC3 == 1
SUPER_INTERSEG(j) == j + 1
SuperKinds == 0 .. 37
NoKind == -1

Short(x) == x < Byte * Byte     \* it fits in 16 bits

RelocKind(segnum, r) ==
    CASE r.shift = 0 /\ r.size = 2 -> SUPER_RELOC2
      [] r.shift = 0 /\ r.size = 3 -> SUPER_RELOC3
      [] r.shift = -16 /\ r.size = 2 /\ segnum <= MaxSuper -> SUPER_INTERSEG(24 + segnum)
      [] OTHER -> NoKind

InterSegKind(r) ==
    CASE r.shift = 0 /\ r.size = 3 -> SUPER_INTERSEG(1)
      [] r.shift = 0 /\ r.size = 2 /\ r.segment <= MaxSuper -> SUPER_INTERSEG(12 + r.segment)
      [] r.shift = -16 /\ r.size = 2 /\ r.segment <= MaxSuper -> SUPER_INTERSEG(24 + r.segment)
      [] OTHER -> NoKind

(* Variant: a byte too many. *)
Stored_OneMore(bytes, off, value, count) ==
    [j \in DOMAIN bytes |->
        IF j - 1 - off \in 0 .. count
        THEN (value \div Byte ^ (j - 1 - off)) % Byte ELSE bytes[j]]

(* The low `count' bytes of value, in the bytes of the segment from off. *)
Stored(bytes, off, value, count) ==
    [j \in DOMAIN bytes |->
        IF j - 1 - off \in 0 .. count - 1
        THEN (value \div Byte ^ (j - 1 - off)) % Byte ELSE bytes[j]]

OpSize == [cRELOC |-> 7, RELOC |-> 11, cINTERSEG |-> 8, INTERSEG |-> 15]
SizeOfRecord(r) == IF r.op = "SUPER" THEN Len(r.data) + 6 ELSE OpSize[r.op]

Sum(S) == LET total[j \in 0 .. Len(S)] == IF j = 0 THEN 0 ELSE total[j - 1] + S[j]
          IN  total[Len(S)]
SizeOfRecords(rs) == Sum([j \in DOMAIN rs |-> SizeOfRecord(rs[j])])

-----------------------------------------------------------------------------
(* Sizes of the file's parts. *)

HeaderSize  == 44
ExpressName == 12                   \* "~ExpressLoad"
Load == 10                          \* the load name
EntryFixed == 48 + Load + 1         \* of an express header

Least(a, b) == IF a < b THEN a ELSE b
Written(length) == 1 + Least(length, NameMax)       \* of a name
Displacement(length) == HeaderSize + Load + Written(length)

(* Variant: the list of the segments' numbers is forgotten. *)
ExpressSize_NoList(segs) ==
    HeaderSize + Load + ExpressName + 1 + 6 + 6
    + Sum([j \in DOMAIN segs |-> 8 + EntryFixed + segs[j].segname])

(* The room that is left for ~ExpressLoad, by whole names. *)
ExpressSize(segs) ==
    HeaderSize + Load + ExpressName + 1 + 6 + 6
    + Sum([j \in DOMAIN segs |-> 8 + 2 + EntryFixed + segs[j].segname])

-----------------------------------------------------------------------------
(* The local variables of a call of save_omf(). *)
InitLocals ==
    /\ n = 1 /\ k = 1 /\ offset = 0 /\ position = 0 /\ faults = 0
    /\ data = << >> /\ records = << >> /\ ss = [j \in SuperKinds |-> Helper]
    /\ expr_headers = << >> /\ expr_offsets = << >> /\ file = << >>

InitFile ==
    /\ given \in SegmentLists /\ segments = given
    /\ compress \in BOOLEAN /\ v1 \in BOOLEAN
    /\ super \in BOOLEAN /\ expressload \in BOOLEAN
    /\ v1 => ~super /\ ~expressload
    /\ step = "start" /\ InitLocals

(* Variant: the records keep the numbers. *)
Renumbered_Alone(s) == [s EXCEPT !.segnum = @ + 1]

(* ~ExpressLoad is segment 1, so the others are numbered from 2. *)
Renumbered(s) == [s EXCEPT !.segnum = @ + 1,
                           !.intersegs = [j \in DOMAIN s.intersegs |->
                               [s.intersegs[j] EXCEPT !.segment = @ + 1]]]

LeaveRoom ==
    /\ step = "start"
    /\ \/ /\ expressload
          /\ segments' = [j \in DOMAIN segments |-> Renumbered(segments[j])]
          /\ offset' = ExpressSize(segments) /\ position' = offset'
       \/ ~expressload /\ UNCHANGED << segments, offset, position >>
    /\ step' = "segment"
    /\ UNCHANGED << given, flags, n, k, faults, segmentVars, expressVars, file >>

(* open() fails: err() ends the process. *)
OpenFails ==
    /\ step = "start" /\ faults < MaxFaults
    /\ step' = "cantcreat"
    /\ UNCHANGED << given, segments, flags, n, k, placeVars, segmentVars, expressVars, file >>

Segment == segments[n]

BeginSegment ==
    /\ step = "segment" /\ n \in DOMAIN segments
    /\ data' = Segment.data /\ records' = << >>
    /\ ss' = [j \in SuperKinds |-> Helper]
    /\ step' = "relocs" /\ k' = 1
    /\ UNCHANGED << given, segments, flags, n, placeVars, expressVars, file >>

NextRecord == /\ k' = k + 1
              /\ UNCHANGED << given, segments, flags, step, n, placeVars, expressVars, file >>

(* The record goes in the SUPER record of its kind and its value in data. *)
Pack(kind, r, value) ==
    /\ ss' = [ss EXCEPT ![kind] = Appended(@, r.offset)]
    /\ data' = Stored(data, r.offset, value, r.size)
    /\ NextRecord /\ UNCHANGED records

Push(r) == /\ records' = Append(records, r)
           /\ NextRecord /\ UNCHANGED << data, ss >>

AtReloc == step = "relocs" /\ k \in DOMAIN Segment.relocs
R == Segment.relocs[k]
RShort == compress /\ Short(R.offset) /\ Short(R.value)
RKind == IF RShort /\ super THEN RelocKind(Segment.segnum, R) ELSE NoKind

PackReloc == AtReloc /\ RKind # NoKind /\ Pack(RKind, R, R.value)

PushReloc ==
    /\ AtReloc /\ RKind = NoKind
    /\ Push([op |-> IF RShort THEN "cRELOC" ELSE "RELOC", size |-> R.size,
             shift |-> R.shift, offset |-> R.offset, value |-> R.value])

RelocsDone ==
    /\ step = "relocs" /\ k \notin DOMAIN Segment.relocs
    /\ step' = "intersegs" /\ k' = 1
    /\ UNCHANGED << given, segments, flags, n, placeVars, segmentVars, expressVars, file >>

AtInterSeg == step = "intersegs" /\ k \in DOMAIN Segment.intersegs
I == Segment.intersegs[k]
IShort == /\ compress /\ I.segment < Byte
          /\ Short(I.offset) /\ Short(I.segment_offset)
IKind == IF IShort /\ super THEN InterSegKind(I) ELSE NoKind

(* Only SUPER_INTERSEG1 has room for the segment in the data. *)
PackInterSeg ==
    /\ AtInterSeg /\ IKind # NoKind
    /\ Pack(IKind, I, IF I.size = 3 THEN I.segment_offset + I.segment * Byte * Byte
                      ELSE I.segment_offset)

PushInterSeg ==
    /\ AtInterSeg /\ IKind = NoKind
    /\ Push([op |-> IF IShort THEN "cINTERSEG" ELSE "INTERSEG", size |-> I.size,
             shift |-> I.shift, offset |-> I.offset,
             segment |-> I.segment, segment_offset |-> I.segment_offset])

(* The SUPER records follow the others, by their kinds. *)
Supers ==
    LET upto[j \in 0 .. 38] ==
            IF j = 0 THEN << >>
            ELSE IF ss[j - 1].data = << >> THEN upto[j - 1]
            ELSE Append(upto[j - 1], [op |-> "SUPER", kind |-> j - 1, data |-> ss[j - 1].data])
    IN  upto[38]

AppendSupers ==
    /\ step = "intersegs" /\ k \notin DOMAIN Segment.intersegs
    /\ records' = records \o Supers /\ step' = "write"
    /\ UNCHANGED << given, segments, flags, n, k, placeVars, data, ss, expressVars, file >>

Bytes == 5 + Len(data)      \* LCONST

ExpressHeader ==
    [lconst_offset |-> IF Len(data) = 0 THEN 0
                       ELSE offset + Displacement(Segment.segname) + 5,
     lconst_size   |-> Len(data),
     reloc_offset  |-> IF records = << >> THEN 0
                       ELSE offset + Displacement(Segment.segname) + Bytes,
     reloc_size    |-> SizeOfRecords(records),
     segnum        |-> Segment.segnum,
     size          |-> EntryFixed - 1 + Written(Segment.segname)]

SizeOfHeaders == Sum([j \in DOMAIN expr_headers |-> expr_headers[j].size])

Blocks(bytes) == (bytes + BlockSize - 1) \div BlockSize

(* All but the last segment of a version 1 file are padded: by a block     *)
(* when the segment ends at the end of a block.                            *)
Padding(end) == IF v1 /\ n < Len(segments) THEN BlockSize - (end % BlockSize) ELSE 0

(* Variant: what it should have written. *)
Moved_Asked(result, length) == length

(* What a write() adds to the offset: its result, whatever that is. *)
Moved(result, length) == result

(* The results of write() for so many bytes: all, fewer, or the error -1.  *)
Results(length) == {length} \cup
    IF length = 0 THEN {} ELSE {-1} \cup {length - m : m \in {x \in Missing : x < length}}

Stays(result) == IF result = -1 THEN 0 ELSE result      \* bytes in the file
Wrong(results, lengths) == Cardinality({x \in DOMAIN results : results[x] # lengths[x]})

(* What the three writes of a segment leave in the file from `position'.   *)
EndSegment ==
    /\ step = "write"
    /\ LET disp == Displacement(Segment.segname)
           rest == disp - HeaderSize + Bytes + SizeOfRecords(records) + 1
       IN  \E header \in Results(HeaderSize), body \in Results(rest) :
           LET end == offset + Moved(header, HeaderSize) + Moved(body, rest)
               pad == Padding(end)
           IN  \E zeros \in Results(pad) :
               /\ faults' = faults + Wrong(<< header, body, zeros >>,
                                           << HeaderSize, rest, pad >>)
               /\ faults' <= MaxFaults
               /\ offset' = end + Moved(zeros, pad)
               /\ position' = position + Stays(header) + Stays(body) + Stays(zeros)
               /\ file' = Append(file,
                      [at |-> position, size |-> HeaderSize + rest,
                       segnum |-> Segment.segnum,
                       bytecount |-> IF v1 THEN Blocks(HeaderSize + rest)
                                     ELSE HeaderSize + rest,
                       dispdata |-> disp, data |-> data, records |-> records,
                       whole |-> header = HeaderSize /\ body = rest,
                       padded |-> zeros = pad,
                       failed |-> -1 \in {header, body, zeros}])
           /\ IF expressload
              THEN /\ expr_offsets' = Append(expr_offsets, SizeOfHeaders)
                   /\ expr_headers' = Append(expr_headers, ExpressHeader)
              ELSE UNCHANGED expressVars
    /\ step' = "segment" /\ n' = n + 1
    /\ UNCHANGED << given, segments, flags, k, segmentVars >>

(* An entry of the list of segments is the distance from it to its header, *)
(* in 16 bits.                                                             *)
Fudge(j) == 10 * Len(segments) - 8 * (j - 1)
Distance(j) == Fudge(j) + expr_offsets[j]

(* Written at the start of the file when all else is; the results of the   *)
(* two writes are not looked at.                                           *)
SaveExpress ==
    /\ step = "segment" /\ n \notin DOMAIN segments /\ expressload
    /\ LET disp   == HeaderSize + Load + 1 + ExpressName
           length == 6 + SizeOfHeaders + 10 * Len(segments)
           size   == disp + 5 + length + 1
       IN  \E header \in Results(HeaderSize), body \in Results(size - HeaderSize) :
           LET wrong == Wrong(<< header, body >>, << HeaderSize, size - HeaderSize >>)
           IN  /\ faults' = faults + wrong /\ faults' <= MaxFaults
               /\ file' = << [at |-> 0, size |-> size, segnum |-> 1,
                       bytecount |-> size, dispdata |-> disp, whole |-> wrong = 0,
                       list |-> [j \in DOMAIN segments |-> Distance(j) % (Byte * Byte)],
                       map |-> [j \in DOMAIN segments |-> segments[j].segnum],
                       headers |-> expr_headers] >> \o file
               /\ position' = Stays(header) + Stays(body)
    /\ step' = "closed"
    /\ UNCHANGED << given, segments, flags, n, k, offset, segmentVars, expressVars >>

Close ==
    /\ step = "segment" /\ n \notin DOMAIN segments /\ ~expressload
    /\ step' = "closed"
    /\ UNCHANGED << given, segments, flags, n, k, placeVars, segmentVars, expressVars, file >>

SaveNext ==
    \/ LeaveRoom \/ OpenFails \/ BeginSegment \/ PackReloc \/ PushReloc \/ RelocsDone
    \/ PackInterSeg \/ PushInterSeg \/ AppendSupers \/ EndSegment \/ SaveExpress \/ Close

FileClosed == step \in {"closed", "cantcreat"} /\ UNCHANGED fileVars

FileSpec == InitFile /\ [][SaveNext \/ FileClosed]_fileVars /\ WF_fileVars(SaveNext)
=============================================================================
