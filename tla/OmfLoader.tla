----------------------------- MODULE OmfLoader -----------------------------
(***************************************************************************)
(* What a reader finds in the file of OmfFile: the pieces by their byte    *)
(* counts, the relocations by the records and the bytes they leave values  *)
(* in, ~ExpressLoad's directory by its distances. The properties say that  *)
(* it is what the linker put into its segments.                            *)
(***************************************************************************)
EXTENDS OmfFile, Functions

Closed == step = "closed"
First  == IF expressload /\ Closed THEN 1 ELSE 0    \* pieces before the segments
Saved  == {j \in DOMAIN given : j + First \in DOMAIN file}
Piece(j) == file[j + First]

(* The segments that a reader finds in full, and whose place save_omf()    *)
(* knew: no write had failed before them. A write that was short is no     *)
(* failure; what follows has moved up with the offset.                     *)
Whole  == {j \in Saved : Piece(j).whole}
Placed == {j \in Whole : \A i \in Saved : i < j => ~Piece(i).failed}

(* Every byte of a SUPER record is a byte. *)
FileTypeOK ==
    /\ step \in {"start", "segment", "relocs", "intersegs", "write", "closed", "cantcreat"}
    /\ n \in 1 .. Len(segments) + 1 /\ k \in Nat \ {0}
    /\ offset \in Int /\ position \in Nat /\ faults \in 0 .. MaxFaults
    /\ \A j \in SuperKinds :
           /\ Range(ss[j].data) \subseteq 0 .. Byte - 1
           /\ ss[j].page \in Nat /\ ss[j].count \in 0 .. SkipFlag

-----------------------------------------------------------------------------
(* The offsets in the data of a SUPER record. *)
Next(st, b) ==
    IF st.left > 0
    THEN [left |-> st.left - 1, page |-> IF st.left = 1 THEN st.page + 1 ELSE st.page,
          offsets |-> Append(st.offsets, st.page * Byte + b)]
    ELSE IF b >= SkipFlag THEN [st EXCEPT !.page = @ + b - SkipFlag]
    ELSE [st EXCEPT !.left = b + 1]

Unpacked(d) == FoldLeft(Next, [left |-> 0, page |-> 0, offsets |-> << >>], d).offsets

(* The number that count bytes hold; there is nothing after the last byte. *)
Read(bytes, off, count) ==
    Sum([j \in 1 .. count |-> IF off + j \in DOMAIN bytes
                              THEN bytes[off + j] * Byte ^ (j - 1) ELSE 0])

Relocation(off, size, shift, segment, value) ==
    [offset |-> off, size |-> size, shift |-> shift, segment |-> segment, value |-> value]

(* The relocation at off for an entry of a SUPER record. *)
Implied(p, kind, off) ==
    CASE kind = SUPER_RELOC2 -> Relocation(off, 2, 0, p.segnum, Read(p.data, off, 2))
      [] kind = SUPER_RELOC3 -> Relocation(off, 3, 0, p.segnum, Read(p.data, off, 3))
      [] kind = SUPER_INTERSEG(1) ->
             Relocation(off, 3, 0, Read(p.data, off + 2, 1), Read(p.data, off, 2))
      [] kind \in SUPER_INTERSEG(13) .. SUPER_INTERSEG(24) ->
             Relocation(off, 2, 0, kind - SUPER_INTERSEG(12), Read(p.data, off, 2))
      [] OTHER -> Relocation(off, 2, -16, kind - SUPER_INTERSEG(24), Read(p.data, off, 2))

Relocations(p, r) ==
    CASE r.op = "SUPER" -> LET offsets == Unpacked(r.data)
                           IN  [j \in DOMAIN offsets |-> Implied(p, r.kind, offsets[j])]
      [] r.op \in {"RELOC", "cRELOC"} ->
             << Relocation(r.offset, r.size, r.shift, p.segnum, r.value) >>
      [] OTHER -> << Relocation(r.offset, r.size, r.shift, r.segment, r.segment_offset) >>

Loaded(p) == FlattenSeq([j \in DOMAIN p.records |-> Relocations(p, p.records[j])])

(* What the linker asked for: its segment g is the g-th piece. *)
Asked(j) ==
    LET s == given[j]
    IN  [i \in DOMAIN s.relocs |->
            LET r == s.relocs[i]
            IN  Relocation(r.offset, r.size, r.shift, Piece(j).segnum, r.value)]
        \o [i \in DOMAIN s.intersegs |->
            LET r == s.intersegs[i]
            IN  Relocation(r.offset, r.size, r.shift, Piece(r.segment).segnum,
                           r.segment_offset)]

(* Whatever the forms of the records, the loader finds in the file each    *)
(* relocation of the link once and no other: where it is, how wide, how    *)
(* shifted, in which segment and of which offset.                          *)
RelocationsSurvive ==
    Closed => \A j \in Whole : /\ Range(Loaded(Piece(j))) = Range(Asked(j))
                               /\ Len(Loaded(Piece(j))) = Len(Asked(j))

(* Packing a value into the bytes of a segment changes no other byte.      *)
OtherBytesStay ==
    \A j \in Saved :
        LET held == UNION {{r.offset + b : b \in 1 .. r.size} :
                           r \in Range(given[j].relocs) \cup Range(given[j].intersegs)}
        IN  \A b \in DOMAIN given[j].data \ held : Piece(j).data[b] = given[j].data[b]

-----------------------------------------------------------------------------
(* By the header alone a reader gets from a piece that is whole to the     *)
(* next, whatever went wrong elsewhere; but for a version 1 segment that   *)
(* ends with a block, which a block of zeros that its header does not      *)
(* count follows, and for the room that a name too long leaves after       *)
(* ~ExpressLoad. A version 1 segment starts a block again as soon as the   *)
(* padding before it is whole, although segments before were cut short.    *)
After(p) == p.at + (IF v1 THEN p.bytecount * BlockSize ELSE p.bytecount)

NamesFit == \A j \in DOMAIN given : given[j].segname <= NameMax

InBlocks(j) == /\ j > 1 => Piece(j - 1).padded
               /\ \A i \in 1 .. j - 1 : ~Piece(i).failed

PiecesAdjoin ==
    Closed =>
        /\ file # << >> => file[1].at = 0
        /\ \A j \in DOMAIN file : j > 1 /\ file[j - 1].whole =>
               \/ file[j].at = After(file[j - 1])
               \/ v1 /\ ~InBlocks(j - 1)
               \/ v1 /\ ~InBlocks(j)
               \/ v1 /\ (file[j - 1].at + file[j - 1].size) % BlockSize = 0
               \/ First = 1 /\ j = 2 /\ ~NamesFit /\ file[1].size < file[2].at
        /\ v1 => \A j \in DOMAIN file : InBlocks(j) => file[j].at % BlockSize = 0

(* The size and the directory of ~ExpressLoad are known before and after   *)
(* the segments are written: its entries lead to the headers, as far as 16 *)
(* bits reach, and these to the bytes and the records of the segments,     *)
(* also of those after a segment that was cut short.                       *)
ExpressLeads ==
    Closed /\ expressload /\ file[1].whole => \A j \in Placed :
        LET h    == file[1].headers[j]
            p    == Piece(j)
            text == p.at + p.dispdata + 5
            headers == SubSeq(file[1].headers, 1, j - 1)
            ahead == 10 * Len(given) + Sum([i \in DOMAIN headers |-> headers[i].size])
                     - 8 * (j - 1)
        IN  /\ ahead < Byte * Byte => file[1].list[j] = ahead
            /\ file[1].map[j] = p.segnum /\ h.segnum = p.segnum
            /\ h.lconst_size = Len(p.data)
            /\ p.data # << >> => h.lconst_offset = text
            /\ p.records # << >> => h.reloc_offset = text + Len(p.data)
            /\ text + Len(p.data) + h.reloc_size + 1 = p.at + p.size

=============================================================================
