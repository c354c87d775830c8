----------------------------- MODULE MCOmfFile -----------------------------
(* Small links to save. *)
EXTENDS OmfLoader

Rel(off, size, shift, value) ==
    [offset |-> off, size |-> size, shift |-> shift, value |-> value]
Inter(off, size, shift, segment, value) ==
    [offset |-> off, size |-> size, shift |-> shift,
     segment |-> segment, segment_offset |-> value]

(* A segment of size bytes; the bytes of its records are zero. *)
Seg(name, size, relocs, intersegs) ==
    [segname |-> name, relocs |-> relocs, intersegs |-> intersegs,
     data |-> LET held == UNION {{r.offset + b : b \in 1 .. r.size} :
                                 r \in Range(relocs) \cup Range(intersegs)}
              IN  [b \in 1 .. size |-> IF b \in held THEN 0 ELSE (b % (Byte - 1)) + 1]]

(* A link: its segments are numbered in order. *)
Link(segs) == [j \in DOMAIN segs |->
                  [segname |-> segs[j].segname, segnum |-> j, data |-> segs[j].data,
                   relocs |-> segs[j].relocs, intersegs |-> segs[j].intersegs]]

(* Records on a full page, across pages, on the next page and far from it. *)
Pages == Seg(0, 40, << Rel(0, 2, 0, 3), Rel(2, 2, 0, 250), Rel(4, 2, 0, 17), Rel(6, 2, 0, 0),
                       Rel(8, 2, 0, 9), Rel(10, 2, 0, 5), Rel(12, 2, 0, 6), Rel(14, 2, 0, 7),
                       Rel(31, 2, 0, 36), Rel(33, 2, 0, 37) >>, << >>)
Skip(off) == Seg(1, off + 4, << Rel(1, 3, 0, 100), Rel(off, 3, 0, 101) >>, << >>)

(* Every width and shift, near and far, of values that are short or not.   *)
Forms(g) == Seg(2, 40,
    << Rel(0, 1, 0, 5), Rel(1, 2, -16, 20), Rel(3, 4, 0, 21), Rel(7, 2, -8, 300),
       Rel(9, 2, 0, 300), Rel(11, 2, 0, 20) >>,
    << Inter(14, 3, 0, g, 30), Inter(17, 2, 0, g, 31), Inter(19, 2, -16, g, 32),
       Inter(21, 1, -16, g, 33), Inter(22, 3, 0, g, 400), Inter(36, 2, 0, g, 34) >>)
Far == Seg(0, 262, << Rel(254, 2, 0, 4), Rel(256, 2, 0, 4), Rel(258, 3, 0, 5) >>, << >>)
Bare(name, size) == Seg(name, size, << >>, << >>)

MCSegmentLists == {Link(s) : s \in
    {<< Pages >>, << Bare(0, 0), Pages >>, << Bare(1, 2), Bare(1, 3) >>, << Far, Forms(1) >>,
     << Forms(2), Forms(1) >>, << Forms(3), Bare(2, 7), Forms(2) >>,
     << Pages, Forms(4), Bare(1, 0), Forms(2), Forms(1) >>}
    \cup {<< Bare(0, 1), Forms(1), Bare(3, 0), Bare(1, 2), Forms(6), Bare(2, 4) >>,
          << Bare(NameMax + 1, 2), Forms(1) >>}
    \cup {<< Forms(2), Skip(off) >> : off \in {14, 16, 31, 32, 127, 128, 129, 143, 144, 240}}}
=============================================================================
