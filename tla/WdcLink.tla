------------------------------- MODULE WdcLink -------------------------------
(***************************************************************************)
(* wdclink from its command line to the OMF segments that it saves: the    *)
(* linking phases of Linker, then the segments of OmfBuild, which go on    *)
(* from the sections of the finished link.                                 *)
(***************************************************************************)
EXTENDS LinkerProperties

CONSTANTS MergeLimit, ShortReach, LongReach, MaxShift, PageSize

ASSUME BuildAssumption == /\ MergeLimit \in Nat /\ MaxShift \in Nat
                          /\ ShortReach \in Nat /\ LongReach \in Nat
                          /\ PageSize \in Nat \ {0}

VARIABLES stack_segment, step, at, item, omf_segments, remap, data_segment,
          linked    \* the sections of the finished link (for the properties)

Build == INSTANCE OmfBuild

buildOwn == << stack_segment, step, at, item, omf_segments, remap, data_segment >>
toolVars == << vars, buildOwn, linked >>

ToolInit == Init /\ Build!InitBuild /\ linked = << >>

LinkStep ==
    /\ pc \notin Final /\ Next
    /\ linked' = IF pc' = "linked" THEN sections' ELSE linked
    /\ UNCHANGED buildOwn

BuildStep ==
    /\ pc = "linked" /\ Build!BuildNext
    /\ UNCHANGED << cmd, pc, file, modno, l, L, modules, local_undefined, module, i,
                    remap_section, local_symbols, current, section_map, symbols,
                    symbol_map, undefined_symbols, loaded, linked >>

ToolEnded == /\ pc \in {"unresolved", "aborted"} \/ step \in {"built", "aborted"}
             /\ UNCHANGED toolVars

ToolNext == LinkStep \/ BuildStep \/ ToolEnded

(* One thread. *)
ToolSpec == ToolInit /\ [][ToolNext]_toolVars /\ WF_toolVars(ToolNext)

-----------------------------------------------------------------------------
(* Every section with bytes is somewhere in the segments as a whole, and   *)
(* udata has room of its own there: no section was written over another or *)
(* placed where remap does not say.                                        *)
BytesPlaced ==
    step = "built" =>
        \A v \in DOMAIN linked :
            LET data  == omf_segments[remap[v].segnum].data
                bytes == IF v = Build!UDATA THEN Build!Zeros(linked[v].size)
                                            ELSE linked[v].data
            IN  v = Build!UDATA \/ "REF_ONLY" \notin linked[v].flags =>
                    SubSeq(data, remap[v].offset + 1, remap[v].offset + Len(bytes)) = bytes

(* When the data is merged into the first code segment they fit in a bank, *)
(* although that was decided by the sizes that the modules declare.        *)
MergedFits ==
    step = "built" /\ data_segment = 1 => Len(omf_segments[1].data) <= MergeLimit

-----------------------------------------------------------------------------
(* What the loader gets. *)

Expressions == UNION {{<< v, j >> : j \in DOMAIN sections[v].expressions} :
                      v \in DOMAIN sections}
Ex(x)    == sections[x[1]].expressions[x[2]]
SegOf(x) == omf_segments[remap[x[1]].segnum]

(* The places in the segments of offset `off' of a local section of module *)
(* b, and the operand t of module b in terms of segments.                  *)
Spots(b, section, off) ==
    {p \in UNION {{g} \X DOMAIN omf_segments[g].data : g \in DOMAIN omf_segments} :
        omf_segments[p[1]].data[p[2]] = [by |-> b, section |-> section, at |-> off]}

Spot(b, section, off) ==
    LET p == CHOOSE p \in Spots(b, section, off) : TRUE IN Loc(p[1], p[2] - 1)

Tangible1(b, t) ==
    /\ t.tag # "LOC"
    /\ t.tag = "SYM" =>
           LET s == loaded[b].syms[t.section]
           IN  /\ s.type = "UND" => Definers(s.name) # {}
               /\ LET d == Definition(b, s)
                  IN  d[2].type = "REL" => Spots(d[1], d[2].section, d[2].offset) # {}

Meant(b, t) ==
    IF t.tag # "SYM" THEN t ELSE
    LET d == Definition(b, loaded[b].syms[t.section])
    IN  IF d[2].type = "ABS" THEN Val(d[2].offset)
        ELSE Spot(d[1], d[2].section, d[2].offset)

Shifting(want) == /\ Len(want) = 3 /\ want[1].tag = "LOC"
                  /\ want[2].tag = "VAL" /\ want[2].value <= MaxShift
                  /\ want[3].tag \in {"SHL", "SHR"}

Extents(records) == [k \in DOMAIN records |-> [offset |-> records[k].offset,
                                               size |-> records[k].size]]

(* What the loader and the linker store never overlaps and is in the       *)
(* segment, and each kind of record is in the order of its offsets: the    *)
(* compressed records that save_omf() makes of them rely on both.          *)
RecordsApart ==
    step = "built" =>
        \A g \in DOMAIN omf_segments :
            LET seg == omf_segments[g]
                all == Extents(seg.patches) \o Extents(seg.relocs) \o Extents(seg.intersegs)
                InOrder(r) == \A k \in DOMAIN r : k > 1 =>
                                  r[k - 1].offset + r[k - 1].size <= r[k].offset
            IN  /\ \A k \in DOMAIN all : all[k].offset + all[k].size <= Len(seg.data)
                /\ \A j, k \in DOMAIN all : j < k =>
                       \/ all[j].offset + all[j].size <= all[k].offset
                       \/ all[k].offset + all[k].size <= all[j].offset
                /\ InOrder(seg.relocs) /\ InOrder(seg.intersegs)

(* A branch to another segment cannot be stored as a distance: the linker  *)
(* reports what a relative branch does not reach.                          *)
BranchesStay ==
    step = "built" /\ errors = 0 =>
        \A x \in Expressions :
            LET e == Ex(x)
            IN  e.relative /\ Len(e.stack) = 1 /\ e.stack[1].tag = "LOC" =>
                    e.stack[1].section = SegOf(x).segnum

(* No expression is lost without a complaint that counts, but for a shift  *)
(* that is too large.                                                      *)
NothingLost ==
    step = "built" /\ errors = 0 =>
        \A x \in Expressions :
            LET e == Ex(x)
            IN  \/ e.size = 0
                \/ Len(e.stack) = 3 /\ e.stack[2].value > MaxShift
                \/ \E kind \in {"patches", "relocs", "intersegs"} :
                       \E k \in DOMAIN SegOf(x)[kind] :
                           LET r == SegOf(x)[kind][k]
                           IN  r.offset = e.offset /\ r.size = e.size

(* As the usage has it, -S adds a stack segment: one, with the bytes.      *)
OneStackSegment ==
    step = "built" /\ stack_segment /\ linked[Build!PAGE0].size > 0 =>
        /\ Cardinality({g \in DOMAIN omf_segments : omf_segments[g].kind = "stack"}) = 1
        /\ Len(omf_segments[remap[Build!PAGE0].segnum].data) >= linked[Build!PAGE0].size
=============================================================================
