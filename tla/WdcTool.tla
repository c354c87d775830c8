------------------------------ MODULE WdcTool ------------------------------
(***************************************************************************)
(* wdclink from its command line to its output file: main() of link.cpp,   *)
(* which hands the segments of WdcLink to the writer of OmfFile. The       *)
(* writer's names are its own but for those of the tool: its step, segment *)
(* and record are `saving', `seg' and `rec' here, its file is `out'.       *)
(***************************************************************************)
EXTENDS WdcLink
LOCAL INSTANCE Functions    \* Range

CONSTANTS Radix,    \* OmfFile's Byte
          MaxSuper, NameMax, BlockSize, Missing, MaxFaults,
          NameLength,   \* how long the name of a section is
          Places        \* bound: the bytes of a section, and the sections, of a module

ASSUME NameLengthAssumption == NameLength \in [SectionNames \cup {""} -> Nat]
ASSUME PlacesAssumption == Places \in Nat

VARIABLES given, segments, compress, super, expressload, v1, saving, seg, rec,
          offset, position, faults, data, records, ss,
          expr_headers, expr_offsets, out

Write == INSTANCE OmfLoader WITH
             step <- saving, n <- seg, k <- rec, file <- out, SegmentLists <- {}, Byte <- Radix

saveVars == << given, segments, compress, super, expressload, v1, saving, seg, rec,
               offset, position, faults, data, records, ss,
               expr_headers, expr_offsets, out >>
wdcVars == << toolVars, saveVars >>

WdcInit ==
    /\ ToolInit
    /\ given = << >> /\ segments = << >> /\ saving = "idle" /\ Write!InitLocals
    /\ compress = TRUE /\ super = TRUE /\ expressload = TRUE /\ v1 = FALSE

-----------------------------------------------------------------------------
(* A byte that is as it came: the number of the place that it comes from,  *)
(* and no value of a byte.                                                 *)
Came(x) == Radix + x.at + Places * (x.section + Places * x.by)

(* Variant: a byte too many. *)
Patched_OneMore(s) ==
    [b \in DOMAIN s.data |->
        LET over == {j \in DOMAIN s.patches :
                        b - s.patches[j].offset \in 1 .. s.patches[j].size + 1}
            last == s.patches[CHOOSE j \in over : \A x \in over : x <= j]
        IN  IF over = {} THEN Came(s.data[b])
            ELSE (Wrap(last.value) \div Radix ^ (b - 1 - last.offset)) % Radix]

(* A segment's bytes: those that to_omf() stored, and all the others.      *)
Patched(s) ==
    [b \in DOMAIN s.data |->
        LET over == {j \in DOMAIN s.patches :
                        b - s.patches[j].offset \in 1 .. s.patches[j].size}
            last == s.patches[CHOOSE j \in over : \A x \in over : x <= j]
        IN  IF over = {} THEN Came(s.data[b])
            ELSE (Wrap(last.value) \div Radix ^ (b - 1 - last.offset)) % Radix]

Output == [g \in DOMAIN omf_segments |->
              LET s == omf_segments[g]
              IN  [segname |-> NameLength[s.name], segnum |-> s.segnum, data |-> Patched(s),
                   relocs |-> s.relocs, intersegs |-> s.intersegs]]

(* save_omf() is called whatever flags.errors is. It is asked for version  *)
(* 2 and for compression always, and by -C and -X for no SUPER records and *)
(* no ~ExpressLoad.                                                        *)
SaveOmf ==
    /\ step = "built" /\ step' = "returned" /\ saving = "idle"
    /\ given' = Output /\ segments' = Output
    /\ super' \in BOOLEAN /\ expressload' \in BOOLEAN
    /\ saving' = "start"
    /\ UNCHANGED << vars, stack_segment, at, item, omf_segments, remap, data_segment, linked,
                    compress, v1, seg, rec, offset, position, faults, data, records,
                    ss, expr_headers, expr_offsets, out >>

ToolStep == (LinkStep \/ BuildStep) /\ UNCHANGED saveVars
SaveStep == Write!SaveNext /\ UNCHANGED toolVars

(* set_file_type(): its result is not looked at. *)
SetFileType ==
    /\ saving = "closed" /\ saving' = "typed"
    /\ UNCHANGED << toolVars, given, segments, compress, super, expressload, v1, seg, rec,
                    offset, position, faults, data, records, ss,
                    expr_headers, expr_offsets, out >>

Exited == \/ pc \in {"unresolved", "aborted"} \/ step = "aborted"
          \/ saving \in {"typed", "cantcreat"}

WdcNext == ToolStep \/ SaveOmf \/ SaveStep \/ SetFileType

(* One thread: what can go on does. *)
WdcSpec == /\ WdcInit /\ [][WdcNext \/ (Exited /\ UNCHANGED wdcVars)]_wdcVars
           /\ WF_wdcVars(WdcNext)

-----------------------------------------------------------------------------
(* What the loader makes of the file. *)

Saved == saving = "closed"
PieceOf(g) == Write!Piece(g)

(* From the source of a module to the file: wherever the linker put the    *)
(* bytes of an expression and of the labels it names, the file has what    *)
(* makes the loader store the label's final address in those bytes: the    *)
(* address within the segment of the file that holds the label, under the  *)
(* number that this segment has there. A constant is in the bytes.         *)
AddressesLoad ==
    Saved =>
        \A x \in Expressions :
            LET e    == Ex(x)
                want == Folded([j \in DOMAIN e.source |-> Meant(e.by, e.source[j])]).v
                p    == PieceOf(remap[x[1]].segnum)
                to   == want[1]
                shift == IF Len(want) = 1 THEN 0
                         ELSE IF want[3].tag = "SHR" THEN -want[2].value ELSE want[2].value
            IN  /\ e.size > 0 /\ ~e.relative
                /\ \A j \in DOMAIN e.source : Tangible1(e.by, e.source[j])
                /\ Shifting(want) \/ (Len(want) = 1 /\ to.tag \in {"VAL", "LOC"})
                => IF to.tag = "VAL"
                   THEN Write!Read(p.data, e.offset, e.size) = to.value % Radix ^ e.size
                   ELSE Write!Relocation(e.offset, e.size, shift,
                                         PieceOf(to.section).segnum, to.value)
                            \in Range(Write!Loaded(p))

(* A branch within a segment is in the bytes of the file as the distance   *)
(* from the byte after it to the label, or reported when it is too far.    *)
BranchesReach ==
    Saved =>
        \A x \in Expressions :
            LET e    == Ex(x)
                p    == PieceOf(remap[x[1]].segnum)
                to   == Meant(e.by, e.source[1])
                far  == IF e.size = 1 THEN ShortReach ELSE LongReach
                dist == to.value - e.offset - e.size
            IN  /\ e.size > 0 /\ e.relative /\ Len(e.source) = 1
                /\ e.source[1].tag = "SYM" /\ Tangible1(e.by, e.source[1])
                /\ to.tag = "LOC" /\ to.section = SegOf(x).segnum
                => IF dist \in -far - 1 .. far
                   THEN Write!Read(p.data, e.offset, e.size) = dist % Radix ^ e.size
                   ELSE errors > 0

(* The loader changes no byte but those of the expressions, and the file   *)
(* has every other byte of every section where the linker placed it.       *)
BytesSaved ==
    Saved =>
        \A v \in DOMAIN linked :
            LET p     == PieceOf(remap[v].segnum)
                bytes == linked[v].data
                held  == UNION {{e.offset - remap[v].offset + b : b \in 1 .. e.size} :
                                e \in Range(sections[v].expressions)}
            IN  "REF_ONLY" \notin linked[v].flags =>
                    /\ \A b \in DOMAIN bytes \ held :
                           p.data[remap[v].offset + b] = Came(bytes[b])
                    /\ \A r \in Range(Write!Loaded(p)) :
                           \A b \in r.offset + 1 .. r.offset + r.size :
                               b - remap[v].offset \in DOMAIN bytes =>
                                   b - remap[v].offset \in held

(* Whatever the modules are, wdclink ends: with a file, or with a message. *)
ToolEnds == <>Exited
=============================================================================
