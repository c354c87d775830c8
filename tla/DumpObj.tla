------------------------------ MODULE DumpObj ------------------------------
(***************************************************************************)
(* wdcdumpobj on its arguments: main(), dump() and dump_obj() of           *)
(* dumpobj.cpp.                                                            *)
(*                                                                         *)
(* files and modules are what main() and dump() have still to come; phase  *)
(* is the place in the program, rest what is left of the record in hand:   *)
(* the bytes of a data record, or the size of a reserved space.            *)
(* fed, home and entered are kept for the properties: the place (section,  *)
(* address) of each byte in the order of the records, the address that the *)
(* records alone have brought each section to, and the sections they have  *)
(* been in.                                                                *)
(***************************************************************************)
EXTENDS Disassembler, FiniteSets, Functions

CONSTANT CommandLines   \* sequences of files, read into their modules

(* What the records, the section and the symbol tables of a module hold.   *)
(* Opcodes up to $ef are the number of bytes that follow, 0 is the end.    *)
ObjectRecord ==
    [kind: {"DATA"}, bytes: Seq(Op) \ {<< >>}]
    \cup [kind: {"EXPR"}, size: 1 .. 4, ops: Seq({"operand", "unary", "binary"})]
    \cup [kind: {"DEBUG"}, op: STRING] \cup [kind: {"SECT"}, section: 0 .. 255]
    \cup [kind: {"ORG"}, to: Nat] \cup [kind: {"SPACE"}, count: Nat]
    \cup [kind: {"LINE", "END", "UNKNOWN"}]
(* A section has a name or SEC_NONAME, and an origin that its attributes   *)
(* name or not (SEC_OFFSET, SEC_INDIRECT); names tell sections apart. The  *)
(* kind of a symbol is its type: S_UND, that of an equate, or another; it  *)
(* is a variable by SF_VAR. The assembler gives variables and imports      *)
(* section 255 (samples/labels.obj).                                       *)
ObjectSection == [size: Nat, org: Nat, ref_only: BOOLEAN, data: BOOLEAN,
                  named: BOOLEAN, offset: BOOLEAN]
ObjectSymbol  == [kind: {"label", "equ", "undefined"}, variable: BOOLEAN,
                  section: 0 .. 255, offset: Nat, global: BOOLEAN]

(* A module that is not intact is shorter than its header says, or has the *)
(* header of something else; a library may have such a directory.          *)
IsModule(m) ==
    /\ m.intact \in BOOLEAN /\ m.records \in Seq(ObjectRecord)
    /\ DOMAIN m.sections \subseteq 0 .. 255
    /\ \A n \in DOMAIN m.sections : m.sections[n] \in ObjectSection
    /\ IsFiniteSet(m.symbols) /\ m.symbols \subseteq ObjectSymbol

IsFile(f) == /\ f.kind \in {"object", "library", "badLibrary", "foreign", "missing"}
             /\ f.modules \in Seq(Range(f.modules))
             /\ \A m \in DOMAIN f.modules : IsModule(f.modules[m])

ASSUME FilesAssumption ==
    \A c \in CommandLines : c \in Seq(Range(c)) /\ \A f \in DOMAIN c : IsFile(c[f])

VARIABLES files, modules, module, z, next, rest, phase, fed, home, entered

inputs == << files, modules >>
vars == << inputs, module, z, next, rest, phase, fed, home, entered >>

Record == module.records[next]
At(kind) == phase = "records" /\ next \in DOMAIN module.records /\ Record.kind = kind

(* No object of dump_obj() yet, or no longer.                              *)
NoModule == [sections |-> << >>, symbols |-> {}, records |-> << >>, intact |-> FALSE]
Reads(m, object, sections) ==
    /\ module' = m /\ z' = object /\ entered' = sections
    /\ home' = [n \in DOMAIN object.sections |-> object.sections[n].org]
    /\ next' = 1 /\ rest' = 0 /\ fed' = << >>

Init ==
    /\ files \in CommandLines /\ modules = << >>
    /\ module = NoModule /\ z = Constructed(NoModule)
    /\ home = [n \in DOMAIN z.sections |-> 0]
    /\ next = 1 /\ rest = 0 /\ phase = "files" /\ fed = << >> /\ entered = {}

-----------------------------------------------------------------------------
(* The arguments, the modules of a file. *)

Stop(end) == phase' = end /\ UNCHANGED << inputs, module, next, rest, fed, home, entered >>

(* A library's directory is printed, and then its modules are at hand.     *)
OpenFile ==
    /\ phase = "files" /\ files # << >> /\ Head(files).kind \in {"object", "library"}
    /\ modules' = Head(files).modules /\ files' = Tail(files) /\ phase' = "opened"
    /\ UNCHANGED << module, z, next, rest, fed, home, entered >>

(* err, errx: that file and those after it are not listed.                 *)
BadFile ==
    /\ phase = "files" /\ files # << >> /\ Head(files).kind \notin {"object", "library"}
    /\ Stop("failed") /\ UNCHANGED z

BeginModule ==
    /\ phase \in {"opened", "done"} /\ modules # << >> /\ Head(modules).intact
    /\ Reads(Head(modules), FrontMatter(Constructed(Head(modules))), {1})
    /\ modules' = Tail(modules) /\ phase' = "records"
    /\ UNCHANGED files

BadModule ==
    /\ phase \in {"opened", "done"} /\ modules # << >> /\ ~Head(modules).intact
    /\ Stop("failed") /\ UNCHANGED z

FileDone ==
    /\ phase \in {"opened", "done"} /\ modules = << >>
    /\ phase' = "files"
    /\ Reads(NoModule, Constructed(NoModule), {})
    /\ UNCHANGED inputs

Exit == phase = "files" /\ files = << >> /\ Stop("exited") /\ UNCHANGED z

-----------------------------------------------------------------------------
(* The next count bytes of the section are fed: their numbers and places.  *)
Ids(count) == [k \in 1 .. count |-> Len(fed) + k]
Feed(count) ==
    /\ fed' = fed \o [k \in 1 .. count |-> << z.section, home[z.section] + k - 1 >>]
    /\ home' = [home EXCEPT ![z.section] = @ + count]
    /\ UNCHANGED entered

Advance == next' = next + 1 /\ UNCHANGED << inputs, module, phase, rest >>
Unfed == UNCHANGED << fed, home, entered >>

-----------------------------------------------------------------------------
(* The records. *)

(* The bytes one by one, to the end of the record.                         *)
DataByte ==
    /\ At("DATA")
    /\ z' = Byte(z, Record.bytes[rest + 1], Len(fed) + 1)
    /\ Feed(1)
    /\ LET last == rest + 1 = Len(Record.bytes) IN
           /\ rest' = IF last THEN 0 ELSE rest + 1
           /\ next' = IF last THEN next + 1 ELSE next
    /\ UNCHANGED << inputs, module, phase >>

(* The operands of an expression are texts on a stack: how many there are  *)
(* after k items of it, -1 once one was missing.                           *)
WellFormed(ops) ==
    LET depth[k \in 0 .. Len(ops)] ==
            IF k = 0 THEN 0
            ELSE LET d == depth[k - 1]
                     need == CASE ops[k] = "operand" -> 0
                               [] ops[k] = "unary"   -> 1
                               [] ops[k] = "binary"  -> 2
                 IN  IF d < need THEN -1 ELSE d - need + 1
    IN  ops # << >> /\ \A k \in 1 .. Len(ops) : depth[k] >= 1 /\ (k = Len(ops) => depth[k] = 1)

Expression ==
    /\ At("EXPR") /\ WellFormed(Record.ops)
    /\ z' = Expr(z, Ids(Record.size))
    /\ Feed(Record.size)
    /\ Advance

Debug ==
    /\ At("DEBUG") /\ Record.op # "unknown"
    /\ z' = LET y == Flush(z) IN
            CASE Record.op = "D_LONGA_ON"  -> SetFlags(y, y.flags \cup {"m"})
              [] Record.op = "D_LONGA_OFF" -> SetFlags(y, y.flags \ {"m"})
              [] Record.op = "D_LONGI_ON"  -> SetFlags(y, y.flags \cup {"x"})
              [] Record.op = "D_LONGI_OFF" -> SetFlags(y, y.flags \ {"x"})
              [] OTHER -> y
    /\ Advance /\ Unfed

Section ==
    /\ At("SECT")
    /\ z' = SetSection(z, Record.section)
    /\ entered' = entered \cup {z'.section}
    /\ Advance /\ UNCHANGED << fed, home >>

SetOrg ==
    /\ At("ORG")
    /\ z' = SetPc(Emit(Flush(z), [kind |-> "org", to |-> Record.to]), Record.to)
    /\ home' = [home EXCEPT ![z.section] = Record.to]
    /\ Advance /\ UNCHANGED << fed, entered >>

Line ==
    /\ At("LINE")
    /\ z' = Flush(z)
    /\ Advance /\ Unfed

(* space(): flush, then the loop.                                          *)
Space ==
    /\ At("SPACE")
    /\ z' = Flush(z)
    /\ home' = [home EXCEPT ![z.section] = @ + Record.count]
    /\ phase' = "space" /\ rest' = Record.count
    /\ UNCHANGED << inputs, module, next, fed, entered >>
SpaceChunk ==
    /\ phase = "space" /\ rest > 0
    /\ z' = Spaced(z, rest)
    /\ rest' = rest - Chunk(z, rest)
    /\ UNCHANGED << inputs, module, next, phase, fed, home, entered >>
SpaceDone ==
    /\ phase = "space" /\ rest = 0
    /\ phase' = "records" /\ next' = next + 1
    /\ UNCHANGED << inputs, module, z, rest, fed, home, entered >>

-----------------------------------------------------------------------------
(* The end: REC_END or that of the records. What comes after it is an      *)
(* error, found after the listing is complete.                             *)

End ==
    /\ At("END") \/ (phase = "records" /\ next = Len(module.records) + 1)
    /\ z' = BackMatter(z)
    /\ Stop(IF next = Len(module.records) \/ module.records = << >>
            THEN "done" ELSE "endedEarly")

(* errx: an expression that does not come out even, unknown opcodes.       *)
BadExpression ==
    /\ At("EXPR") /\ ~WellFormed(Record.ops)
    /\ Stop("failed") /\ UNCHANGED z
BadDebug ==
    /\ At("DEBUG") /\ Record.op = "unknown"
    /\ z' = Flush(z) /\ Stop("failed")
BadRecord ==
    /\ At("UNKNOWN")
    /\ z' = Flush(z) /\ Stop("failed")

Ended == phase \in {"exited", "endedEarly", "failed"}

Next ==
    \/ OpenFile \/ BadFile \/ BeginModule \/ BadModule \/ FileDone \/ Exit
    \/ DataByte \/ Expression \/ Debug \/ Section \/ SetOrg \/ Line
    \/ Space \/ SpaceChunk \/ SpaceDone
    \/ End \/ BadExpression \/ BadDebug \/ BadRecord
    \/ Ended /\ UNCHANGED vars

Spec == Init /\ [][Next]_vars
=============================================================================
