------------------------------ MODULE Listing ------------------------------
(***************************************************************************)
(* What must be true of a listing: an assembler that reads it puts every   *)
(* byte and every label back where the object module has it.               *)
(***************************************************************************)
EXTENDS DumpObj

Item(k) == z.listing[k]

(* The assembler's reading of the first k items: its section, the address  *)
(* it has got to in each, and the bytes it has put there. A section is at  *)
(* 0 until the listing says otherwise, and a heading that is empty leaves  *)
(* the assembler nowhere. It does not look at the comments.                *)
Nowhere == -1
Blank(y) ==
    [section |-> Nowhere, at |-> [n \in DOMAIN y.sections \cup {Nowhere} |-> 0], bytes |-> << >>]
Assembles(p, i) ==
    CASE i.kind = "section" ->
             IF i.line = "blank" THEN [p EXCEPT !.section = Nowhere]
             ELSE [p EXCEPT !.section = i.number,
                            !.at[i.number] = IF i.origin = 0 THEN @ ELSE i.origin]
      [] i.kind = "org"     -> [p EXCEPT !.at[p.section] = i.to]
      [] i.kind = "ds"      -> [p EXCEPT !.at[p.section] = @ + i.size]
      [] i.kind \in Lines   -> [p EXCEPT !.at[p.section] = @ + Len(i.bytes),
                                         !.bytes = @ \o i.bytes]
      [] OTHER              -> p
Reading(y) ==
    LET read[k \in 0 .. Len(y.listing)] ==
            IF k = 0 THEN Blank(y) ELSE Assembles(read[k - 1], y.listing[k])
    IN  read
Assembled == Reading(z)
Here(a) == a.at[a.section]

(* A listing can be read if each heading says which section it is of. An   *)
(* empty line does not, and what follows it would be put where ENDS has    *)
(* left the assembler: so nothing is said of a listing that has one.       *)
Legible == \A k \in DOMAIN z.listing : Item(k).kind = "section" => Item(k).line # "blank"

(* A section whose origin is in the listing, or is 0. The predefined ones, *)
(* and those without the attributes, have theirs in the comments only. The *)
(* front gives that of a section that only names places, if there are any. *)
OriginShown(n) ==
    LET e == z.sections[n] IN e.org = 0 \/ e.ref_only \/ (e.offset /\ n > 4)

(* The object keeps its type: no more bytes in hand than _bytes holds,     *)
(* never more than the instruction's, and a next label only if there is    *)
(* one (disassembler.h, _bytes[4]).                                        *)
ListingTypeOK ==
    /\ next \in 1 .. Len(module.records) + 1
    /\ rest \in Nat
    /\ phase \in {"files", "opened", "records", "space", "done", "endedEarly", "failed", "exited"}
    /\ z.bytes \in Seq(1 .. Len(fed)) /\ Len(z.bytes) <= 3
    /\ z.size \in 0 .. 3
    /\ z.code => Len(z.bytes) <= z.size
    /\ z.pc \in Nat /\ z.code \in BOOLEAN /\ z.flags \subseteq {"m", "x"}
    /\ z.section \in DOMAIN z.sections \cup {-1}
    /\ z.section >= 0 => z.next_label =
                      IF z.sections[z.section].labels = {} THEN -1
                      ELSE Least({l.offset : l \in z.sections[z.section].labels})

(* Each byte of the records is printed once, in its order, in the section  *)
(* and at the address the records give it, however expressions, labels,    *)
(* sections and debug records cut the instructions; and the address in the *)
(* comment of a line is its address (disassembler.cpp, dump and print),    *)
(* but in a section that only names places: an assembler has come to its   *)
(* end already, as the front of the listing has its labels.                *)
BytesReassemble ==
    LET as == Assembled
    IN  /\ as[Len(z.listing)].bytes \o z.bytes = [b \in 1 .. Len(fed) |-> b]
        /\ Legible => \A k \in DOMAIN z.listing : Item(k).kind \in Lines =>
              /\ ~z.sections[as[k].section].ref_only /\ OriginShown(as[k].section) =>
                     Item(k).at = Here(as[k]) - Len(Item(k).bytes)
              /\ \A b \in DOMAIN Item(k).bytes :
                    fed[Item(k).bytes[b]] = << as[k].section, Item(k).at + b - 1 >>
        /\ \A b \in DOMAIN z.bytes : fed[z.bytes[b]] = << z.section, z.pc + b - 1 >>

(* Reserved space is printed in pieces that add up, and no origin moves    *)
(* bytes: an assembler has got as far in every section it has come to as   *)
(* the records have, but for the bytes in hand and the space that is still *)
(* to come (disassembler.cpp, space; dumpobj.cpp, REC_ORG). Said of        *)
(* listings that can be read, and of sections whose origin is in them.     *)
SpaceReassembles ==
    LET last == Assembled[Len(z.listing)]
        pending == Len(z.bytes) + IF phase = "space" THEN rest ELSE 0
        Comparable(n) == ~z.sections[n].ref_only /\ z.sections[n].processed /\ OriginShown(n)
    IN  Legible => \A n \in DOMAIN z.sections : Comparable(n) =>
            home[n] = last.at[n] + IF n = z.section THEN pending ELSE 0

(* front_matter() prints a label that is before the origin of its section  *)
(* at the origin.                                                          *)
BeforeOrigin(l) ==
    z.sections[l.section].ref_only /\ l.offset < z.sections[l.section].org

(* A label is printed where it is: in its section, and where an assembler  *)
(* has come to its offset (zrdz_disassembler.cpp, next_label), if it can   *)
(* read the listing and the origin of the section is in it.                *)
LabelsPlaced ==
    LET as == Assembled
        Right(l, a) ==
            /\ l.section = a.section
            /\ OriginShown(l.section) => BeforeOrigin(l) \/ l.offset = Here(a)
    IN  Legible => \A k \in DOMAIN z.listing : Item(k).kind = "labels" =>
            \A l \in Item(k).which : Right(l, as[k])

(* In code, an expression that is not the operand of the opcode in hand is *)
(* printed after it with no look at the labels.                            *)
Cut(section, k) ==
    /\ ~z.sections[section].data
    /\ k \in 1 .. Len(z.listing) - 1
    /\ Item(k).kind = "db" /\ Item(k + 1).kind = "expr"

(* At the end a label has been printed, once, exactly if the records enter *)
(* its section and the listing comes to its offset between two lines, but  *)
(* for those that an expression cuts off (disassembler.cpp, check_labels;  *)
(* next_label only warns of the others). Sections without data are in the  *)
(* listing from the front. Said of listings that can be read with all      *)
(* their origins, if these lead forward: a label that has been passed is   *)
(* gone for good.                                                          *)
OriginsForward ==
    \A k \in DOMAIN z.listing :
        Item(k).kind = "org" => Item(k).to >= Here(Assembled[k - 1])
LabelsFound ==
    LET as == Assembled
        Times(l) == Cardinality({k \in DOMAIN z.listing :
                                    Item(k).kind = "labels" /\ l \in Item(k).which})
        Visited == entered \cup {n \in DOMAIN z.sections : z.sections[n].ref_only}
        Reached(l) == \E k \in DOMAIN z.listing :
                          as[k].section = l.section /\ Here(as[k]) = l.offset /\ ~Cut(l.section, k)
        Followed == Legible /\ OriginsForward /\ \A n \in DOMAIN z.sections : OriginShown(n)
    IN  phase \in {"done", "endedEarly"} /\ Followed =>
            \A l \in module.symbols :
                IsLabel(l) /\ l.section \in DOMAIN module.sections /\ ~BeforeOrigin(l) =>
                Times(l) = IF l.section \in Visited /\ Reached(l) THEN 1 ELSE 0

(* At the end each import, each variable, each equate and each public      *)
(* symbol has been declared once, however often its section is entered, if *)
(* the section is listed or entered at all (zrdz_disassembler.cpp,         *)
(* processed). A public variable is declared with the variables, and would *)
(* be again with its section, an import as well: the assembler gives them  *)
(* section 255, which is none.                                             *)
DeclaredOnce ==
    LET Times(kind, field, k) == Cardinality({i \in DOMAIN z.listing :
            Item(i).kind = kind /\ k \in Item(i)[field]})
        Once(b) == IF b THEN 1 ELSE 0
        Sited(k) == k.section \in DOMAIN module.sections \cup entered
    IN  phase \in {"done", "endedEarly"} =>
            \A k \in module.symbols :
                /\ Times("symbols", "externs", k) = Once(k.kind = "undefined")
                /\ Times("symbols", "variables", k) = Once(k.variable)
                /\ Times("section", "equs", k) = Once(k.kind = "equ" /\ Sited(k))
                /\ (k.variable \/ k.kind = "undefined" => ~Sited(k)) =>
                       Times("symbols", "publics", k) + Times("section", "publics", k)
                       = Once(k.global /\ (k.variable \/ Sited(k)))

(* A section that only names places is given its whole size, or as far as  *)
(* its last label (zrdz_disassembler.cpp, front_matter), until a record    *)
(* enters it. Only sections at 0 are: the code compares the size with the  *)
(* address. Said of listings that can be read.                             *)
ReferencesReserved ==
    LET last == Assembled[Len(z.listing)]
    IN  Legible => \A n \in DOMAIN module.sections :
            LET e == module.sections[n]
                ends == {e.size} \cup {l.offset : l \in {k \in module.symbols :
                                            IsLabel(k) /\ k.section = n}}
            IN  e.ref_only /\ e.org = 0 /\ n \notin entered =>
                    last.at[n] = CHOOSE m \in ends : \A x \in ends : x <= m

(* What is still to do, the most important first: files, modules, records, *)
(* what is left of the record, and the labels that the section still has.  *)
ToDo ==
    LET Flag(b) == IF b THEN 1 ELSE 0
        inside == IF phase = "space" THEN rest
                  ELSE IF rest > 0 THEN Len(Record.bytes) - rest
                  ELSE IF At("DATA") THEN Len(Record.bytes) ELSE 0
    IN  << Flag(~Ended), Len(files), Flag(phase # "files"), Len(modules),
           Flag(phase \in {"records", "space"}), Len(module.records) + 1 - next,
           Flag(phase # "space"), inside,
           IF z.section >= 0 THEN Cardinality(z.sections[z.section].labels) ELSE 0 >>

(* Every step does some of it, and before the end there is always a step   *)
(* to take: so the listing ends. The loop of space() would not, if a label *)
(* it comes to stayed the next label: its turns would be 0 bytes long      *)
(* (dumpobj.cpp, dump and dump_obj; disassembler.cpp, space).              *)
ListingAdvances ==
    [][\E k \in DOMAIN ToDo : ToDo'[k] < ToDo[k] /\ \A j \in 1 .. k - 1 : ToDo'[j] = ToDo[j]]_vars
=============================================================================
