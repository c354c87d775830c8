----------------------------- MODULE MCDumpObj -----------------------------
(* Small object modules to list. *)
EXTENDS Listing, SequencesExt, TLC

Bytes(bytes) == [kind |-> "DATA", bytes |-> bytes]
Value(size) == [kind |-> "EXPR", size |-> size, ops |-> << "operand" >>]
Formula(ops) == [kind |-> "EXPR", size |-> 2, ops |-> ops]
Sect(n) == [kind |-> "SECT", section |-> n]
OrgAt(to) == [kind |-> "ORG", to |-> to]
Reserve(count) == [kind |-> "SPACE", count |-> count]
DebugOp(op) == [kind |-> "DEBUG", op |-> op]
Plain(kind) == [kind |-> kind]

Area(size, org, ref_only, data) ==
    [size |-> size, org |-> org, ref_only |-> ref_only, data |-> data,
     named |-> TRUE, offset |-> org # 0]
Symbol(kind, variable, section, offset, global) ==
    [kind |-> kind, variable |-> variable, section |-> section, offset |-> offset,
     global |-> global]
Label(section, offset, global) == Symbol("label", FALSE, section, offset, global)
Equ(section, value, global) == Symbol("equ", FALSE, section, value, global)
Import(section) == Symbol("undefined", FALSE, section, 0, TRUE)
Variable(section, value, global) == Symbol("label", TRUE, section, value, global)

(* Page0 and udata name places; code, data and a code section at 4.        *)
Layout == 0 :> Area(3, 0, TRUE, FALSE) @@ 1 :> Area(9, 0, FALSE, FALSE)
          @@ 3 :> Area(6, 0, FALSE, TRUE) @@ 4 :> Area(0, 0, TRUE, FALSE)
          @@ 6 :> Area(6, 4, FALSE, FALSE)
Fixed == {Label(0, 1, TRUE), Label(0, 5, FALSE), Label(3, 0, TRUE), Label(3, 3, FALSE),
          Label(6, 4, FALSE), Label(6, 6, TRUE), Equ(1, 7, TRUE), Equ(6, 1, FALSE),
          Label(2, 0, TRUE), Import(255), Variable(255, 1, TRUE), Variable(255, 2, FALSE)}
InCode(offsets) == Fixed \cup {Label(1, o, TRUE) : o \in offsets}

Module(offsets, records) ==
    [sections |-> Layout, symbols |-> InCode(offsets), records |-> records, intact |-> TRUE]

(* Up to three records, with at most one origin, which is after them all.  *)
Pool == {Bytes(<< "dp" >>), Bytes(<< "absolute", "dp" >>),
         Bytes(<< "implied", "immediate_m", "implied" >>),
         Value(1), Value(2), Sect(1), Sect(3), Sect(6), Reserve(3), OrgAt(20),
         Plain("LINE"), DebugOp("D_LONGA_OFF")}
Short == {s \in SeqOf(Pool, 3) : Cardinality({k \in DOMAIN s : s[k].kind = "ORG"}) <= 1}
CodeLabels == {{}, {0, 1, 3}, {2, 6}, {4, 20}}

(* One of everything, and modules that something is wrong with.            *)
Long == << Bytes(<< "immediate_x", "long", "long" >>), DebugOp("D_LONGI_OFF"),
           Bytes(<< "immediate_x", "long", "immediate_m", "implied", "absolute" >>),
           Value(2), Sect(3), Bytes([k \in 1 .. 9 |-> "dp"]), Sect(1),
           DebugOp("D_LONGI_ON"), DebugOp("D_LONGA_ON"), DebugOp("D_C_LINE"),
           Bytes(<< "immediate_x" >>), Formula(<< "operand", "operand", "unary", "binary" >>),
           Sect(5), Sect(7), Reserve(0), Reserve(30), Plain("END") >>
Wrong == {<< Bytes(<< "dp" >>), r, Plain("END") >> : r \in
             {Formula(<< >>), Formula(<< "unary" >>), Formula(<< "operand", "binary" >>),
              Formula(<< "operand", "operand" >>), DebugOp("unknown"), Plain("UNKNOWN"),
              Plain("END")}}
         \cup {<< >>, << Bytes(<< "dp" >>) >>}

(* Bytes in sections that only name places, one of them with labels before *)
(* its origin, and origins that lead back. An import and variables that    *)
(* have sections, one of them not listed.                                  *)
Stray == {s \in SeqOf({Bytes(<< "dp" >>), Sect(0), Sect(4), Value(2), OrgAt(0)}, 3) : Len(s) = 3}
Odd(records) ==
    [sections |-> [Layout EXCEPT ![4] = Area(4, 2, TRUE, FALSE)],
     symbols |-> Fixed \cup {Label(1, 1, FALSE), Label(4, 0, TRUE), Label(4, 1, FALSE), Label(4, 3, FALSE),
                             Import(1), Variable(1, 0, TRUE), Variable(2, 1, TRUE)},
     records |-> records, intact |-> TRUE]

(* Sections without names, of which one is only started and one is entered *)
(* again, and one without the attributes of its origin.                    *)
Nameless == {s \in SeqOf({Bytes(<< "dp" >>), Sect(1), Sect(6), Sect(7), Reserve(3)}, 4) : Len(s) = 4}
Plainer(records) ==
    [sections |-> [n \in {1, 3, 6, 7} |->
                      IF n = 7 THEN Area(0, 0, FALSE, FALSE)
                      ELSE [Layout[n] EXCEPT !.named = FALSE, !.org = IF n = 3 THEN 2 ELSE @]],
     symbols |-> Fixed \cup {Label(1, 1, TRUE), Label(7, 1, TRUE)},
     records |-> records, intact |-> TRUE]

MCModules ==
    {Module(o, Append(s, Plain("END"))) : o \in CodeLabels, s \in Short}
    \cup {Module(o, s) : o \in CodeLabels, s \in Wrong \cup {Long}}
    \cup {Odd(s) : s \in Stray} \cup {Plainer(s) : s \in Nameless}

(* One module to a file; several to a file, and files that are none.       *)
File(kind, mods) == [kind |-> kind, modules |-> mods]
One == Module({0, 3}, << Bytes(<< "dp" >>), Sect(6), Value(1), Reserve(3), Plain("END") >>)
Other == Module({2}, << Sect(3), Bytes(<< "dp", "dp" >>), Sect(1), OrgAt(5), Plain("END") >>)
Torn == [NoModule EXCEPT !.records = << Plain("END") >>]
FilePool == {File("object", << One, Other >>), File("library", << Other, One, Other >>),
             File("object", << One, Torn, Other >>), File("library", << >>),
             File("badLibrary", << One >>), File("foreign", << >>), File("missing", << >>)}

MCCommandLines == {<< File("object", << m >>) >> : m \in MCModules} \cup SeqOf(FilePool, 3)
=============================================================================
