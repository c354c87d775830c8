---------------------------- MODULE Disassembler ----------------------------
(***************************************************************************)
(* The disassembler of an object module: disassembler.cpp with the virtual *)
(* functions and the sections of zrdz_disassembler.cpp.                    *)
(*                                                                         *)
(* An object z is a record with the members of both classes:               *)
(*   bytes       _bytes, _st: what was fed and is not printed yet          *)
(*   size        _size: the operand of the instruction in hand             *)
(*   pc, code, next_label, section, sections   as in the code              *)
(*   flags       the registers that are wide, of "m" and "x"               *)
(*   symbols     _symbols, the symbol table                                *)
(*   listing     what was printed                                          *)
(* and each operator is a method: the object after the call. A byte is the *)
(* number of its turn. With the traits of wdc (pea_immediate) and event()  *)
(* not overridden, inline data, bit hacks and REP/SEP tracking never start.*)
(***************************************************************************)
EXTENDS Integers, Sequences

Least(S) == CHOOSE x \in S : \A y \in S : x <= y

-----------------------------------------------------------------------------
(* What is printed. A line of bytes is an instruction ("op"), data ("db")  *)
(* or an expression ("expr"); its comment gives the address at.            *)

Lines == {"op", "db", "expr"}

Emit(z, item) == [z EXCEPT !.listing = Append(@, item)]

(* hexdump, then the new pc and reset().                                   *)
PrintLine(z, kind, size) ==
    [Emit(z, [kind |-> kind, at |-> z.pc, bytes |-> z.bytes])
        EXCEPT !.pc = @ + size, !.bytes = << >>]

PrintOp(z) == PrintLine(z, "op", z.size + 1)
Dump(z) == IF z.bytes = << >> THEN z ELSE PrintLine(z, "db", Len(z.bytes))
DumpExpr_Over(z, ids) == PrintLine([z EXCEPT !.bytes = ids], "expr", Len(ids))
DumpExpr(z, ids) == PrintLine([Dump(z) EXCEPT !.bytes = ids], "expr", Len(ids))

-----------------------------------------------------------------------------
(* Labels. sections[n].labels holds those that are still to come. All that *)
(* are before pc are dropped with a warning.                               *)

NextLabel_All(z, pc) ==
    IF z.section < 0 THEN [z EXCEPT !.next_label = -1] ELSE
    LET labels == z.sections[z.section].labels
        left == {l \in labels : l.offset > pc}
        found == labels \ left
        moved == [z EXCEPT !.sections[z.section].labels = left,
                           !.next_label = IF left = {} THEN -1
                                          ELSE Least({l.offset : l \in left})]
    IN  IF found = {} THEN moved ELSE Emit(moved, [kind |-> "labels", which |-> found])
NextLabel(z, pc) ==
    IF z.section < 0 THEN [z EXCEPT !.next_label = -1] ELSE
    LET labels == z.sections[z.section].labels
        left == {l \in labels : l.offset > pc}
        found == {l \in labels : l.offset = pc}
        moved == [z EXCEPT !.sections[z.section].labels = left,
                           !.next_label = IF left = {} THEN -1
                                          ELSE Least({l.offset : l \in left})]
    IN  IF found = {} THEN moved ELSE Emit(moved, [kind |-> "labels", which |-> found])

RecalcNextLabel(z) == NextLabel(z, -1)

CheckLabels_Late(z) ==
    IF z.next_label >= 0 /\ z.pc + Len(z.bytes) > z.next_label
    THEN LET y == Dump(z) IN NextLabel(y, y.pc)
    ELSE z
CheckLabels(z) ==
    IF z.next_label >= 0 /\ z.pc + Len(z.bytes) >= z.next_label
    THEN LET y == Dump(z) IN NextLabel(y, y.pc)
    ELSE z

Flush(z) == CheckLabels(Dump(z))

-----------------------------------------------------------------------------
(* Instructions: what follows an opcode, for each kind of addressing.      *)

Op == {"implied", "dp", "absolute", "long", "immediate_m", "immediate_x"}

OperandSize(z, op) ==
    CASE op = "implied"     -> 0
      [] op = "dp"          -> 1
      [] op = "absolute"    -> 2
      [] op = "long"        -> 3
      [] op = "immediate_m" -> IF "m" \in z.flags THEN 2 ELSE 1
      [] op = "immediate_x" -> IF "x" \in z.flags THEN 2 ELSE 1

Checked(z) == IF z.bytes = << >> \/ ~z.code THEN CheckLabels(z) ELSE z

(* A byte: of data, an opcode, or of an operand.                           *)
ByteData_Five(z, id) ==
    LET w == [z EXCEPT !.bytes = Append(@, id)]
    IN  IF Len(w.bytes) = 5 THEN Dump(w) ELSE w
ByteData(z, id) ==
    LET w == [z EXCEPT !.bytes = Append(@, id)]
    IN  IF Len(w.bytes) = 4 THEN Dump(w) ELSE w
ByteCode(z, op, id) ==
    LET w == [z EXCEPT !.bytes = Append(@, id),
                       !.size = IF z.bytes = << >> THEN OperandSize(z, op) ELSE @]
    IN  IF Len(w.bytes) > w.size THEN PrintOp(w) ELSE w
Byte(z, op, id) ==
    LET y == Checked(z) IN IF y.code THEN ByteCode(y, op, id) ELSE ByteData(y, id)

(* An expression is the operand of the opcode in hand if it has its size.  *)
Operand(z, ids) == z.code /\ Len(z.bytes) = 1 /\ Len(ids) = z.size
Expr(z, ids) ==
    LET y == Checked(z)
    IN  IF Operand(y, ids) THEN PrintOp([y EXCEPT !.bytes = @ \o ids]) ELSE DumpExpr(y, ids)

-----------------------------------------------------------------------------
SetPc(z, pc) == IF z.pc = pc THEN z ELSE [Flush(z) EXCEPT !.pc = pc]
SetCode(z, code) == IF z.code = code THEN z ELSE [Flush(z) EXCEPT !.code = code]
SetFlags(z, flags) == [z EXCEPT !.flags = flags]

(* One turn of the loop of space(). _next_label - _pc is unsigned: a label *)
(* before pc would make the chunk as large as the space.                   *)
Chunk(z, size) ==
    IF z.next_label = -1 \/ z.next_label < z.pc \/ z.next_label - z.pc > size
    THEN size ELSE z.next_label - z.pc
Spaced_Size(z, size) ==
    LET c == Chunk(z, size)
        y == [Emit(z, [kind |-> "ds", at |-> z.pc, size |-> size]) EXCEPT !.pc = @ + c]
    IN  IF y.next_label = y.pc THEN NextLabel(y, y.pc) ELSE y
Spaced_Late(z, size) ==
    LET c == Chunk(z, size)
        y == [Emit(z, [kind |-> "ds", at |-> z.pc, size |-> c]) EXCEPT !.pc = @ + c]
    IN  IF y.next_label < y.pc THEN NextLabel(y, y.pc) ELSE y
Spaced(z, size) ==
    LET c == Chunk(z, size)
        y == [Emit(z, [kind |-> "ds", at |-> z.pc, size |-> c]) EXCEPT !.pc = @ + c]
    IN  IF y.next_label = y.pc THEN NextLabel(y, y.pc) ELSE y

-----------------------------------------------------------------------------
(* Sections. *)

Ends(z) == Emit(z, [kind |-> "ends"])

(* The sections that front_matter() prints.                                *)
IsReference(z, n) ==
    LET e == z.sections[n] IN e.valid /\ e.ref_only /\ (e.size # 0 \/ e.labels # {})

(* print_section; print_globals and print_equs once. What is printed of a  *)
(* section is its name, the directive that starts it, or an empty line. A  *)
(* name stands for the number, an empty line for nothing: it comes of a    *)
(* section without a name that is entered again, and of a section 5 that   *)
(* the module does not list. The origin is that of SEC_OFFSET and          *)
(* SEC_INDIRECT, or the .org of front_matter() after it; 0 is none.        *)
Heading(z, n) ==
    LET e == z.sections[n]
        first == ~e.processed
        starts == first /\ e.valid /\ n > 4
    IN  [kind |-> "section", number |-> n,
         line |-> IF starts THEN "section" ELSE IF e.named THEN "name" ELSE "blank",
         origin |-> IF (first /\ IsReference(z, n)) \/ (starts /\ e.offset) THEN e.org ELSE 0,
         publics |-> IF first THEN e.publics ELSE {},
         equs |-> IF first THEN e.equs ELSE {}]
PrintSection_Again(z, n) == Emit(z, Heading(z, n))
PrintSection(z, n) == [Emit(z, Heading(z, n)) EXCEPT !.sections[n].processed = TRUE]

Invalid(z, n) == n \notin DOMAIN z.sections \/ (n > 5 /\ ~z.sections[n].valid)

Left(z) ==
    IF z.section < 0 THEN z
    ELSE LET y == Flush(z) IN Ends([y EXCEPT !.sections[y.section].pc = y.pc])

SetSection(z, n) ==
    IF n = z.section \/ Invalid(z, n) THEN z
    ELSE LET y == [PrintSection(Left(z), n) EXCEPT !.section = n]
             e == y.sections[n]
         IN  RecalcNextLabel(SetCode(SetPc(y, e.pc), ~e.data))

(* The constructor: sections that the module lists, and room for the       *)
(* predefined ones, which have names. The labels of a section are its      *)
(* symbols that are defined, no variables and no equates; those of a       *)
(* section that is not there are dropped.                                  *)
IsLabel(k) == k.kind = "label" /\ ~k.variable
Entry(mod, n) ==
    LET listed == n \in DOMAIN mod.sections
        s == mod.sections[n]
        here == {k \in mod.symbols : k.section = n}
    IN  [valid |-> listed, processed |-> FALSE,
         named |-> n < 5 \/ (listed /\ s.named),
         offset |-> listed /\ s.offset,
         data |-> listed /\ s.data,
         ref_only |-> listed /\ s.ref_only,
         size |-> IF listed THEN s.size ELSE 0,
         org |-> IF listed THEN s.org ELSE 0,
         pc |-> IF listed THEN s.org ELSE 0,
         labels |-> IF listed THEN {k \in here : IsLabel(k)} ELSE {},
         equs |-> {k \in here : k.kind = "equ"},
         publics |-> {k \in here : k.global}]

Constructed(mod) ==
    [bytes |-> << >>, size |-> 0, pc |-> 0, code |-> TRUE, flags |-> {"m", "x"},
     next_label |-> -1, section |-> -1, listing |-> << >>, symbols |-> mod.symbols,
     sections |-> LET top == CHOOSE m \in DOMAIN mod.sections \cup {4} :
                                 \A n \in DOMAIN mod.sections \cup {4} : n <= m
                  IN  [n \in 0 .. top |-> Entry(mod, n)]]

-----------------------------------------------------------------------------
(* front_matter: imports and variables, print_externs and print_variables. *)
Declarations(z) ==
    LET variables == {k \in z.symbols : k.variable}
    IN  [kind |-> "symbols", externs |-> {k \in z.symbols : k.kind = "undefined"},
         variables |-> variables, publics |-> {k \in variables : k.global}]

(* Then the sections that only name places, with their labels.             *)

Gap(z, from, to) ==
    IF to > from THEN Emit(z, [kind |-> "ds", at |-> from, size |-> to - from]) ELSE z

(* The labels in order, as far as an offset: the object and its address.   *)
LabelsAt(e, o) == {l \in e.labels : l.offset = o}
Beyond(e) == CHOOSE o \in {0} \cup {l.offset + 1 : l \in e.labels} :
                 \A l \in e.labels : l.offset < o
Labelled(z, e) ==
    LET before[o \in 0 .. Beyond(e)] ==
            IF o = 0 THEN [object |-> z, pc |-> e.org]
            ELSE LET p == before[o - 1]
                     found == LabelsAt(e, o - 1)
                 IN  IF found = {} THEN p
                     ELSE [object |-> Emit(Gap(p.object, p.pc, o - 1),
                                           [kind |-> "labels", which |-> found]),
                           pc |-> IF o - 1 > p.pc THEN o - 1 ELSE p.pc]
    IN  before[Beyond(e)]

(* Then what is left of the section. The length to come is taken from the  *)
(* address, which is right for sections at 0.                              *)
Placed_Whole(z, e) == LET p == Labelled(z, e) IN Gap(p.object, e.org, e.size)
Placed(z, e) == LET p == Labelled(z, e) IN Gap(p.object, p.pc, e.size)
Reference(z, n) ==
    LET e == z.sections[n]
    IN  Ends(Placed([PrintSection(z, n) EXCEPT !.sections[n].labels = {}], e))

(* The loops over _sections.                                               *)
LastSection(z) == CHOOSE n \in DOMAIN z.sections : n + 1 \notin DOMAIN z.sections

References(z) ==
    LET after[n \in DOMAIN z.sections] ==
            LET y == IF n = 0 THEN z ELSE after[n - 1]
            IN  IF IsReference(y, n) THEN Reference(y, n) ELSE y
    IN  after[LastSection(z)]
FrontMatter(z) == SetSection(References(Emit(z, Declarations(z))), 1)

(* back_matter: the sections that no record entered.                       *)
Unused(z, n) == z.sections[n].valid /\ ~z.sections[n].processed
Remaining(z) ==
    LET after[n \in DOMAIN z.sections] ==
            LET y == IF n = 0 THEN z ELSE after[n - 1]
            IN  IF Unused(y, n) THEN Ends(PrintSection(y, n)) ELSE y
    IN  after[LastSection(z)]
BackMatter(z) == Remaining(Ends([Flush(z) EXCEPT !.section = -1]))
=============================================================================
