----------------------------- MODULE Expression -----------------------------
(***************************************************************************)
(* The expression arithmetic of wdclink (expression.cpp, expression.h).    *)
(*                                                                         *)
(* An expression record of an object file is a postfix sequence of items:  *)
(* operands (a constant, a location in a section, a symbol) and operators. *)
(* The linker folds what it can and keeps the rest, in postfix order, for  *)
(* the relocation records.                                                 *)
(*                                                                         *)
(* Values are uint32_t in the code and wrap; here they wrap at WordSize, a *)
(* power of two that a configuration keeps small enough for the products   *)
(* to be computed by the model checker.                                    *)
(***************************************************************************)
EXTENDS Integers, Sequences

CONSTANTS WordBits   \* width of a value: 32 in the code

ASSUME WordBitsAssumption == WordBits \in Nat /\ WordBits >= 2

WordSize == 2 ^ WordBits
Word     == 0 .. WordSize - 1

Operands  == {"SYM", "VAL", "LOC"}
UnaryOps  == {"NOT", "NEG", "FLP"}
BinaryOps == {"EXP", "MUL", "DIV", "MOD", "SHR", "SHL", "ADD", "SUB",
              "AND", "OR", "XOR", "EQ", "GT", "LT", "UGT", "ULT"}

(* struct expr: `section' is a symbol number in a SYM item, the number of  *)
(* a section (later of a segment) in a LOC item, and unused elsewhere.     *)
Item == [tag: Operands \cup UnaryOps \cup BinaryOps, value: Nat, section: Nat]

Val(v)    == [tag |-> "VAL", value |-> v, section |-> 0]
Loc(s, v) == [tag |-> "LOC", value |-> v, section |-> s]
Sym(k)    == [tag |-> "SYM", value |-> 0, section |-> k]
Op(o)     == [tag |-> o, value |-> 0, section |-> 0]

-----------------------------------------------------------------------------
(* Word arithmetic: what the C++ operators do to uint32_t operands. *)

Wrap(x)   == x % WordSize
Signed(x) == IF x >= WordSize \div 2 THEN x - WordSize ELSE x    \* (int32_t)x
Truth(b)  == IF b THEN 1 ELSE 0
Bit(x, i) == (x \div 2 ^ i) % 2

(* The word whose bit i is B(bit i of a, bit i of b). *)
Bitwise2(B(_, _), a, b) ==
    LET low[i \in 0 .. WordBits] ==
            IF i = 0 THEN 0
            ELSE low[i - 1] + 2 ^ (i - 1) * B(Bit(a, i - 1), Bit(b, i - 1))
    IN  low[WordBits]

AndBit(x, y) == x * y
OrBit(x, y)  == x + y - x * y
XorBit(x, y) == (x + y) % 2

(* power(): square and multiply over the bits of the exponent, so a ** 0   *)
(* is 1 and every product wraps.                                           *)
power(a, b) ==
    LET rv[i \in 0 .. WordBits] ==    \* rv[i] = << rv, a >> after i bits of b
            IF i = 0 THEN << 1, a >>
            ELSE << IF Bit(b, i - 1) = 1 THEN Wrap(rv[i - 1][1] * rv[i - 1][2])
                                         ELSE rv[i - 1][1],
                    Wrap(rv[i - 1][2] * rv[i - 1][2]) >>
    IN  rv[WordBits][1]

(* The process dies at a zero divisor. *)
Traps(op, b) == op \in {"DIV", "MOD"} /\ b = 0

(* VAL op VAL, for operands on which the operator is defined; an oversized *)
(* shift uses the low bits of the count, as the x86 shift does.            *)
Compute(op, a, b) ==
    CASE op = "EXP" -> power(a, b)
      [] op = "MUL" -> Wrap(a * b)
      [] op = "DIV" -> a \div b
      [] op = "MOD" -> a % b
      [] op = "SHR" -> a \div 2 ^ (b % WordBits)
      [] op = "SHL" -> Wrap(a * 2 ^ (b % WordBits))
      [] op = "ADD" -> Wrap(a + b)
      [] op = "SUB" -> Wrap(a - b)
      [] op = "AND" -> Bitwise2(AndBit, a, b)
      [] op = "OR"  -> Bitwise2(OrBit, a, b)
      [] op = "XOR" -> Bitwise2(XorBit, a, b)
      [] op = "EQ"  -> Truth(a = b)
      [] op = "GT"  -> Truth(Signed(a) > Signed(b))
      [] op = "LT"  -> Truth(Signed(a) < Signed(b))
      [] op = "UGT" -> Truth(a > b)
      [] op = "ULT" -> Truth(a < b)

-----------------------------------------------------------------------------
(* The folds. A step on the pending stack v yields [v, rv, ok]: the new    *)
(* stack, whether something was folded, and FALSE in ok when the process   *)
(* ended inside the step.                                                  *)

Step(v, rv)   == [v |-> v, rv |-> rv, ok |-> TRUE]
Died(v)       == [v |-> v, rv |-> FALSE, ok |-> FALSE]
Push(v, x)    == Step(Append(v, x), FALSE)
Pop(v, k)     == SubSeq(v, 1, Len(v) - k)

(* unary_op(): the inner switch looks at the tag of the operand, which is  *)
(* a constant there, and none of its cases is the constant's tag: the      *)
(* default case calls errx().                                              *)
unary_op_Always(op, v) == IF v # << >> THEN Died(v) ELSE Push(v, Op(op))

unary_op(op, v) ==
    IF v # << >> /\ v[Len(v)].tag = "VAL" THEN Died(v) ELSE Push(v, Op(op))

(* The folds of two locations in one section: the difference is a          *)
(* constant and the comparisons are those of the unsigned offsets.         *)
SameSection_Reversed(op, a, b) == IF op = "SUB" THEN Wrap(b - a) ELSE Truth(a = b)

SameSection(op, a, b) ==
    CASE op = "SUB"           -> Wrap(a - b)
      [] op = "EQ"            -> Truth(a = b)
      [] op \in {"GT", "UGT"} -> Truth(a > b)
      [] op \in {"LT", "ULT"} -> Truth(a < b)

InOneSection_Any(a, b) == a.tag = "LOC" /\ b.tag = "LOC"

InOneSection(a, b) == a.tag = "LOC" /\ b.tag = "LOC" /\ a.section = b.section

binary_op(op, v) ==
    IF Len(v) < 2 THEN Push(v, Op(op)) ELSE
    LET a == v[Len(v) - 1]
        b == v[Len(v)]
        fold(x) == Step(Append(Pop(v, 2), x), TRUE)
    IN  CASE a.tag = "VAL" /\ b.tag = "VAL" /\ Traps(op, b.value) -> Died(v)
          [] a.tag = "VAL" /\ b.tag = "VAL" /\ ~Traps(op, b.value) ->
                 fold(Val(Compute(op, a.value, b.value)))
          [] a.tag = "VAL" /\ b.tag = "LOC" /\ op = "ADD" ->
                 fold(Loc(b.section, Wrap(a.value + b.value)))
          [] a.tag = "LOC" /\ b.tag = "VAL" /\ op = "ADD" ->
                 fold(Loc(a.section, Wrap(a.value + b.value)))
          [] a.tag = "LOC" /\ b.tag = "VAL" /\ op = "SUB" ->
                 fold(Loc(a.section, Wrap(a.value - b.value)))
          [] InOneSection(a, b) /\ op \in {"SUB", "EQ", "GT", "UGT", "LT", "ULT"} ->
                 fold(Val(SameSection(op, a.value, b.value)))
          [] OTHER -> Push(v, Op(op))

(* One turn of the loop of simplify_expression() on the item t. *)
Feed_Silent(t, v) ==
    IF t.tag \in BinaryOps THEN [binary_op(t.tag, v) EXCEPT !.rv = FALSE]
    ELSE IF t.tag \in UnaryOps THEN unary_op(t.tag, v) ELSE Push(v, t)

Feed(t, v) ==
    CASE t.tag \in BinaryOps -> binary_op(t.tag, v)
      [] t.tag \in UnaryOps  -> unary_op(t.tag, v)
      [] t.tag \in Operands  -> Push(v, t)

(* simplify_expression(): the whole loop. The stack is replaced only when  *)
(* something was folded.                                                   *)
simplify_expression(stack) ==
    LET run[i \in 0 .. Len(stack)] ==
            IF i = 0 THEN Step(<< >>, FALSE)
            ELSE LET s == run[i - 1]
                     f == Feed(stack[i], s.v)
                 IN  IF s.ok THEN [f EXCEPT !.rv = s.rv \/ f.rv] ELSE s
        end == run[Len(stack)]
    IN  IF end.rv THEN end ELSE [end EXCEPT !.v = stack]
=============================================================================
