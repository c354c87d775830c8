------------------------------ MODULE Folding ------------------------------
(***************************************************************************)
(* simplify_expression() against a reference that knows nothing of it: the *)
(* reference evaluates an expression with the sections in their places, so *)
(* that a location is a number like any other.                             *)
(*                                                                         *)
(* The loop of simplify_expression() takes the items of the expression one *)
(* by one, so a state is an expression and what has become of it so far.   *)
(***************************************************************************)
EXTENDS Expression
LOCAL INSTANCE Bitwise
LOCAL INSTANCE SequencesExt     \* Front, Last
LOCAL INSTANCE Functions        \* Range

CONSTANTS
    FoldOperands,   \* the operands of expressions
    MaxItems,       \* bound: the items of an expression
    Placements,     \* where a loader may put the sections
    Extent          \* the size of a section

ASSUME FoldingAssumption ==
    /\ MaxItems \in Nat /\ Extent \in Nat
    /\ \A t \in FoldOperands : t.tag \in {"VAL", "LOC"} /\ t.value \in Word

VARIABLES stack,    \* the items so far, as they were read
          tmp, rv,  \* what simplify_expression() has made of them
          alive     \* whether the process is

foldVars == << stack, tmp, rv, alive >>

-----------------------------------------------------------------------------
(* [now, rel, fixed, ok]: the value; the value if every section were at 0; *)
(* whether it is without locations; whether it is defined.                 *)
Number(x)         == [now |-> x, rel |-> x, fixed |-> TRUE, ok |-> TRUE]
Location(base, x) == [now |-> Wrap(base + x), rel |-> x, fixed |-> FALSE, ok |-> TRUE]

Times(a, b) == LET f[j \in 0 .. b] == IF j = 0 THEN 1 ELSE Wrap(a * f[j - 1]) IN f[b]

Arithmetic(op, a, b) ==
    CASE op = "EXP" -> Times(a, b)
      [] op = "MUL" -> Wrap(a * b)
      [] op = "DIV" -> IF b = 0 THEN 0 ELSE a \div b
      [] op = "MOD" -> IF b = 0 THEN 0 ELSE a % b
      [] op = "SHR" -> IF b < WordBits THEN a \div 2 ^ b ELSE 0
      [] op = "SHL" -> IF b < WordBits THEN Wrap(a * 2 ^ b) ELSE 0
      [] op = "ADD" -> Wrap(a + b)
      [] op = "SUB" -> Wrap(a - b)
      [] op = "AND" -> a & b
      [] op = "OR"  -> a | b
      [] op = "XOR" -> a ^^ b
      [] op = "EQ"  -> IF a = b THEN 1 ELSE 0
      [] op = "GT"  -> IF Signed(a) > Signed(b) THEN 1 ELSE 0
      [] op = "LT"  -> IF Signed(a) < Signed(b) THEN 1 ELSE 0
      [] op = "UGT" -> IF a > b THEN 1 ELSE 0
      [] op = "ULT" -> IF a < b THEN 1 ELSE 0

(* Constants, or places that are in their sections. *)
Comparable(a, b) == \/ a.fixed /\ b.fixed
                    \/ a.rel <= Extent /\ b.rel <= Extent

Binary(op, a, b) ==
    [now   |-> Arithmetic(op, a.now, b.now),
     rel   |-> Arithmetic(op, a.rel, b.rel),
     fixed |-> a.fixed /\ b.fixed,
     ok    |-> /\ a.ok /\ b.ok
               /\ op \in {"DIV", "MOD"} => b.now # 0
               /\ op \in {"SHR", "SHL"} => b.now < WordBits
               /\ op \in {"GT", "LT", "UGT", "ULT"} => Comparable(a, b)]

Negative(op, x) == CASE op = "NEG" -> Wrap(-x)
                     [] op = "FLP" -> WordSize - 1 - x
                     [] op = "NOT" -> IF x = 0 THEN 1 ELSE 0

Unary(op, a) == [a EXCEPT !.now = Negative(op, a.now), !.rel = Negative(op, a.rel)]

(* The values on the stack after an item; base[s] is where section s is.   *)
Evaluated(v, t, base) ==
    CASE t.tag = "VAL" -> Append(v, Number(t.value))
      [] t.tag = "LOC" -> Append(v, Location(base[t.section], t.value))
      [] t.tag \in UnaryOps  -> Append(Front(v), Unary(t.tag, Last(v)))
      [] t.tag \in BinaryOps ->
             Append(Front(Front(v)), Binary(t.tag, Last(Front(v)), Last(v)))

Values(items, base) ==
    LET run[j \in 0 .. Len(items)] ==
            IF j = 0 THEN << >> ELSE Evaluated(run[j - 1], items[j], base)
    IN  run[Len(items)]

(* How many values the items leave, if no operator lacks an operand. *)
Depth == Len(SelectSeq(stack, LAMBDA t : t.tag \in Operands))
         - Len(SelectSeq(stack, LAMBDA t : t.tag \in BinaryOps))

-----------------------------------------------------------------------------
FoldInit == stack = << >> /\ tmp = << >> /\ rv = FALSE /\ alive = TRUE

(* The expressions of the assembler: no operator lacks an operand, and as  *)
(* many operators can follow as are wanted.                                *)
Fits(t) ==
    LET after == IF t.tag \in Operands THEN Depth + 1
                 ELSE IF t.tag \in BinaryOps THEN Depth - 1 ELSE Depth
    IN  /\ after >= 1 /\ (t.tag \in UnaryOps => Depth >= 1)
        /\ Len(stack) + 1 + (after - 1) <= MaxItems

Items == FoldOperands \cup {Op(o) : o \in UnaryOps \cup BinaryOps}

Turn ==
    /\ alive
    /\ \E t \in Items :
           /\ Fits(t)
           /\ LET f == Feed(t, tmp)
              IN  /\ tmp' = f.v /\ rv' = (rv \/ f.rv) /\ alive' = f.ok
           /\ stack' = Append(stack, t)

FoldSpec == FoldInit /\ [][Turn]_foldVars

-----------------------------------------------------------------------------
(* What simplify_expression() leaves of an expression is worth what the    *)
(* expression is, wherever the loader puts the sections, if that is        *)
(* defined: no division by zero, no shift by the width, no comparison of   *)
(* places outside of their sections (simplify_expression compares offsets, *)
(* unsigned).                                                              *)
FoldingFaithful ==
    alive => \A base \in Placements :
        LET was == Values(stack, base)
            is  == Values(tmp, base)
        IN  /\ Len(is) = Len(was)
            /\ \A j \in DOMAIN was : was[j].ok => is[j].now = was[j].now

(* An expression is replaced only when something was folded, so what was   *)
(* not is as it was.                                                       *)
FoldingSeen == alive => (rv <=> tmp # stack)

(* Folding moves with the sections: to fold with the sections in one       *)
(* place, to move what is left and fold again (as build_omf_segments does) *)
(* leaves what folding the moved expression would leave, where that is     *)
(* defined.                                                                *)
Moving(items, to) ==
    [j \in DOMAIN items |->
        IF items[j].tag = "LOC"
        THEN Loc(to[items[j].section].segment,
                 Wrap(items[j].value + to[items[j].section].offset))
        ELSE items[j]]

Merges == {<< [segment |-> 1, offset |-> 0], [segment |-> 1, offset |-> Extent] >>,
           << [segment |-> 2, offset |-> Extent], [segment |-> 1, offset |-> 3] >>}

FoldingMoves ==
    alive /\ (\A base \in Placements : \A v \in Range(Values(stack, base)) : v.ok) =>
        \A to \in Merges :
        LET late  == simplify_expression(Moving(tmp, to))
            early == simplify_expression(Moving(stack, to))
        IN  early.ok => late.ok /\ late.v = early.v

(* The process ends in the middle of an expression only on constants: at a *)
(* division by zero, and at every operator of one operand, which           *)
(* unary_op() finds unsupported.                                           *)
Before == Values(SubSeq(stack, 1, Len(stack) - 1), [s \in {1, 2} |-> 0])
SameAnywhere == \A base \in Placements :
    Last(Values(SubSeq(stack, 1, Len(stack) - 1), base)).now = Last(Before).now

EndsOnConstants ==
    /\ ~alive => /\ SameAnywhere
                 /\ \/ Last(stack).tag \in UnaryOps
                    \/ Last(stack).tag \in {"DIV", "MOD"} /\ Last(Before).now = 0
    /\ stack # << >> /\ Last(stack).tag \in UnaryOps /\ Last(Before).fixed => ~alive
=============================================================================
