-------------------------- MODULE ExpressionProofs --------------------------
(***************************************************************************)
(* Proofs about simplify_expression(), for every expression: its loop runs *)
(* to the end, and what it leaves has no symbol unless it was given one.   *)
(* The loop is a recursive function; its proof is an induction over the    *)
(* items, stated with a set of numbers in the place of a predicate.        *)
(***************************************************************************)
EXTENDS Expression, WellFoundedInduction, TLAPS

(* Induction over the natural numbers. *)
LEMMA NatSets ==
    ASSUME NEW S, 0 \in S, \A n \in Nat : n \in S => n + 1 \in S
    PROVE  Nat \subseteq S
<1> DEFINE R == OpToRel(<, Nat)
           T == Nat \ S
<1> SUFFICES ASSUME T # {} PROVE FALSE
    OBVIOUS
<1>1. \A x \in Nat : \A y \in Nat : y < x => << y, x >> \in R
    BY DEF OpToRel
<1>2. IsWellFoundedOn(R, Nat)
    BY NatLessThanWellFounded
<1> HIDE DEF R
<1>3. PICK x \in T : \A y \in T : << y, x >> \notin R
    BY <1>2, WFMin
<1>4. x - 1 \in T /\ x - 1 < x
    BY <1>3
<1> QED
    BY <1>1, <1>3, <1>4

-----------------------------------------------------------------------------
(* The loop. *)

Started == Step(<< >>, FALSE)

(* A turn, on the item number j, after which s was pending.                *)
Turn(stack, j, s) ==
    LET f == Feed(stack[j], s.v) IN IF s.ok THEN [f EXCEPT !.rv = s.rv \/ f.rv] ELSE s

(* run says what is pending after each of the first n turns.               *)
Runs(run, stack, n) ==
    run = [j \in 0 .. n |-> IF j = 0 THEN Started ELSE Turn(stack, j, run[j - 1])]

LEMMA LoopRuns ==
    ASSUME NEW stack
    PROVE  \A n \in Nat : \E run : Runs(run, stack, n)
<1> DEFINE S == {n \in Nat : \E run : Runs(run, stack, n)}
<1>1. 0 \in S
    <2> DEFINE f == [j \in 0 .. 0 |-> Started]
    <2>1. Runs(f, stack, 0)
        BY DEF Runs
    <2> HIDE DEF f
    <2> QED
        BY <2>1
<1>2. ASSUME NEW n \in Nat, n \in S PROVE n + 1 \in S
    <2>1. PICK f : Runs(f, stack, n)
        BY <1>2
    <2> DEFINE last == Turn(stack, n + 1, f[n])
               g    == [j \in 0 .. n + 1 |-> IF j = n + 1 THEN last ELSE f[j]]
    <2>2. ASSUME NEW j \in 0 .. n + 1
          PROVE  g[j] = IF j = 0 THEN Started ELSE Turn(stack, j, g[j - 1])
        <3>1. CASE j = n + 1
            <4>1. n \in 0 .. n + 1 /\ n # n + 1 /\ j - 1 = n /\ j # 0
                BY <3>1
            <4>2. g[j] = last /\ g[j - 1] = f[n]
                BY <3>1, <4>1
            <4> HIDE DEF g
            <4> QED
                BY <3>1, <4>1, <4>2
        <3>2. CASE j # n + 1
            <4>1. j \in 0 .. n /\ (j # 0 => j - 1 \in 0 .. n /\ j - 1 # n + 1)
                BY <3>2
            <4>2. g[j] = f[j] /\ (j # 0 => g[j - 1] = f[j - 1])
                BY <3>2, <4>1
            <4> HIDE DEF g
            <4> QED
                BY <2>1, <4>1, <4>2 DEF Runs
        <3> QED
            BY <3>1, <3>2
    <2>3. g = [j \in 0 .. n + 1 |-> g[j]]
        OBVIOUS
    <2> HIDE DEF g
    <2>4. Runs(g, stack, n + 1)
        BY <2>2, <2>3 DEF Runs
    <2> QED
        BY <2>4
<1> HIDE DEF S
<1>3. Nat \subseteq S
    BY <1>1, <1>2, NatSets
<1> QED
    BY <1>3 DEF S

(* What simplify_expression() returns is what the last turn leaves, but    *)
(* the stack it was given when nothing was folded.                         *)
LEMMA LoopEnds ==
    ASSUME NEW stack, Len(stack) \in Nat
    PROVE  \E run : /\ run[0] = Started
                    /\ \A j \in 1 .. Len(stack) : run[j] = Turn(stack, j, run[j - 1])
                    /\ simplify_expression(stack) =
                           IF run[Len(stack)].rv THEN run[Len(stack)]
                           ELSE [run[Len(stack)] EXCEPT !.v = stack]
<1> DEFINE run == CHOOSE f : Runs(f, stack, Len(stack))
<1>1. Runs(run, stack, Len(stack))
    BY LoopRuns
<1>2. simplify_expression(stack) = IF run[Len(stack)].rv THEN run[Len(stack)]
                                   ELSE [run[Len(stack)] EXCEPT !.v = stack]
    BY DEF simplify_expression, Runs, Turn, Started
<1> HIDE DEF run
<1>3. /\ run[0] = Started
      /\ \A j \in 1 .. Len(stack) : run[j] = Turn(stack, j, run[j - 1])
    <2>1. \A j \in 0 .. Len(stack) :
              run[j] = IF j = 0 THEN Started ELSE Turn(stack, j, run[j - 1])
        BY <1>1 DEF Runs
    <2> QED
        BY <2>1
<1> QED
    BY <1>2, <1>3

-----------------------------------------------------------------------------
(* What the loop leaves. *)

Stack(v) == \E S : v \in Seq(S)
Free(v)  == Stack(v) /\ \A k \in DOMAIN v : v[k].tag # "SYM"

LEMMA Pushed ==
    ASSUME NEW v, NEW x, Free(v), x.tag # "SYM"
    PROVE  Free(Append(v, x))
<1>1. PICK S : v \in Seq(S)
    BY DEF Free, Stack
<1>2. v \in Seq(S \cup {x}) /\ x \in S \cup {x}
    BY <1>1
<1>3. Append(v, x) \in Seq(S \cup {x})
    BY <1>2
<1>4. \A k \in DOMAIN Append(v, x) : Append(v, x)[k].tag # "SYM"
    BY <1>1 DEF Free
<1> QED
    BY <1>3, <1>4 DEF Free, Stack

LEMMA Popped ==
    ASSUME NEW v, Free(v), Len(v) >= 2
    PROVE  Free(Pop(v, 2))
<1>1. PICK S : v \in Seq(S)
    BY DEF Free, Stack
<1>2. Len(v) \in Nat /\ Len(v) - 2 \in Nat
    BY <1>1
<1>3. /\ SubSeq(v, 1, Len(v) - 2) \in Seq(S)
      /\ \A k \in DOMAIN SubSeq(v, 1, Len(v) - 2) :
             k \in DOMAIN v /\ SubSeq(v, 1, Len(v) - 2)[k] = v[k]
    BY <1>1, <1>2
<1> QED
    BY <1>3 DEF Free, Stack, Pop

(* binary_op() replaces its operands by a value or a location, keeps the   *)
(* operator pending, or dies.                                              *)
LEMMA BinaryShape ==
    ASSUME NEW op, NEW v, Stack(v)
    PROVE  \/ binary_op(op, v) = Died(v)
           \/ binary_op(op, v) = Push(v, Op(op))
           \/ Len(v) >= 2 /\ \E x : /\ x.tag \in {"VAL", "LOC"}
                                    /\ binary_op(op, v) = Step(Append(Pop(v, 2), x), TRUE)
<1> DEFINE a == v[Len(v) - 1]
           b == v[Len(v)]
           Fold(x) == Step(Append(Pop(v, 2), x), TRUE)
<1>0. Len(v) \in Nat /\ \A y, z : Val(y).tag \in {"VAL", "LOC"} /\ Loc(z, y).tag \in {"VAL", "LOC"}
    BY DEF Stack, Val, Loc
<1>1. CASE Len(v) < 2
    BY <1>1 DEF binary_op
<1>2. CASE Len(v) >= 2
    <2>1. binary_op(op, v) =
              CASE a.tag = "VAL" /\ b.tag = "VAL" /\ Traps(op, b.value) -> Died(v)
                [] a.tag = "VAL" /\ b.tag = "VAL" /\ ~Traps(op, b.value) ->
                       Fold(Val(Compute(op, a.value, b.value)))
                [] a.tag = "VAL" /\ b.tag = "LOC" /\ op = "ADD" ->
                       Fold(Loc(b.section, Wrap(a.value + b.value)))
                [] a.tag = "LOC" /\ b.tag = "VAL" /\ op = "ADD" ->
                       Fold(Loc(a.section, Wrap(a.value + b.value)))
                [] a.tag = "LOC" /\ b.tag = "VAL" /\ op = "SUB" ->
                       Fold(Loc(a.section, Wrap(a.value - b.value)))
                [] InOneSection(a, b) /\ op \in {"SUB", "EQ", "GT", "UGT", "LT", "ULT"} ->
                       Fold(Val(SameSection(op, a.value, b.value)))
                [] OTHER -> Push(v, Op(op))
        BY <1>0, <1>2 DEF binary_op, Step
    <2> HIDE DEF Fold, a, b
    <2>2. \/ binary_op(op, v) = Died(v)
          \/ binary_op(op, v) = Push(v, Op(op))
          \/ \E x : x.tag \in {"VAL", "LOC"} /\ binary_op(op, v) = Fold(x)
        BY <1>0, <2>1
    <2> QED
        BY <1>2, <2>2 DEF Fold, Step
<1> QED
    BY <1>0, <1>1, <1>2 DEF Step

Tags == Operands \cup UnaryOps \cup BinaryOps

(* A step as the code has it: a stack and two flags. *)
IsStep(s) == s = [v |-> s.v, rv |-> s.rv, ok |-> s.ok]

LEMMA FeedFree ==
    ASSUME NEW t, NEW v, t.tag \in Tags, t.tag # "SYM", Free(v)
    PROVE  Free(Feed(t, v).v) /\ IsStep(Feed(t, v))
<1>0. Op(t.tag).tag # "SYM"
    BY DEF Op
<1>1. \A w, f : /\ IsStep(Step(w, f)) /\ Step(w, f).v = w
               /\ IsStep(Died(w)) /\ Died(w).v = w
    BY DEF IsStep, Step, Died
<1>2. \A x : x.tag # "SYM" => IsStep(Push(v, x)) /\ Free(Push(v, x).v)
    BY Pushed DEF Push, Step, IsStep
<1>3. CASE t.tag \in BinaryOps
    <2>1. Feed(t, v) = binary_op(t.tag, v)
        BY <1>3 DEF Feed, BinaryOps, UnaryOps, Operands
    <2>2. CASE Feed(t, v) \in {Died(v), Push(v, Op(t.tag))}
        BY <1>0, <1>1, <1>2, <2>2
    <2>3. ASSUME NEW x, Len(v) >= 2, x.tag \in {"VAL", "LOC"},
                 Feed(t, v) = Step(Append(Pop(v, 2), x), TRUE)
          PROVE  Free(Feed(t, v).v) /\ IsStep(Feed(t, v))
        BY <2>3, Pushed, Popped DEF Step, IsStep
    <2> QED
        BY <2>1, <2>2, <2>3, BinaryShape DEF Free
<1>4. CASE t.tag \in UnaryOps
    <2>1. Feed(t, v) = unary_op(t.tag, v)
        BY <1>4 DEF Feed, BinaryOps, UnaryOps, Operands
    <2> QED
        BY <1>0, <1>1, <1>2, <2>1 DEF unary_op
<1>5. CASE t.tag \in Operands
    <2>1. Feed(t, v) = Push(v, t)
        BY <1>5 DEF Feed, BinaryOps, UnaryOps, Operands
    <2> QED
        BY <1>2, <2>1
<1> QED
    BY <1>3, <1>4, <1>5 DEF Tags

(* An expression without symbols has none when it is folded.               *)
LEMMA FoldFree ==
    ASSUME NEW stack, Free(stack), \A k \in DOMAIN stack : stack[k].tag \in Tags
    PROVE  Free(simplify_expression(stack).v)
<1>1. Len(stack) \in Nat /\ DOMAIN stack = 1 .. Len(stack)
    BY DEF Free, Stack
<1>2. PICK run : /\ run[0] = Started
                 /\ \A j \in 1 .. Len(stack) : run[j] = Turn(stack, j, run[j - 1])
                 /\ simplify_expression(stack) =
                        IF run[Len(stack)].rv THEN run[Len(stack)]
                        ELSE [run[Len(stack)] EXCEPT !.v = stack]
    BY <1>1, LoopEnds
<1> DEFINE Shape(s) == IsStep(s) /\ Free(s.v)
           S        == {n \in Nat : n <= Len(stack) => Shape(run[n])}
<1>3. 0 \in S
    <2>1. << >> \in Seq({})
        OBVIOUS
    <2>2. Free(<< >>)
        BY <2>1 DEF Free, Stack
    <2> QED
        BY <1>2, <2>2 DEF Started, Step, IsStep
<1>4. ASSUME NEW n \in Nat, n \in S, n + 1 <= Len(stack) PROVE Shape(run[n + 1])
    <2> DEFINE s == run[n]
               f == Feed(stack[n + 1], s.v)
    <2>1. /\ n + 1 \in DOMAIN stack /\ n <= Len(stack)
          /\ run[n + 1] = IF s.ok THEN [f EXCEPT !.rv = s.rv \/ f.rv] ELSE s
        <3>1. n + 1 \in 1 .. Len(stack) /\ n + 1 - 1 = n /\ n <= Len(stack)
            BY <1>1, <1>4
        <3>2. run[n + 1] = Turn(stack, n + 1, run[n])
            BY <1>2, <3>1
        <3> QED
            BY <1>1, <3>1, <3>2 DEF Turn
    <2>2. Shape(s)
        BY <1>4, <2>1
    <2>3. Free(f.v) /\ IsStep(f)
        BY <2>1, <2>2, FeedFree DEF Free
    <2> HIDE DEF f, s
    <2>4. \A rv : IsStep([f EXCEPT !.rv = rv]) /\ [f EXCEPT !.rv = rv].v = f.v
        BY <2>3 DEF IsStep
    <2> QED
        BY <2>1, <2>2, <2>3, <2>4
<1>5. \A n \in Nat : n \in S => n + 1 \in S
    <2>1. SUFFICES ASSUME NEW n \in Nat, n \in S PROVE n + 1 \in S
        OBVIOUS
    <2>2. n + 1 <= Len(stack) => Shape(run[n + 1])
        BY <1>4, <2>1
    <2> HIDE DEF Shape
    <2> QED
        BY <2>1, <2>2
<1> HIDE DEF S
<1>6. Shape(run[Len(stack)])
    <2>1. Len(stack) \in S
        BY <1>1, <1>3, <1>5, NatSets
    <2> QED
        BY <1>1, <2>1 DEF S
<1>7. [run[Len(stack)] EXCEPT !.v = stack].v = stack
    BY <1>6 DEF IsStep
<1> QED
    BY <1>2, <1>6, <1>7
=============================================================================
