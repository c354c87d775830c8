----------------------------- MODULE FileProofs -----------------------------
(***************************************************************************)
(* Proofs about save_omf(), for every list of segments, every setting of   *)
(* the flags and whatever goes wrong with the writes: the records in pages *)
(* count in bytes, the pieces of the file are where their headers and      *)
(* ~ExpressLoad lead, and no byte is changed that no record is about.      *)
(***************************************************************************)
EXTENDS OmfLoader, WellFoundedInduction, FiniteSetTheorems, TLAPS

-----------------------------------------------------------------------------
(* Induction and recursion. *)

LEMMA NatSets ==
    ASSUME NEW S, 0 \in S, \A i \in Nat : i \in S => i + 1 \in S
    PROVE  Nat \subseteq S
<1> DEFINE L == OpToRel(<, Nat)
           T == Nat \ S
<1> SUFFICES ASSUME T # {} PROVE FALSE
    OBVIOUS
<1>1. \A x \in Nat : \A y \in Nat : y < x => << y, x >> \in L
    BY DEF OpToRel
<1>2. IsWellFoundedOn(L, Nat)
    BY NatLessThanWellFounded
<1> HIDE DEF L
<1>3. PICK x \in T : \A y \in T : << y, x >> \notin L
    BY <1>2, WFMin
<1>4. x - 1 \in T /\ x - 1 < x
    BY <1>3
<1> QED
    BY <1>1, <1>3, <1>4

(* What takes a value of A to the next, m times, has all these values.     *)
Takes(turn, m, A) == \A j \in 1 .. m, x \in A : turn[<< j, x >>] \in A
Values(t, first, turn, m, A) ==
    /\ t \in [0 .. m -> A] /\ t[0] = first
    /\ \A j \in 1 .. m : t[j] = turn[<< j, t[j - 1] >>]

LEMMA Recursion ==
    ASSUME NEW A, NEW first \in A, NEW m \in Nat, NEW turn, Takes(turn, m, A)
    PROVE  \E t : Values(t, first, turn, m, A)
<1> USE DEF Takes
<1> DEFINE Runs(t, i) == /\ t \in [0 .. i -> A]
                         /\ \A j \in 0 .. i :
                                t[j] = IF j = 0 THEN first ELSE turn[<< j, t[j - 1] >>]
           S == {i \in Nat : i <= m => \E t : Runs(t, i)}
<1>1. 0 \in S
    <2> DEFINE t == [j \in 0 .. 0 |-> first]
    <2>1. Runs(t, 0)
        OBVIOUS
    <2> QED
        BY <2>1
<1>2. ASSUME NEW i \in Nat, i \in S, i + 1 <= m PROVE \E t : Runs(t, i + 1)
    <2>1. PICK t : Runs(t, i)
        BY <1>2
    <2> DEFINE last == turn[<< i + 1, t[i] >>]
               u    == [j \in 0 .. i + 1 |-> IF j = i + 1 THEN last ELSE t[j]]
    <2>2. last \in A
        <3>1. t[i] \in A /\ i + 1 \in 1 .. m
            BY <1>2, <2>1
        <3> QED
            BY <3>1
    <2>3. u \in [0 .. i + 1 -> A]
        BY <2>1, <2>2
    <2>4. ASSUME NEW j \in 0 .. i + 1
          PROVE  u[j] = IF j = 0 THEN first ELSE turn[<< j, u[j - 1] >>]
        <3>1. CASE j = i + 1
            <4>1. i \in 0 .. i + 1 /\ i # i + 1 /\ j - 1 = i /\ j # 0
                BY <3>1
            <4>2. u[j] = last /\ u[j - 1] = t[i]
                BY <3>1, <4>1
            <4> HIDE DEF u
            <4> QED
                BY <3>1, <4>1, <4>2
        <3>2. CASE j # i + 1
            <4>1. j \in 0 .. i /\ (j # 0 => j - 1 \in 0 .. i /\ j - 1 # i + 1)
                BY <3>2
            <4>2. u[j] = t[j] /\ (j # 0 => u[j - 1] = t[j - 1])
                BY <3>2, <4>1
            <4> HIDE DEF u
            <4> QED
                BY <2>1, <4>1, <4>2
        <3> QED
            BY <3>1, <3>2
    <2> HIDE DEF u
    <2> QED
        BY <2>3, <2>4
<1>3. \A i \in Nat : i \in S => i + 1 \in S
    <2>1. SUFFICES ASSUME NEW i \in Nat, i \in S PROVE i + 1 \in S
        OBVIOUS
    <2>2. i + 1 <= m => \E t : Runs(t, i + 1)
        BY <1>2, <2>1
    <2> HIDE DEF Runs
    <2> QED
        BY <2>1, <2>2
<1>4. m \in S
    <2> HIDE DEF S
    <2> QED
        BY <1>1, <1>3, NatSets
<1>5. PICK t : Runs(t, m)
    BY <1>4
<1>6. t[0] = first /\ \A j \in 1 .. m : t[j] = turn[<< j, t[j - 1] >>]
    <2>1. 0 \in 0 .. m /\ \A j \in 1 .. m : j \in 0 .. m /\ j # 0
        OBVIOUS
    <2> QED
        BY <1>5, <2>1
<1> QED
    BY <1>5, <1>6 DEF Values

-----------------------------------------------------------------------------
(* Sums. *)

LEMMA SumRuns ==
    ASSUME NEW m \in Nat, NEW S \in [1 .. m -> Int], Len(S) = m
    PROVE  \E t \in [0 .. m -> Int] : /\ t[0] = 0 /\ Sum(S) = t[m]
                                      /\ \A j \in 1 .. m : t[j] = t[j - 1] + S[j]
<1> DEFINE Runs(t) == t = [j \in 0 .. m |-> IF j = 0 THEN 0 ELSE t[j - 1] + S[j]]
<1>1. PICK turn : \A j \in 1 .. m, x \in Int : turn[<< j, x >>] = x + S[j]
    <2> DEFINE f == [p \in (1 .. m) \X Int |-> p[2] + S[p[1]]]
    <2>1. \A j \in 1 .. m, x \in Int : f[<< j, x >>] = x + S[j]
        OBVIOUS
    <2> HIDE DEF f
    <2> QED
        BY <2>1
<1>2. PICK t \in [0 .. m -> Int] :
          t[0] = 0 /\ \A j \in 1 .. m : t[j] = turn[<< j, t[j - 1] >>]
    <2>1. 0 \in Int /\ Takes(turn, m, Int)
        BY <1>1 DEF Takes
    <2> HIDE DEF Runs
    <2>2. \E t : Values(t, 0, turn, m, Int)
        BY <2>1, Recursion
    <2> QED
        BY <2>2 DEF Values
<1>3. \A j \in 1 .. m : turn[<< j, t[j - 1] >>] = t[j - 1] + S[j]
    <2>1. \A j \in 1 .. m : j - 1 \in 0 .. m /\ t[j - 1] \in Int
        OBVIOUS
    <2> QED
        BY <1>1, <2>1
<1>4. Runs(t)
    <2>1. t = [j \in 0 .. m |-> t[j]]
        OBVIOUS
    <2>2. \A j \in 0 .. m : t[j] = IF j = 0 THEN 0 ELSE t[j - 1] + S[j]
        <3>1. \A j \in 0 .. m : j # 0 => j \in 1 .. m
            OBVIOUS
        <3> QED
            BY <1>2, <1>3, <3>1
    <2> QED
        BY <2>1, <2>2
<1> DEFINE total == CHOOSE u : Runs(u)
<1>5. Runs(total)
    <2> HIDE DEF Runs
    <2> QED
        BY <1>4
<1>6. Sum(S) = total[m]
    BY DEF Sum
<1> HIDE DEF total
<1>7. total[0] = 0 /\ \A j \in 1 .. m : total[j] = total[j - 1] + S[j]
    BY <1>5
<1>8. DOMAIN total = 0 .. m
    BY <1>5
<1> DEFINE M == {i \in Nat : i <= m => total[i] \in Int}
<1>9. \A i \in 0 .. m : total[i] \in Int
    <2>1. 0 \in M
        BY <1>7
    <2>2. \A i \in Nat : i \in M => i + 1 \in M
        <3>1. SUFFICES ASSUME NEW i \in Nat, i \in M, i + 1 <= m PROVE total[i + 1] \in Int
            OBVIOUS
        <3>2. total[i + 1] = total[i] + S[i + 1] /\ total[i] \in Int /\ S[i + 1] \in Int
            BY <1>7, <3>1
        <3> QED
            BY <3>2
    <2>3. Nat \subseteq M
        <3> HIDE DEF M
        <3> QED
            BY <2>1, <2>2, NatSets
    <2> QED
        BY <2>3
<1>10. total \in [0 .. m -> Int]
    <2>1. total = [j \in 0 .. m |-> total[j]]
        BY <1>5
    <2> QED
        BY <1>9, <2>1
<1> QED
    BY <1>6, <1>7, <1>10
LEMMA Lengths ==
    ASSUME NEW m \in Nat, NEW A, NEW f \in [1 .. m -> A]
    PROVE  f \in Seq(A) /\ Len(f) = m
OBVIOUS

LEMMA SumIsNumber ==
    ASSUME NEW m \in Nat, NEW S \in [1 .. m -> Int]
    PROVE  Sum(S) \in Int /\ (m = 0 => Sum(S) = 0)
<1>1. Len(S) = m
    BY Lengths
<1>2. PICK t \in [0 .. m -> Int] : t[0] = 0 /\ Sum(S) = t[m]
    BY <1>1, SumRuns
<1> QED
    BY <1>2

LEMMA SumOneMore ==
    ASSUME NEW m \in Nat, NEW T \in [1 .. m -> Int], NEW S \in [1 .. m + 1 -> Int],
           \A j \in 1 .. m : S[j] = T[j]
    PROVE  Sum(S) = Sum(T) + S[m + 1]
<1>1. Len(T) = m /\ Len(S) = m + 1 /\ m + 1 \in Nat
    BY Lengths
<1>2. PICK t \in [0 .. m -> Int] : /\ t[0] = 0 /\ Sum(T) = t[m]
                                   /\ \A j \in 1 .. m : t[j] = t[j - 1] + T[j]
    BY <1>1, SumRuns
<1>3. PICK s \in [0 .. m + 1 -> Int] :
          /\ s[0] = 0 /\ Sum(S) = s[m + 1]
          /\ \A j \in 1 .. m + 1 : s[j] = s[j - 1] + S[j]
    BY <1>1, SumRuns
<1> DEFINE M == {i \in Nat : i <= m => s[i] = t[i]}
<1>4. 0 \in M
    BY <1>2, <1>3
<1>5. \A i \in Nat : i \in M => i + 1 \in M
    <2>1. SUFFICES ASSUME NEW i \in Nat, i \in M, i + 1 <= m PROVE s[i + 1] = t[i + 1]
        OBVIOUS
    <2>2. i + 1 \in 1 .. m /\ i + 1 \in 1 .. m + 1 /\ i + 1 - 1 = i
        BY <2>1
    <2>3. s[i + 1] = s[i] + S[i + 1] /\ t[i + 1] = t[i] + T[i + 1]
        BY <1>2, <1>3, <2>2
    <2> QED
        BY <2>1, <2>2, <2>3
<1>6. m \in M
    <2> HIDE DEF M
    <2> QED
        BY <1>4, <1>5, NatSets
<1>7. s[m + 1] = s[m] + S[m + 1]
    <2>1. m + 1 \in 1 .. m + 1 /\ m + 1 - 1 = m
        OBVIOUS
    <2> QED
        BY <1>3, <2>1
<1> QED
    BY <1>2, <1>3, <1>6, <1>7

LEMMA SumIsNatural ==
    ASSUME NEW m \in Nat, NEW S \in [1 .. m -> Nat]
    PROVE  Sum(S) \in Nat
<1>1. Len(S) = m /\ S \in [1 .. m -> Int]
    BY Lengths
<1>2. PICK t \in [0 .. m -> Int] : /\ t[0] = 0 /\ Sum(S) = t[m]
                                   /\ \A j \in 1 .. m : t[j] = t[j - 1] + S[j]
    BY <1>1, SumRuns
<1> DEFINE M == {i \in Nat : i <= m => t[i] \in Nat}
<1>3. 0 \in M
    BY <1>2
<1>4. \A i \in Nat : i \in M => i + 1 \in M
    <2>1. SUFFICES ASSUME NEW i \in Nat, i \in M, i + 1 <= m PROVE t[i + 1] \in Nat
        OBVIOUS
    <2>2. i + 1 \in 1 .. m /\ i + 1 - 1 = i
        BY <2>1
    <2>3. t[i + 1] = t[i] + S[i + 1] /\ S[i + 1] \in Nat
        BY <1>2, <2>2
    <2> QED
        BY <2>1, <2>3
<1>5. m \in M
    <2> HIDE DEF M
    <2> QED
        BY <1>3, <1>4, NatSets
<1> QED
    BY <1>2, <1>5

-----------------------------------------------------------------------------
(* Bytes and pages. *)

LEMMA Division ==
    ASSUME NEW a \in Int, NEW b \in Int, b > 0
    PROVE  /\ a \div b \in Int /\ a % b \in 0 .. b - 1 /\ a = b * (a \div b) + (a % b)
           /\ a >= 0 => a \div b \in Nat
<1>1. a \div b \in Int /\ a % b \in 0 .. b - 1
    OBVIOUS
<1>2. a = b * (a \div b) + (a % b)
    OBVIOUS
<1>3. ASSUME a >= 0, NEW q \in Int, NEW r \in 0 .. b - 1, a = b * q + r PROVE q >= 0
    <2>1. SUFFICES ASSUME q <= -1 PROVE FALSE
        BY <1>3
    <2>2. b * (q + 1) <= 0
        BY <2>1
    <2>3. b * (q + 1) = b * q + b
        OBVIOUS
    <2> QED
        BY <1>3, <2>2, <2>3
<1> QED
    BY <1>1, <1>2, <1>3

LEMMA ByteFacts ==
    /\ Byte \in Nat /\ SkipFlag \in Nat /\ SkipFlag >= 2 /\ Byte = 2 * SkipFlag
<1>1. PICK b \in 2 .. 128 : Byte = 2 * b
    BY FileAssumption
<1>2. SkipFlag = b
    BY <1>1 DEF SkipFlag
<1> QED
    BY <1>1, <1>2
LEMMA Pages ==
    ASSUME NEW x \in Nat
    PROVE  /\ x \div Byte \in Nat /\ x % Byte \in 0 .. Byte - 1
           /\ x = Byte * (x \div Byte) + (x % Byte)
<1>1. x \in Int /\ x >= 0 /\ Byte \in Int /\ Byte > 0
    BY ByteFacts
<1> QED
    BY <1>1, Division

(* Sequences. *)
LEMMA OneByte ==
    ASSUME NEW A, NEW e \in A
    PROVE  << e >> \in Seq(A)
OBVIOUS

LEMMA AppendedByte ==
    ASSUME NEW A, NEW s \in Seq(A), NEW e \in A
    PROVE  Append(s, e) \in Seq(A)
OBVIOUS

LEMMA ChangedByte ==
    ASSUME NEW A, NEW s \in Seq(A), NEW j, NEW e \in A
    PROVE  [s EXCEPT ![j] = e] \in Seq(A)
<1>1. Len(s) \in Nat /\ s \in [1 .. Len(s) -> A]
    OBVIOUS
<1>2. [s EXCEPT ![j] = e] \in [1 .. Len(s) -> A]
    BY <1>1
<1> QED
    BY <1>1, <1>2, Lengths

LEMMA JoinedBytes ==
    ASSUME NEW A, NEW s \in Seq(A), NEW t \in Seq(A)
    PROVE  s \o t \in Seq(A)
OBVIOUS

(* Skips are bytes that skip. *)
LEMMA SkipsAreBytes ==
    ASSUME NEW skip \in Nat
    PROVE  Skips(skip) \in Seq(0 .. Byte - 1)
<1>1. PICK f : f = SkipFlag
    OBVIOUS
<1>2. f \in Nat /\ f >= 2 /\ Byte = 2 * f
    BY <1>1, ByteFacts
<1> DEFINE full == IF skip < f THEN 0 ELSE (skip - f) \div (f - 1) + 1
           rest == skip - full * (f - 1)
<1>3. full \in Nat /\ rest <= f - 1
    <2>1. CASE skip < f
        BY <1>2, <2>1
    <2>2. CASE skip >= f
        <3>1. PICK b \in Int : b = f - 1 /\ b > 0
            BY <1>2
        <3>2. PICK q : q = (skip - f) \div b
            OBVIOUS
        <3>3. PICK r : r = (skip - f) % b
            OBVIOUS
        <3>4. skip - f \in Int /\ skip - f >= 0
            BY <1>2, <2>2
        <3>5. q \in Nat /\ r \in 0 .. b - 1 /\ skip - f = b * q + r
            BY <3>1, <3>2, <3>3, <3>4, Division
        <3>6. full = q + 1
            BY <1>2, <2>2, <3>1, <3>2
        <3>7. (q + 1) * b = b * q + b
            BY <3>1, <3>5
        <3>8. rest = skip - (q + 1) * b
            BY <3>1, <3>6
        <3> QED
            BY <1>2, <3>1, <3>4, <3>5, <3>6, <3>7, <3>8
    <2> QED
        BY <1>2, <2>1, <2>2
<1>4. rest \in Int
    BY <1>2, <1>3
<1>5. Skips(skip) = [j \in 1 .. full |-> Byte - 1]
                        \o (IF rest > 0 THEN << f + rest >> ELSE << >>)
    BY <1>1 DEF Skips
<1> HIDE DEF full, rest
<1>6. PICK s : s = [j \in 1 .. full |-> Byte - 1]
    OBVIOUS
<1>7. s \in Seq(0 .. Byte - 1)
    <2>1. Byte - 1 \in 0 .. Byte - 1
        BY <1>2
    <2>2. s \in [1 .. full -> 0 .. Byte - 1]
        BY <1>6, <2>1
    <2> QED
        BY <1>3, <2>2, Lengths
<1>8. PICK last : last = IF rest > 0 THEN << f + rest >> ELSE << >>
    OBVIOUS
<1>9. last \in Seq(0 .. Byte - 1)
    <2>1. rest > 0 => f + rest \in 0 .. Byte - 1
        BY <1>2, <1>3, <1>4
    <2>2. CASE rest > 0
        <3>1. PICK b : b = f + rest
            OBVIOUS
        <3>2. b \in 0 .. Byte - 1 /\ last = << b >>
            BY <1>8, <2>1, <2>2, <3>1
        <3> QED
            BY <3>2, OneByte
    <2>3. CASE ~(rest > 0)
        BY <1>8, <2>3
    <2> QED
        BY <2>2, <2>3
<1>10. s \o last \in Seq(0 .. Byte - 1)
    BY <1>7, <1>9, JoinedBytes
<1> QED
    BY <1>5, <1>6, <1>8, <1>10

-----------------------------------------------------------------------------
(* super_helper::append(). *)

(* What is in a helper takes up two bytes a record of the page, which are  *)
(* before those of the records to come.                                    *)
IsHelper(h) == h \in [data: Seq(0 .. Byte - 1), page: Nat, count: 0 .. SkipFlag]
Behind(h, x) == h.page * Byte + 2 * h.count <= x

LEMMA NoHelper ==
    ASSUME NEW x \in Nat
    PROVE  IsHelper(Helper) /\ Behind(Helper, x)
<1>1. << >> \in Seq(0 .. Byte - 1) /\ 0 \in 0 .. SkipFlag /\ 0 * Byte + 2 * 0 <= x
    BY ByteFacts
<1> QED
    BY <1>1 DEF IsHelper, Behind, Helper

LEMMA BehindLater ==
    ASSUME NEW h, IsHelper(h), NEW x \in Nat, NEW y \in Nat, Behind(h, x), x <= y
    PROVE  Behind(h, y)
<1>1. h.page \in Nat /\ h.count \in 0 .. SkipFlag
    BY DEF IsHelper
<1>2. h.page * Byte + 2 * h.count \in Int
    BY <1>1, ByteFacts
<1> QED
    BY <1>2 DEF Behind

LEMMA TooFar ==
    ASSUME NEW q \in Nat, NEW c \in Nat, NEW b \in Nat, NEW p \in Nat, NEW o \in Nat,
           q * b + 2 * c <= b * p + o, o <= b - 1, q >= p + 1
    PROVE  FALSE
<1>1. PICK d \in Nat : q = p + 1 + d
    <2>1. q - p - 1 \in Nat /\ q = p + 1 + (q - p - 1)
        OBVIOUS
    <2> QED
        BY <2>1
<1>2. q * b = b * p + b + d * b
    BY <1>1
<1>3. b * p \in Nat /\ d * b \in Nat
    OBVIOUS
<1> QED
    BY <1>2, <1>3

(* The records come in the order of their offsets and take two bytes or    *)
(* more, so no page has more of them than SkipFlag, and no page comes      *)
(* before the one in hand.                                                 *)
LEMMA AppendedFits ==
    ASSUME NEW h, IsHelper(h), NEW x \in Nat, Behind(h, x)
    PROVE  IsHelper(Appended(h, x)) /\ Behind(Appended(h, x), x + 2)
<1>1. /\ h.data \in Seq(0 .. Byte - 1) /\ h.page \in Nat /\ h.count \in 0 .. SkipFlag
      /\ h = [data |-> h.data, page |-> h.page, count |-> h.count]
    BY DEF IsHelper
<1>2. Byte \in Nat /\ SkipFlag \in Nat /\ SkipFlag >= 2 /\ Byte = 2 * SkipFlag
    BY ByteFacts
<1>3. PICK p \in Nat, o \in 0 .. Byte - 1 : p = x \div Byte /\ o = x % Byte /\ x = Byte * p + o
    BY Pages
<1>4. h.page * Byte + 2 * h.count <= Byte * p + o
    BY <1>3 DEF Behind
<1>5. h.page <= p
    <2>1. PICK q \in Nat, c \in Nat, b \in Nat : q = h.page /\ c = h.count /\ b = Byte
        BY <1>1, <1>2
    <2>2. SUFFICES ASSUME q >= p + 1 PROVE FALSE
        BY <1>3, <2>1
    <2>3. q * b + 2 * c <= b * p + o
        BY <1>4, <2>1
    <2>4. o <= b - 1 /\ o \in Nat
        BY <1>2, <1>3, <2>1
    <2> QED
        BY <2>2, <2>3, <2>4, TooFar
<1>6. PICK t : t = Turned(h, p)
    OBVIOUS
<1>7. /\ t.data \in Seq(0 .. Byte - 1) /\ t.page = p /\ t.count \in 0 .. SkipFlag - 1
      /\ t = [data |-> t.data, page |-> t.page, count |-> t.count]
      /\ 2 * t.count <= o
    <2>1. CASE p = h.page
        <3>1. t = h
            BY <1>6, <2>1 DEF Turned
        <3>2. h.page * Byte = Byte * p /\ Byte * p \in Nat
            BY <1>2, <1>3, <2>1
        <3>3. 2 * h.count <= o
            BY <1>1, <1>2, <1>3, <1>4, <3>2
        <3> QED
            BY <1>1, <1>2, <1>3, <2>1, <3>1, <3>3
    <2>2. CASE p # h.page
        <3>1. PICK skip \in Nat : skip = p - h.page - (IF h.count > 0 THEN 1 ELSE 0)
            BY <1>1, <1>3, <1>5, <2>2
        <3>2. t = [data |-> h.data \o Skips(skip), page |-> p, count |-> 0]
            BY <1>6, <2>2, <3>1 DEF Turned
        <3>3. h.data \o Skips(skip) \in Seq(0 .. Byte - 1)
            BY <1>1, <3>1, SkipsAreBytes, JoinedBytes
        <3>4. /\ t.data = h.data \o Skips(skip) /\ t.page = p /\ t.count = 0
              /\ t = [data |-> t.data, page |-> t.page, count |-> t.count]
            BY <3>2
        <3>5. 0 \in 0 .. SkipFlag - 1 /\ 2 * 0 <= o
            BY <1>2, <1>3
        <3> QED
            BY <3>3, <3>4, <3>5
    <2> QED
        BY <2>1, <2>2
<1>8. PICK counted : counted = IF t.count = 0 THEN Append(t.data, 0)
                               ELSE [t.data EXCEPT ![Len(t.data) - t.count] = t.count]
    OBVIOUS
<1>9. Appended(h, x) =
          [data |-> Append(counted, o), page |-> t.page, count |-> t.count + 1]
    BY <1>3, <1>6, <1>8 DEF Appended
<1>10. counted \in Seq(0 .. Byte - 1)
    <2>1. 0 \in 0 .. Byte - 1 /\ t.count \in 0 .. Byte - 1
        BY <1>2, <1>7
    <2>2. Append(t.data, 0) \in Seq(0 .. Byte - 1)
        BY <1>7, <2>1, AppendedByte
    <2>3. [t.data EXCEPT ![Len(t.data) - t.count] = t.count] \in Seq(0 .. Byte - 1)
        BY <1>7, <2>1, ChangedByte
    <2> QED
        BY <1>8, <2>2, <2>3
<1>11. Append(counted, o) \in Seq(0 .. Byte - 1)
    BY <1>3, <1>10, AppendedByte
<1>12. Appended(h, x) = [data |-> Append(counted, o), page |-> p, count |-> t.count + 1]
    BY <1>7, <1>9
<1>13. t.count + 1 \in 0 .. SkipFlag
    <2>1. PICK c : c = t.count
        OBVIOUS
    <2>2. c \in 0 .. SkipFlag - 1
        BY <1>7, <2>1
    <2>3. c + 1 \in 0 .. SkipFlag
        BY <1>2, <2>2
    <2> QED
        BY <2>1, <2>3
<1>14. IsHelper(Appended(h, x))
    <2>1. PICK d \in Seq(0 .. Byte - 1) : d = Append(counted, o)
        BY <1>11
    <2>2. PICK c \in 0 .. SkipFlag : c = t.count + 1
        BY <1>13
    <2>3. Appended(h, x) = [data |-> d, page |-> p, count |-> c]
        BY <1>12, <2>1, <2>2
    <2>4. [data |-> d, page |-> p, count |-> c]
              \in [data: Seq(0 .. Byte - 1), page: Nat, count: 0 .. SkipFlag]
        OBVIOUS
    <2> QED
        BY <2>3, <2>4 DEF IsHelper
<1>15. p * Byte + 2 * (t.count + 1) <= x + 2
    <2>1. p * Byte = Byte * p /\ Byte * p \in Nat
        BY <1>2, <1>3
    <2> QED
        BY <1>2, <1>3, <1>7, <2>1, SMTT(40)
<1>16. PICK g : g = Appended(h, x)
    OBVIOUS
<1>17. g.page = p /\ g.count = t.count + 1
    BY <1>12, <1>16
<1>18. g.page * Byte + 2 * g.count <= x + 2
    BY <1>15, <1>17
<1> QED
    BY <1>14, <1>16, <1>18 DEF Behind

-----------------------------------------------------------------------------
(* Lists of anything. *)
IsList(s, m) == s = [j \in 1 .. m |-> s[j]]

LEMMA ListLength ==
    ASSUME NEW m \in Nat, NEW s, IsList(s, m)
    PROVE  DOMAIN s = 1 .. m /\ Len(s) = m /\ s \in Seq({s[j] : j \in 1 .. m})
           /\ (s # << >> => m # 0)
<1> DEFINE A == {s[j] : j \in 1 .. m}
<1>1. s \in [1 .. m -> A]
    <2>1. \A j \in 1 .. m : s[j] \in A
        OBVIOUS
    <2> HIDE DEF A
    <2> QED
        BY <2>1 DEF IsList
<1>2. s \in Seq(A) /\ Len(s) = m /\ DOMAIN s = 1 .. m
    <2> HIDE DEF A
    <2> QED
        BY <1>1, Lengths
<1>3. m = 0 => s = << >>
    <2> HIDE DEF A
    <2> QED
        BY <1>2
<1> QED
    BY <1>2, <1>3

(* t is s with e after or before its m elements. *)
Extended(t, s, e, m) ==
    IsList(t, m + 1) /\ t[m + 1] = e /\ \A j \in 1 .. m : t[j] = s[j]
Preceded(t, s, e, m) ==
    IsList(t, m + 1) /\ t[1] = e /\ \A j \in 1 .. m : t[j + 1] = s[j]

LEMMA ListGrows ==
    ASSUME NEW m \in Nat, NEW s, IsList(s, m), NEW e
    PROVE  Extended(Append(s, e), s, e, m)
<1>1. PICK A : A = {s[j] : j \in 1 .. m} \cup {e}
    OBVIOUS
<1>2. s \in Seq(A) /\ e \in A /\ Len(s) = m
    <2>1. s \in [1 .. m -> A]
        BY <1>1 DEF IsList
    <2> QED
        BY <1>1, <2>1, Lengths
<1> QED
    BY <1>2 DEF IsList, Extended

LEMMA ListAfterOne ==
    ASSUME NEW m \in Nat, NEW s, IsList(s, m), NEW e
    PROVE  Preceded(<< e >> \o s, s, e, m)
<1>1. PICK A : A = {s[j] : j \in 1 .. m} \cup {e}
    OBVIOUS
<1>2. s \in Seq(A) /\ e \in A /\ Len(s) = m
    <2>1. s \in [1 .. m -> A]
        BY <1>1 DEF IsList
    <2> QED
        BY <1>1, <2>1, Lengths
<1>3. << e >> \in Seq(A) /\ Len(<< e >>) = 1
    BY <1>2
<1> QED
    BY <1>2, <1>3 DEF IsList, Preceded

LEMMA ListsAre ==
    ASSUME NEW A, NEW s \in Seq(A)
    PROVE  IsList(s, Len(s)) /\ Len(s) \in Nat
BY DEF IsList

-----------------------------------------------------------------------------
(* The invariant of save_omf(). *)

Saving == step \in {"relocs", "intersegs", "write"}
Opened == step \notin {"start", "cantcreat"}

(* The loops are where the segments are; the segments differ from the      *)
(* link's in their numbers only.                                           *)
LoopInv ==
    /\ step \in {"start", "segment", "relocs", "intersegs", "write", "closed", "cantcreat"}
    /\ v1 \in BOOLEAN /\ expressload \in BOOLEAN /\ (v1 => ~expressload)
    /\ IsLink(given)
    /\ segments = IF Opened /\ expressload
                  THEN [j \in DOMAIN given |-> Renumbered(given[j])] ELSE given
    /\ n \in 1 .. Len(given) + 1 /\ k \in Nat \ {0}
    /\ ~Opened => n = 1
    /\ Saving => n \in DOMAIN given
    /\ step = "closed" => n = Len(given) + 1

(* The relocations of the segment in hand have helpers of their own, and   *)
(* what is in a helper is before the records to come.                      *)
OwnKinds == {SUPER_RELOC2, SUPER_RELOC3, SUPER_INTERSEG(24 + Segment.segnum)}
Ahead(h, list) == \A i \in DOMAIN list : i >= k => Behind(h, list[i].offset)

HelperInv ==
    /\ DOMAIN ss = SuperKinds /\ ss = [j \in SuperKinds |-> ss[j]]
    /\ \A j \in SuperKinds : IsHelper(ss[j])
    /\ step = "relocs" =>
           \A j \in SuperKinds : /\ j \notin OwnKinds => ss[j] = Helper
                                 /\ Ahead(ss[j], Segment.relocs)
    /\ step = "intersegs" =>
           \A j \in SuperKinds \ OwnKinds : Ahead(ss[j], Segment.intersegs)

(* The records of a file. *)
SuperRecord == [op: {"SUPER"}, kind: SuperKinds, data: Seq(0 .. Byte - 1)]
FileRecord ==
    SuperRecord
    \cup [op: {"cRELOC", "RELOC"}, size: Nat, shift: Int, offset: Nat, value: Nat]
    \cup [op: {"cINTERSEG", "INTERSEG"}, size: Nat, shift: Int, offset: Nat,
          segment: Nat, segment_offset: Nat]

(* The bytes d of segment j are those of the link, but for its records.    *)
Held(j) == UNION {{r.offset + b : b \in 1 .. r.size} :
                  r \in Range(given[j].relocs) \cup Range(given[j].intersegs)}
Faithful(d, j) ==
    /\ IsList(d, Len(given[j].data))
    /\ \A b \in DOMAIN given[j].data \ Held(j) : d[b] = given[j].data[b]

BytesInv == Saving => Faithful(data, n) /\ records \in Seq(FileRecord)

(* A piece is a segment with its header. *)
IsPiece(p, j) ==
    /\ Faithful(p.data, j) /\ p.records \in Seq(FileRecord)
    /\ p.at \in Nat /\ p.segnum = segments[j].segnum
    /\ p.dispdata = Displacement(given[j].segname)
    /\ p.size = p.dispdata + 5 + Len(p.data) + SizeOfRecords(p.records) + 1
    /\ p.bytecount = IF v1 THEN Blocks(p.size) ELSE p.size

PieceInv ==
    /\ IsList(file, n - 1 + First)
    /\ \A j \in 1 .. n - 1 : IsPiece(Piece(j), j)

(* Segment j goes, or went, to `at': after the room for ~ExpressLoad,      *)
(* after a piece that is whole, or to the start of a block.                *)
Clean(m) == \A i \in 1 .. m : ~Piece(i).failed
Follows(j, at) ==
    /\ j = 1 => at = IF expressload THEN ExpressSize(given) ELSE 0
    /\ j > 1 /\ Piece(j - 1).whole =>
           LET end == Piece(j - 1).at + Piece(j - 1).size
           IN  /\ ~v1 => at = end
               /\ v1 /\ j <= Len(given) /\ Piece(j - 1).padded /\ Clean(j - 2) =>
                      at = end + BlockSize - (end % BlockSize)
    /\ v1 /\ j <= Len(given) /\ (j > 1 => Piece(j - 1).padded) /\ Clean(j - 1) =>
           at % BlockSize = 0

PlaceInv ==
    /\ offset \in Int /\ position \in Nat /\ faults \in 0 .. MaxFaults
    /\ step = "start" => offset = 0 /\ position = 0
    /\ Opened =>
           /\ \A j \in 1 .. n - 1 : Follows(j, Piece(j).at)
           /\ step # "closed" => /\ Follows(n, position)
                                 /\ Clean(n - 1) => offset = position

(* What the directory says of segment j. *)
EntrySize(j) == EntryFixed - 1 + Written(given[j].segname)
HeadersSize(m) == Sum([j \in 1 .. m |-> EntrySize(j)])
IsEntry(h, p, j) ==
    LET text == p.at + p.dispdata + 5
    IN  /\ h.size = EntrySize(j) /\ h.segnum = p.segnum
        /\ h.lconst_size = Len(p.data) /\ h.reloc_size = SizeOfRecords(p.records)
        /\ Clean(j - 1) =>
               /\ p.data # << >> => h.lconst_offset = text
               /\ p.records # << >> => h.reloc_offset = text + Len(p.data)

(* ~ExpressLoad, for the entries that were kept. *)
IsExpress(p) ==
    /\ p.at = 0 /\ p.bytecount = p.size
    /\ p.size = HeaderSize + Load + ExpressName + 1 + 6 + 6
                + HeadersSize(Len(given)) + 10 * Len(given)
    /\ p.headers = expr_headers
    /\ p.map = [j \in DOMAIN given |-> segments[j].segnum]
    /\ p.list = [j \in DOMAIN given |-> Distance(j) % (Byte * Byte)]

ExpressInv ==
    expressload =>
        /\ IsList(expr_headers, n - 1) /\ IsList(expr_offsets, n - 1)
        /\ \A j \in 1 .. n - 1 : /\ IsEntry(expr_headers[j], Piece(j), j)
                                 /\ expr_offsets[j] = HeadersSize(j - 1)
        /\ step = "closed" => IsExpress(file[1])

FileInv == LoopInv /\ HelperInv /\ BytesInv /\ PieceInv /\ PlaceInv /\ ExpressInv

-----------------------------------------------------------------------------
(* What the segments that are written have of the link's. *)
Alike(s, g) ==
    /\ s.segname = g.segname /\ s.data = g.data /\ s.relocs = g.relocs
    /\ s.segnum \in Nat \ {0} /\ s.intersegs \in Seq(InterSeg)
    /\ InOrder(s.intersegs) /\ Len(s.intersegs) = Len(g.intersegs)
    /\ \A i \in DOMAIN g.intersegs :
           /\ s.intersegs[i].offset = g.intersegs[i].offset
           /\ s.intersegs[i].size = g.intersegs[i].size
           /\ s.intersegs[i].segment # s.segnum

LEMMA RenumberedAlike ==
    ASSUME NEW g \in LinkSegment, g.segnum \in Nat \ {0}, InOrder(g.intersegs),
           \A i \in DOMAIN g.intersegs : g.intersegs[i].segment # g.segnum
    PROVE  Alike(Renumbered(g), g)
<1>1. PICK s : s = Renumbered(g)
    OBVIOUS
<1>2. PICK old : old = g.intersegs
    OBVIOUS
<1> DEFINE new == [j \in DOMAIN old |-> [old[j] EXCEPT !.segment = @ + 1]]
<1>3. /\ s.segname = g.segname /\ s.segnum = g.segnum + 1 /\ s.data = g.data
      /\ s.relocs = g.relocs /\ s.intersegs = new
    BY <1>1, <1>2 DEF Renumbered, LinkSegment
<1>4. old \in Seq(InterSeg)
    BY <1>2 DEF LinkSegment
<1>5. \A j \in DOMAIN old :
          /\ new[j] \in InterSeg /\ new[j].offset = old[j].offset
          /\ new[j].size = old[j].size /\ new[j].segment = old[j].segment + 1
    <2>1. SUFFICES ASSUME NEW j \in DOMAIN old
                   PROVE  /\ new[j] \in InterSeg /\ new[j].offset = old[j].offset
                          /\ new[j].size = old[j].size
                          /\ new[j].segment = old[j].segment + 1
        OBVIOUS
    <2>2. PICK r \in InterSeg : r = old[j]
        BY <1>4
    <2>3. new[j] = [r EXCEPT !.segment = r.segment + 1]
        BY <2>2
    <2>4. r.segment + 1 \in Nat \ {0}
        BY DEF InterSeg
    <2> HIDE DEF new
    <2> QED
        BY <2>2, <2>3, <2>4 DEF InterSeg
<1>6. Len(old) \in Nat /\ DOMAIN old = 1 .. Len(old) /\ DOMAIN new = DOMAIN old
    BY <1>4
<1>7. new \in [1 .. Len(old) -> InterSeg]
    BY <1>5, <1>6
<1>8. new \in Seq(InterSeg) /\ Len(new) = Len(old)
    <2> HIDE DEF new
    <2> QED
        BY <1>6, <1>7, Lengths
<1>9. InOrder(new)
    <2> HIDE DEF new
    <2> QED
        BY <1>2, <1>5, <1>6 DEF InOrder
<1>10. \A i \in DOMAIN old : new[i].segment # g.segnum + 1
    <2>1. ASSUME NEW i \in DOMAIN old PROVE old[i].segment \in Nat
        <3>1. old[i] \in InterSeg
            BY <1>4
        <3> QED
            BY <3>1 DEF InterSeg
    <2> HIDE DEF new
    <2> QED
        BY <1>2, <1>5, <2>1
<1> HIDE DEF new
<1> QED
    BY <1>1, <1>2, <1>3, <1>5, <1>6, <1>8, <1>9, <1>10 DEF Alike

LEMMA SegmentsAlike ==
    ASSUME LoopInv
    PROVE  /\ given \in Seq(LinkSegment) /\ DOMAIN given = 1 .. Len(given)
           /\ Len(given) \in Nat /\ DOMAIN segments = DOMAIN given
           /\ Len(segments) = Len(given)
           /\ \A j \in DOMAIN given : given[j] \in LinkSegment /\ Alike(segments[j], given[j])
<1>1. given \in Seq(LinkSegment)
    BY DEF LoopInv, IsLink
<1>2. DOMAIN given = 1 .. Len(given) /\ Len(given) \in Nat
    BY <1>1
<1>3. /\ DOMAIN segments = DOMAIN given /\ Len(segments) = Len(given)
    <2>1. CASE Opened /\ expressload
        <3>1. segments = [j \in DOMAIN given |-> Renumbered(given[j])]
            BY <2>1 DEF LoopInv
        <3>2. DOMAIN segments = DOMAIN given /\ IsList(segments, Len(given))
            BY <1>2, <3>1 DEF IsList
        <3> QED
            BY <1>2, <3>2, ListLength
    <2>2. CASE ~(Opened /\ expressload)
        BY <2>2 DEF LoopInv
    <2> QED
        BY <2>1, <2>2
<1>4. ASSUME NEW j \in DOMAIN given
      PROVE  given[j] \in LinkSegment /\ Alike(segments[j], given[j])
    <2>1. PICK g : g = given[j]
        OBVIOUS
    <2>2. g \in LinkSegment
        BY <1>1, <1>4, <2>1
    <2>3. /\ g.segnum = j /\ InOrder(g.intersegs)
          /\ \A i \in DOMAIN g.intersegs : g.intersegs[i].segment # j
        BY <1>4, <2>1 DEF LoopInv, IsLink
    <2>4. j \in Nat \ {0}
        BY <1>2, <1>4
    <2>5. CASE Opened /\ expressload
        <3>1. segments[j] = Renumbered(g)
            BY <1>4, <2>1, <2>5 DEF LoopInv
        <3> QED
            BY <2>1, <2>2, <2>3, <2>4, <3>1, RenumberedAlike
    <2>6. CASE ~(Opened /\ expressload)
        <3>1. segments[j] = g
            BY <2>1, <2>6 DEF LoopInv
        <3>2. g.intersegs \in Seq(InterSeg)
            BY <2>2 DEF LinkSegment
        <3> QED
            BY <2>1, <2>2, <2>3, <2>4, <3>1, <3>2 DEF Alike
    <2> QED
        BY <2>5, <2>6
<1> QED
    BY <1>1, <1>2, <1>3, <1>4

(* The pieces that there are stay. *)
Kept(m) == /\ UNCHANGED << given, v1, expressload >>
           /\ \A i \in 1 .. m : Piece(i)' = Piece(i)

LEMMA KeptClean ==
    ASSUME NEW m \in Nat, Kept(m), NEW j \in Int, j <= m
    PROVE  Clean(j)' <=> Clean(j)
<1>1. \A i \in 1 .. j : i \in 1 .. m
    OBVIOUS
<1> QED
    BY <1>1 DEF Kept, Clean

LEMMA KeptFollows ==
    ASSUME NEW m \in Nat, Kept(m), NEW j \in 1 .. m + 1, NEW at, Follows(j, at)
    PROVE  Follows(j, at)'
<1>1. /\ given' = given /\ v1' = v1 /\ expressload' = expressload
      /\ \A i \in 1 .. m : Piece(i)' = Piece(i)
    BY DEF Kept
<1>2. j - 2 \in Int /\ j - 2 <= m /\ j - 1 \in Int /\ j - 1 <= m
    OBVIOUS
<1>3. (Clean(j - 2)' <=> Clean(j - 2)) /\ (Clean(j - 1)' <=> Clean(j - 1))
    BY <1>2, KeptClean
<1>4. j > 1 => Piece(j - 1)' = Piece(j - 1)
    <2>1. j > 1 => j - 1 \in 1 .. m
        OBVIOUS
    <2> QED
        BY <1>1, <2>1
<1> QED
    BY <1>1, <1>3, <1>4 DEF Follows

(* The steps that leave the file alone. *)
LEMMA LoopStays ==
    ASSUME LoopInv, UNCHANGED << given, segments, v1, expressload, n >>, Opened,
           step' \in {"segment", "relocs", "intersegs", "write", "closed"}, k' \in Nat \ {0},
           Saving' => n \in DOMAIN given, step' = "closed" => n = Len(given) + 1
    PROVE  LoopInv' /\ Opened'
<1>1. Opened'
    BY DEF Opened
<1> QED
    BY <1>1 DEF LoopInv

LEMMA SamePieces ==
    ASSUME NEW m \in Nat, UNCHANGED << given, v1, expressload, file >>,
           step # "closed", step' # "closed"
    PROVE  Kept(m)
<1>1. First = 0 /\ First' = 0
    BY DEF First, Closed
<1>2. \A i \in 1 .. m : Piece(i)' = Piece(i)
    BY <1>1 DEF Piece
<1> QED
    BY <1>2 DEF Kept

LEMMA FileStays ==
    ASSUME LoopInv, PieceInv, PlaceInv, ExpressInv, Opened, Opened',
           UNCHANGED << given, segments, v1, expressload, n, file, expressVars, placeVars >>,
           step # "closed", step' # "closed"
    PROVE  PieceInv' /\ PlaceInv' /\ ExpressInv'
<1>1. n \in Nat /\ n - 1 \in Nat /\ n - 1 + 1 = n
    BY SegmentsAlike DEF LoopInv
<1>2. Kept(n - 1)
    BY <1>1, SamePieces
<1>3. First = 0 /\ First' = 0
    BY DEF First, Closed
<1>4. /\ given' = given /\ segments' = segments /\ v1' = v1 /\ expressload' = expressload
      /\ n' = n /\ file' = file /\ offset' = offset /\ position' = position
      /\ faults' = faults /\ expr_headers' = expr_headers /\ expr_offsets' = expr_offsets
    BY DEF expressVars, placeVars
<1>5. \A i \in 1 .. n - 1 : Piece(i)' = Piece(i)
    BY <1>2 DEF Kept
<1>6. PieceInv'
    <2>1. \A p, j : IsPiece(p, j) => IsPiece(p, j)'
        BY <1>4 DEF IsPiece, Faithful, Held
    <2>2. IsList(file, n - 1 + First)'
        BY <1>3, <1>4 DEF PieceInv
    <2>3. \A j \in 1 .. n - 1 : IsPiece(Piece(j), j)'
        BY <1>5, <2>1 DEF PieceInv
    <2> QED
        BY <1>4, <2>2, <2>3 DEF PieceInv
<1>7. PlaceInv'
    <2>1. \A j \in 1 .. n - 1 : Follows(j, Piece(j).at)'
        <3>1. SUFFICES ASSUME NEW j \in 1 .. n - 1 PROVE Follows(j, Piece(j).at)'
            OBVIOUS
        <3>2. PICK at : at = Piece(j).at
            OBVIOUS
        <3>3. Follows(j, at)
            BY <3>2 DEF PlaceInv
        <3>4. j \in 1 .. n - 1 + 1
            BY <1>1
        <3>5. Follows(j, at)'
            BY <1>1, <1>2, <3>3, <3>4, KeptFollows
        <3>6. Piece(j)'.at = at
            BY <1>5, <3>2
        <3> QED
            BY <3>5, <3>6
    <2>2. Follows(n, position)'
        <3>1. PICK at : at = position
            OBVIOUS
        <3>2. PICK j : j = n
            OBVIOUS
        <3>3. Follows(j, at) /\ j \in 1 .. n - 1 + 1
            <4>1. Follows(n, position)
                BY DEF PlaceInv
            <4>2. n \in 1 .. n - 1 + 1
                BY <1>1
            <4> QED
                BY <3>1, <3>2, <4>1, <4>2
        <3>4. Follows(j, at)'
            BY <1>1, <1>2, <3>3, KeptFollows
        <3> QED
            BY <1>4, <3>1, <3>2, <3>4
    <2>3. Clean(n - 1)' => offset' = position'
        <3>1. PICK m : m = n - 1
            OBVIOUS
        <3>2. Clean(m)' <=> Clean(m)
            BY <1>1, <1>2, <3>1, KeptClean
        <3>3. Clean(m) => offset = position
            BY <3>1 DEF PlaceInv
        <3>4. Clean(n - 1)' => Clean(m)'
            BY <1>4, <3>1
        <3> QED
            BY <1>4, <3>2, <3>3, <3>4
    <2>4. offset' \in Int /\ position' \in Nat /\ faults' \in 0 .. MaxFaults
        BY <1>4 DEF PlaceInv
    <2>5. step' # "start"
        BY DEF Opened
    <2> QED
        BY <1>4, <2>1, <2>2, <2>3, <2>4, <2>5 DEF PlaceInv
<1>8. ExpressInv'
    <2>1. SUFFICES ASSUME expressload PROVE ExpressInv'
        BY <1>4 DEF ExpressInv
    <2>2. /\ IsList(expr_headers, n - 1) /\ IsList(expr_offsets, n - 1)
          /\ \A j \in 1 .. n - 1 : /\ IsEntry(expr_headers[j], Piece(j), j)
                                   /\ expr_offsets[j] = HeadersSize(j - 1)
        BY <2>1 DEF ExpressInv
    <2>3. \A h, p : \A j \in 1 .. n - 1 : IsEntry(h, p, j) => IsEntry(h, p, j)'
        <3>1. SUFFICES ASSUME NEW h, NEW p, NEW j \in 1 .. n - 1, IsEntry(h, p, j)
                       PROVE  IsEntry(h, p, j)'
            OBVIOUS
        <3>2. PICK m \in Int : m = j - 1 /\ m <= n - 1
            BY <1>1
        <3>3. Clean(m)' <=> Clean(m)
            BY <1>1, <1>2, <3>2, KeptClean
        <3> QED
            BY <1>4, <3>1, <3>2, <3>3 DEF IsEntry, EntrySize
    <2>4. \A m : HeadersSize(m)' = HeadersSize(m)
        BY <1>4 DEF HeadersSize, EntrySize
    <2>5. \A j \in 1 .. n - 1 : /\ IsEntry(expr_headers[j], Piece(j), j)'
                                /\ expr_offsets'[j] = HeadersSize(j - 1)'
        BY <1>4, <1>5, <2>2, <2>3, <2>4
    <2>6. IsList(expr_headers, n - 1)' /\ IsList(expr_offsets, n - 1)'
        BY <1>4, <2>2
    <2> QED
        BY <1>4, <2>5, <2>6 DEF ExpressInv
<1> QED
    BY <1>6, <1>7, <1>8

-----------------------------------------------------------------------------
(* The start. *)

LEMMA EmptyList == IsList(<< >>, 0)
<1>1. << >> \in Seq({}) /\ Len(<< >>) = 0
    OBVIOUS
<1> QED
    BY <1>1, ListsAre

LEMMA ExpressSizeIsNatural ==
    ASSUME IsLink(given)
    PROVE  ExpressSize(given) \in Nat
<1>1. given \in Seq(LinkSegment) /\ Len(given) \in Nat /\ DOMAIN given = 1 .. Len(given)
    BY DEF IsLink
<1> DEFINE S == [j \in DOMAIN given |-> 8 + 2 + EntryFixed + given[j].segname]
<1>2. \A j \in DOMAIN given : given[j].segname \in Nat
    <2>1. ASSUME NEW j \in DOMAIN given PROVE given[j].segname \in Nat
        <3>1. given[j] \in LinkSegment
            BY <1>1
        <3> QED
            BY <3>1 DEF LinkSegment
    <2> QED
        BY <2>1
<1>3. S \in [1 .. Len(given) -> Nat]
    <2>1. \A j \in DOMAIN given : 8 + 2 + EntryFixed + given[j].segname \in Nat
        BY <1>2 DEF EntryFixed, Load
    <2> QED
        BY <1>1, <2>1
<1>4. ExpressSize(given) = HeaderSize + Load + ExpressName + 1 + 6 + 6 + Sum(S)
    BY DEF ExpressSize
<1>5. Sum(S) \in Nat
    <2> HIDE DEF S
    <2> QED
        BY <1>1, <1>3, SumIsNatural
<1> HIDE DEF S
<1> QED
    BY <1>4, <1>5 DEF HeaderSize, Load, ExpressName

LEMMA HelpersAtFirst ==
    ASSUME NEW s, s = [j \in SuperKinds |-> Helper]
    PROVE  /\ DOMAIN s = SuperKinds /\ s = [j \in SuperKinds |-> s[j]]
           /\ \A j \in SuperKinds : s[j] = Helper /\ IsHelper(s[j])
<1>1. IsHelper(Helper)
    BY NoHelper
<1> QED
    BY <1>1

LEMMA InitFileInv == InitFile => FileInv
<1> SUFFICES ASSUME InitFile PROVE FileInv
    OBVIOUS
<1>1. /\ IsLink(given) /\ segments = given /\ v1 \in BOOLEAN /\ expressload \in BOOLEAN
      /\ (v1 => ~expressload) /\ step = "start" /\ n = 1 /\ k = 1 /\ offset = 0
      /\ position = 0 /\ faults = 0 /\ ss = [j \in SuperKinds |-> Helper]
      /\ expr_headers = << >> /\ expr_offsets = << >> /\ file = << >>
    BY SegmentsAssumption DEF InitFile, InitLocals
<1>2. ~Opened /\ ~Saving /\ First = 0
    BY <1>1 DEF Opened, Saving, First, Closed
<1>3. LoopInv
    <2>1. Len(given) \in Nat
        BY <1>1 DEF IsLink
    <2>2. n \in 1 .. Len(given) + 1 /\ k \in Nat \ {0}
        BY <1>1, <2>1
    <2> QED
        BY <1>1, <1>2, <2>2 DEF LoopInv
<1>4. HelperInv
    BY <1>1, HelpersAtFirst DEF HelperInv
<1>5. BytesInv
    BY <1>2 DEF BytesInv
<1>6. n - 1 = 0 /\ 1 .. n - 1 = {}
    BY <1>1
<1>7. PieceInv
    BY <1>1, <1>2, <1>6, EmptyList DEF PieceInv
<1>8. PlaceInv
    <2>1. 0 \in 0 .. MaxFaults
        BY FileAssumption
    <2> QED
        BY <1>1, <1>2, <2>1 DEF PlaceInv
<1>9. ExpressInv
    BY <1>1, <1>6, EmptyList DEF ExpressInv
<1> QED
    BY <1>3, <1>4, <1>5, <1>7, <1>8, <1>9 DEF FileInv

LEMMA OpenFailsKeeps == FileInv /\ OpenFails => FileInv'
<1> SUFFICES ASSUME FileInv, OpenFails PROVE FileInv'
    OBVIOUS
<1>1. /\ LoopInv /\ HelperInv /\ PieceInv /\ PlaceInv /\ ExpressInv
      /\ step = "start" /\ step' = "cantcreat"
      /\ given' = given /\ segments' = segments /\ v1' = v1 /\ expressload' = expressload
      /\ n' = n /\ k' = k /\ offset' = offset /\ position' = position /\ faults' = faults
      /\ ss' = ss /\ expr_headers' = expr_headers /\ expr_offsets' = expr_offsets
      /\ file' = file
    BY DEF FileInv, OpenFails, flags, placeVars, segmentVars, expressVars
<1>2. /\ ~Opened /\ ~Opened' /\ ~Saving' /\ First = 0 /\ First' = 0
    BY <1>1 DEF Opened, Saving, First, Closed
<1>3. LoopInv'
    BY <1>1, <1>2 DEF LoopInv
<1>4. HelperInv' /\ BytesInv'
    BY <1>1, <1>2 DEF HelperInv, BytesInv
<1>5. n - 1 = 0 /\ 1 .. n - 1 = {}
    BY <1>1, <1>2 DEF LoopInv
<1>6. PieceInv' /\ PlaceInv'
    BY <1>1, <1>2, <1>5 DEF PieceInv, PlaceInv
<1>7. ExpressInv'
    BY <1>1, <1>5 DEF ExpressInv
<1> QED
    BY <1>3, <1>4, <1>6, <1>7 DEF FileInv

LEMMA LeaveRoomKeeps == FileInv /\ LeaveRoom => FileInv'
<1> SUFFICES ASSUME FileInv, LeaveRoom PROVE FileInv'
    OBVIOUS
<1>1. /\ LoopInv /\ HelperInv /\ PieceInv /\ PlaceInv /\ ExpressInv
      /\ step = "start" /\ step' = "segment"
      /\ given' = given /\ v1' = v1 /\ expressload' = expressload
      /\ n' = n /\ k' = k /\ faults' = faults
      /\ ss' = ss /\ expr_headers' = expr_headers /\ expr_offsets' = expr_offsets
      /\ file' = file
    BY DEF FileInv, LeaveRoom, flags, segmentVars, expressVars
<1>2. ~Opened /\ Opened' /\ ~Saving' /\ First = 0 /\ First' = 0
    BY <1>1 DEF Opened, Saving, First, Closed
<1>3. n = 1 /\ n - 1 = 0 /\ 1 .. n - 1 = {} /\ segments = given /\ IsLink(given)
    BY <1>1, <1>2 DEF LoopInv
<1>4. /\ expressload => /\ segments' = [j \in DOMAIN given |-> Renumbered(given[j])]
                        /\ offset' = ExpressSize(given) /\ position' = ExpressSize(given)
      /\ ~expressload => segments' = given /\ offset' = 0 /\ position' = 0
    BY <1>1, <1>3 DEF LeaveRoom, PlaceInv
<1>5. LoopInv'
    BY <1>1, <1>2, <1>4 DEF LoopInv
<1>6. HelperInv' /\ BytesInv'
    BY <1>1, <1>2 DEF HelperInv, BytesInv
<1>7. PieceInv' /\ ExpressInv'
    BY <1>1, <1>2, <1>3 DEF PieceInv, ExpressInv
<1>8. PlaceInv'
    <2>1. offset' \in Int /\ position' \in Nat /\ offset' = position'
        BY <1>3, <1>4, ExpressSizeIsNatural
    <2>2. v1 => position' % BlockSize = 0
        <3>1. BlockSize \in Int /\ BlockSize > 0
            BY FileAssumption
        <3>2. 0 % BlockSize = 0
            BY <3>1
        <3> QED
            BY <1>1, <1>4, <3>2 DEF LoopInv
    <2>3. Follows(1, position)'
        <3>1. expressload' => position' = ExpressSize(given')
            BY <1>1, <1>4
        <3>2. ~expressload' => position' = 0
            BY <1>1, <1>4
        <3> QED
            BY <1>1, <2>2, <3>1, <3>2 DEF Follows
    <2>4. faults' \in 0 .. MaxFaults
        BY <1>1 DEF PlaceInv
    <2> QED
        BY <1>1, <1>3, <2>1, <2>3, <2>4 DEF PlaceInv
<1> QED
    BY <1>5, <1>6, <1>7, <1>8 DEF FileInv

-----------------------------------------------------------------------------
(* The records of a segment. *)

LEMMA InHand ==
    ASSUME LoopInv, n \in DOMAIN given
    PROVE  /\ Segment.relocs \in Seq(Reloc) /\ InOrder(Segment.relocs)
           /\ Segment.intersegs \in Seq(InterSeg) /\ InOrder(Segment.intersegs)
           /\ Segment.segnum \in Nat \ {0}
           /\ \A i \in DOMAIN Segment.intersegs :
                  Segment.intersegs[i].segment # Segment.segnum
           /\ given[n] \in LinkSegment /\ Alike(Segment, given[n])
<1>1. given[n] \in LinkSegment /\ Alike(Segment, given[n])
    BY SegmentsAlike DEF Segment
<1>2. InOrder(given[n].relocs)
    BY DEF LoopInv, IsLink
<1>3. given[n].relocs \in Seq(Reloc) /\ given[n].intersegs \in Seq(InterSeg)
    BY <1>1 DEF LinkSegment
<1>4. DOMAIN given[n].intersegs = DOMAIN Segment.intersegs
    BY <1>1, <1>3 DEF Alike
<1> QED
    BY <1>1, <1>2, <1>3, <1>4 DEF Alike

LEMMA OffsetsAreNumbers ==
    ASSUME LoopInv, n \in DOMAIN given
    PROVE  /\ \A i \in DOMAIN Segment.relocs : Segment.relocs[i].offset \in Nat
           /\ \A i \in DOMAIN Segment.intersegs : Segment.intersegs[i].offset \in Nat
<1>1. ASSUME NEW i \in DOMAIN Segment.relocs PROVE Segment.relocs[i].offset \in Nat
    <2>1. Segment.relocs[i] \in Reloc
        BY InHand
    <2> QED
        BY <2>1 DEF Reloc
<1>2. ASSUME NEW i \in DOMAIN Segment.intersegs PROVE Segment.intersegs[i].offset \in Nat
    <2>1. Segment.intersegs[i] \in InterSeg
        BY InHand
    <2> QED
        BY <2>1 DEF InterSeg
<1> QED
    BY <1>1, <1>2

LEMMA BeginSegmentKeeps == FileInv /\ BeginSegment => FileInv'
<1> SUFFICES ASSUME FileInv, BeginSegment PROVE FileInv'
    OBVIOUS
<1>1. /\ LoopInv /\ PieceInv /\ PlaceInv /\ ExpressInv
      /\ step = "segment" /\ step' = "relocs" /\ k' = 1 /\ n \in DOMAIN segments
      /\ UNCHANGED << given, segments, v1, expressload, n, file, expressVars, placeVars >>
      /\ data' = Segment.data /\ records' = << >> /\ ss' = [j \in SuperKinds |-> Helper]
    BY DEF FileInv, BeginSegment, flags
<1>2. Opened /\ n \in DOMAIN given /\ k' \in Nat \ {0}
    BY <1>1, SegmentsAlike DEF Opened
<1>3. LoopInv' /\ Opened'
    BY <1>1, <1>2, LoopStays
<1>4. PieceInv' /\ PlaceInv' /\ ExpressInv'
    BY <1>1, <1>2, <1>3, FileStays
<1>5. HelperInv'
    <2>1. /\ DOMAIN ss' = SuperKinds /\ ss' = [j \in SuperKinds |-> ss'[j]]
          /\ \A j \in SuperKinds : ss'[j] = Helper /\ IsHelper(ss'[j])
        BY <1>1, HelpersAtFirst
    <2>2. Ahead(Helper, Segment.relocs)'
        <3>1. Segment' = Segment
            BY <1>1 DEF Segment
        <3>2. \A i \in DOMAIN Segment.relocs : Behind(Helper, Segment.relocs[i].offset)
            BY <1>1, <1>2, OffsetsAreNumbers, NoHelper
        <3> QED
            BY <3>1, <3>2 DEF Ahead, Behind
    <2> QED
        BY <1>1, <2>1, <2>2 DEF HelperInv
<1>6. BytesInv'
    <2>1. given[n].data \in Seq(Nat) /\ data' = given[n].data
        BY <1>1, <1>2, InHand DEF LinkSegment, Alike
    <2>2. IsList(given[n].data, Len(given[n].data))
        BY <2>1, ListsAre
    <2>3. Faithful(data, n)'
        BY <1>1, <2>1, <2>2 DEF Faithful
    <2> QED
        BY <1>1, <2>3 DEF BytesInv
<1> QED
    BY <1>3, <1>4, <1>5, <1>6 DEF FileInv

LEMMA RelocsDoneKeeps == FileInv /\ RelocsDone => FileInv'
<1> SUFFICES ASSUME FileInv, RelocsDone PROVE FileInv'
    OBVIOUS
<1>1. /\ LoopInv /\ HelperInv /\ BytesInv /\ PieceInv /\ PlaceInv /\ ExpressInv
      /\ step = "relocs" /\ step' = "intersegs" /\ k' = 1
      /\ UNCHANGED << given, segments, v1, expressload, n, file, expressVars, placeVars >>
      /\ data' = data /\ records' = records /\ ss' = ss
    BY DEF FileInv, RelocsDone, flags, segmentVars
<1>2. Opened /\ Saving /\ n \in DOMAIN given /\ k' \in Nat \ {0}
    BY <1>1 DEF Opened, Saving, LoopInv
<1>3. LoopInv' /\ Opened'
    BY <1>1, <1>2, LoopStays
<1>4. PieceInv' /\ PlaceInv' /\ ExpressInv'
    BY <1>1, <1>2, <1>3, FileStays
<1>5. HelperInv'
    <2>1. Segment' = Segment
        BY <1>1 DEF Segment
    <2>2. OwnKinds' = OwnKinds
        BY <2>1 DEF OwnKinds
    <2>3. Ahead(Helper, Segment.intersegs)'
        <3>1. \A i \in DOMAIN Segment.intersegs :
                  Behind(Helper, Segment.intersegs[i].offset)
            BY <1>1, <1>2, OffsetsAreNumbers, NoHelper
        <3> QED
            BY <2>1, <3>1 DEF Ahead, Behind
    <2>4. \A j \in SuperKinds \ OwnKinds : ss[j] = Helper
        BY <1>1 DEF HelperInv
    <2>5. \A j \in SuperKinds \ OwnKinds' : Ahead(ss[j], Segment.intersegs)'
        BY <1>1, <2>2, <2>3, <2>4
    <2> QED
        BY <1>1, <2>5 DEF HelperInv, IsHelper
<1>6. BytesInv'
    BY <1>1, <1>2 DEF BytesInv, Faithful, Held
<1> QED
    BY <1>3, <1>4, <1>5, <1>6 DEF FileInv

LEMMA SupersAreRecords ==
    ASSUME \A j \in SuperKinds : IsHelper(ss[j])
    PROVE  Supers \in Seq(FileRecord)
<1> DEFINE Made(j) == [op |-> "SUPER", kind |-> j - 1, data |-> ss[j - 1].data]
           After1(j, x) == IF ss[j - 1].data = << >> THEN x ELSE Append(x, Made(j))
           Runs(t) == t = [j \in 0 .. 38 |->
                               IF j = 0 THEN << >>
                               ELSE IF ss[j - 1].data = << >> THEN t[j - 1]
                               ELSE Append(t[j - 1], Made(j))]
           A == Seq(FileRecord)
<1>1. \A j \in 1 .. 38 : Made(j) \in FileRecord
    <2>1. SUFFICES ASSUME NEW j \in 1 .. 38 PROVE Made(j) \in SuperRecord
        BY DEF FileRecord
    <2>2. PICK i \in SuperKinds : i = j - 1
        BY DEF SuperKinds
    <2>3. PICK d \in Seq(0 .. Byte - 1) : d = ss[i].data
        BY DEF IsHelper
    <2>4. Made(j) = [op |-> "SUPER", kind |-> i, data |-> d]
        BY <2>2, <2>3
    <2> QED
        BY <2>4 DEF SuperRecord
<1> HIDE DEF Made
<1>2. \A j \in 1 .. 38, x \in A : After1(j, x) \in A
    <2>1. \A j \in 1 .. 38, x \in A : Append(x, Made(j)) \in A
        BY <1>1, AppendedByte
    <2> QED
        BY <2>1
<1>3. PICK turn : \A j \in 1 .. 38, x \in A : turn[<< j, x >>] = After1(j, x)
    <2> DEFINE f == [p \in (1 .. 38) \X A |-> After1(p[1], p[2])]
    <2>1. \A j \in 1 .. 38, x \in A : f[<< j, x >>] = After1(j, x)
        <3> HIDE DEF After1, A
        <3> QED
            OBVIOUS
    <2> HIDE DEF f
    <2> QED
        BY <2>1
<1>4. PICK t \in [0 .. 38 -> A] :
          t[0] = << >> /\ \A j \in 1 .. 38 : t[j] = turn[<< j, t[j - 1] >>]
    <2>1. << >> \in A /\ Takes(turn, 38, A)
        <3> HIDE DEF After1
        <3> QED
            BY <1>2, <1>3 DEF Takes
    <2> HIDE DEF Runs, A
    <2>2. \E t : Values(t, << >>, turn, 38, A)
        BY <2>1, Recursion
    <2> QED
        BY <2>2 DEF Values
<1>5. \A j \in 1 .. 38 : t[j] = After1(j, t[j - 1])
    <2> HIDE DEF After1, A
    <2>1. \A j \in 1 .. 38 : j - 1 \in 0 .. 38 /\ t[j - 1] \in A
        OBVIOUS
    <2> QED
        BY <1>3, <1>4, <2>1
<1>6. Runs(t)
    <2> HIDE DEF A
    <2>1. t = [j \in 0 .. 38 |-> t[j]]
        OBVIOUS
    <2>2. \A j \in 0 .. 38 : t[j] = IF j = 0 THEN << >> ELSE After1(j, t[j - 1])
        <3>1. \A j \in 0 .. 38 : j # 0 => j \in 1 .. 38
            OBVIOUS
        <3> HIDE DEF After1
        <3> QED
            BY <1>4, <1>5, <3>1
    <2> QED
        BY <2>1, <2>2
<1> DEFINE upto == CHOOSE u : Runs(u)
<1>7. Runs(upto)
    <2> HIDE DEF Runs
    <2> QED
        BY <1>6
<1>8. Supers = upto[38]
    BY DEF Supers, Made
<1> HIDE DEF upto, A
<1>9. upto[0] = << >> /\ \A j \in 1 .. 38 : upto[j] = After1(j, upto[j - 1])
    <2> HIDE DEF After1
    <2>1. Runs(upto) <=> upto = [j \in 0 .. 38 |->
                                    IF j = 0 THEN << >> ELSE After1(j, upto[j - 1])]
        BY DEF After1
    <2> HIDE DEF Runs
    <2>2. upto = [j \in 0 .. 38 |-> IF j = 0 THEN << >> ELSE After1(j, upto[j - 1])]
        BY <1>7, <2>1
    <2>3. \A j \in 0 .. 38 : upto[j] = IF j = 0 THEN << >> ELSE After1(j, upto[j - 1])
        BY <2>2
    <2>4. 0 \in 0 .. 38 /\ \A j \in 1 .. 38 : j \in 0 .. 38 /\ j # 0
        OBVIOUS
    <2> QED
        BY <2>3, <2>4
<1> HIDE DEF After1, Runs
<1> DEFINE M == {i \in Nat : i <= 38 => upto[i] \in A}
<1>10. 0 \in M
    <2>1. << >> \in A
        BY DEF A
    <2> QED
        BY <1>9, <2>1
<1>11. \A i \in Nat : i \in M => i + 1 \in M
    <2>1. SUFFICES ASSUME NEW i \in Nat, i \in M, i + 1 <= 38 PROVE upto[i + 1] \in A
        OBVIOUS
    <2>2. PICK j \in 1 .. 38 : j = i + 1
        BY <2>1
    <2>3. PICK x \in A : x = upto[i]
        BY <2>1
    <2>4. upto[j] = After1(j, upto[j - 1]) /\ After1(j, x) \in A
        BY <1>2, <1>9
    <2>5. upto[j - 1] = x
        BY <2>2, <2>3
    <2> QED
        BY <2>2, <2>4, <2>5
<1>12. 38 \in M
    <2> HIDE DEF M
    <2> QED
        BY <1>10, <1>11, NatSets
<1> QED
    BY <1>8, <1>12 DEF A

LEMMA AppendSupersKeeps == FileInv /\ AppendSupers => FileInv'
<1> SUFFICES ASSUME FileInv, AppendSupers PROVE FileInv'
    OBVIOUS
<1>1. /\ LoopInv /\ HelperInv /\ BytesInv /\ PieceInv /\ PlaceInv /\ ExpressInv
      /\ step = "intersegs" /\ step' = "write" /\ k' = k
      /\ UNCHANGED << given, segments, v1, expressload, n, file, expressVars, placeVars >>
      /\ data' = data /\ records' = records \o Supers /\ ss' = ss
    BY DEF FileInv, AppendSupers, flags, segmentVars
<1>2. Opened /\ Saving /\ n \in DOMAIN given /\ k' \in Nat \ {0}
    BY <1>1 DEF Opened, Saving, LoopInv
<1>3. LoopInv' /\ Opened'
    BY <1>1, <1>2, LoopStays
<1>4. PieceInv' /\ PlaceInv' /\ ExpressInv'
    BY <1>1, <1>2, <1>3, FileStays
<1>5. HelperInv'
    BY <1>1 DEF HelperInv, IsHelper
<1>6. BytesInv'
    <2>1. Faithful(data, n)'
        BY <1>1, <1>2 DEF BytesInv, Faithful, Held
    <2>2. records \o Supers \in Seq(FileRecord)
        <3>1. Supers \in Seq(FileRecord)
            BY <1>1, SupersAreRecords DEF HelperInv
        <3>2. records \in Seq(FileRecord)
            BY <1>1, <1>2 DEF BytesInv
        <3> QED
            BY <3>1, <3>2, JoinedBytes
    <2>3. FileRecord' = FileRecord
        BY DEF FileRecord
    <2> QED
        BY <1>1, <2>1, <2>2, <2>3 DEF BytesInv
<1> QED
    BY <1>3, <1>4, <1>5, <1>6 DEF FileInv

(* A value goes in the bytes of its record. *)
Covers(off, count, j) == \A b \in 1 .. count : off + b \in Held(j)

LEMMA StoredFaithful ==
    ASSUME NEW j, NEW d, Faithful(d, j), given[j].data \in Seq(Nat),
           NEW off \in Nat, NEW count \in Nat, NEW v, Covers(off, count, j)
    PROVE  Faithful(Stored(d, off, v, count), j)
<1>1. PICK m \in Nat : m = Len(given[j].data)
    OBVIOUS
<1>2. DOMAIN given[j].data = 1 .. m /\ IsList(d, m) /\ DOMAIN d = 1 .. m
    <2>1. IsList(d, m)
        BY <1>1 DEF Faithful
    <2>2. DOMAIN d = 1 .. m
        BY <2>1, ListLength
    <2>3. DOMAIN given[j].data = 1 .. m
        BY <1>1
    <2> QED
        BY <2>1, <2>2, <2>3
<1>3. PICK s : s = Stored(d, off, v, count)
    OBVIOUS
<1> DEFINE new(x) == (v \div Byte ^ (x - 1 - off)) % Byte
<1>4. s = [x \in 1 .. m |-> IF x - 1 - off \in 0 .. count - 1 THEN new(x) ELSE d[x]]
    BY <1>2, <1>3 DEF Stored
<1> HIDE DEF new
<1>5. IsList(s, m)
    BY <1>4 DEF IsList
<1>6. ASSUME NEW b \in 1 .. m, b \notin Held(j) PROVE s[b] = given[j].data[b]
    <2>1. ~(b - 1 - off \in 0 .. count - 1)
        <3>1. SUFFICES ASSUME b - 1 - off \in 0 .. count - 1 PROVE FALSE
            OBVIOUS
        <3>2. b - off \in 1 .. count /\ off + (b - off) = b
            BY <3>1
        <3> QED
            BY <1>6, <3>2 DEF Covers
    <2>2. s[b] = d[b]
        BY <1>4, <2>1
    <2> QED
        BY <1>2, <1>6, <2>2 DEF Faithful
<1> QED
    BY <1>1, <1>2, <1>3, <1>5, <1>6 DEF Faithful

LEMMA RecordsCover ==
    ASSUME LoopInv, n \in DOMAIN given
    PROVE  /\ \A i \in DOMAIN Segment.relocs :
                  Covers(Segment.relocs[i].offset, Segment.relocs[i].size, n)
           /\ \A i \in DOMAIN Segment.intersegs :
                  Covers(Segment.intersegs[i].offset, Segment.intersegs[i].size, n)
<1>1. Alike(Segment, given[n])
    BY InHand
<1>2. ASSUME NEW r \in Range(given[n].relocs) \cup Range(given[n].intersegs)
      PROVE  Covers(r.offset, r.size, n)
    BY DEF Covers, Held
<1>3. ASSUME NEW i \in DOMAIN Segment.relocs
      PROVE  Covers(Segment.relocs[i].offset, Segment.relocs[i].size, n)
    <2>1. Segment.relocs[i] \in Range(given[n].relocs)
        BY <1>1 DEF Alike, Range
    <2> QED
        BY <1>2, <2>1
<1>4. ASSUME NEW i \in DOMAIN Segment.intersegs
      PROVE  Covers(Segment.intersegs[i].offset, Segment.intersegs[i].size, n)
    <2>1. DOMAIN Segment.intersegs = DOMAIN given[n].intersegs
        BY InHand DEF Alike, LinkSegment
    <2>2. given[n].intersegs[i] \in Range(given[n].intersegs)
        BY <2>1 DEF Range
    <2>3. /\ Segment.intersegs[i].offset = given[n].intersegs[i].offset
          /\ Segment.intersegs[i].size = given[n].intersegs[i].size
        BY <1>1, <2>1 DEF Alike
    <2> QED
        BY <1>2, <2>2, <2>3
<1> QED
    BY <1>3, <1>4

(* Past a record of its own, a helper is before those to come. *)
Numbered(list) == /\ DOMAIN list \subseteq Nat
                  /\ \A i \in DOMAIN list : list[i].offset \in Nat /\ list[i].size \in Nat

LEMMA PackedAhead ==
    ASSUME k \in Nat, k' = k + 1, NEW h, IsHelper(h), NEW list, InOrder(list),
           Numbered(list), k \in DOMAIN list, Ahead(h, list), list[k].size >= 2,
           NEW new, new = Appended(h, list[k].offset)
    PROVE  IsHelper(new) /\ Ahead(new, list)'
<1>1. PICK x \in Nat : x = list[k].offset
    BY DEF Numbered
<1>2. Behind(h, x)
    BY <1>1 DEF Ahead
<1>3. IsHelper(new) /\ Behind(new, x + 2)
    BY <1>1, <1>2, AppendedFits
<1>4. ASSUME NEW i \in DOMAIN list, i >= k + 1 PROVE Behind(new, list[i].offset)
    <2>1. i \in Nat /\ k < i
        BY <1>4 DEF Numbered
    <2>2. list[k].offset + list[k].size <= list[i].offset
        BY <2>1 DEF InOrder
    <2>3. PICK y \in Nat : y = list[i].offset
        BY DEF Numbered
    <2>4. x + 2 <= y
        <3>1. PICK z \in Nat : z = list[k].size
            BY DEF Numbered
        <3>2. x + z <= y /\ z >= 2
            BY <1>1, <2>2, <2>3, <3>1
        <3> QED
            BY <3>2
    <2>5. x + 2 \in Nat
        OBVIOUS
    <2>6. Behind(new, y)
        BY <1>3, <2>4, <2>5, BehindLater
    <2> QED
        BY <2>3, <2>6
<1>5. Ahead(new, list)'
    BY <1>4 DEF Ahead, Behind
<1> QED
    BY <1>3, <1>5

LEMMA StaysAhead ==
    ASSUME k \in Nat, k' = k + 1, NEW h, NEW list, DOMAIN list \subseteq Nat, Ahead(h, list)
    PROVE  Ahead(h, list)'
<1>1. \A i \in DOMAIN list : i >= k + 1 => i >= k
    OBVIOUS
<1> QED
    BY <1>1 DEF Ahead, Behind

LEMMA ListsNumbered ==
    ASSUME LoopInv, n \in DOMAIN given
    PROVE  Numbered(Segment.relocs) /\ Numbered(Segment.intersegs)
<1>1. Segment.relocs \in Seq(Reloc) /\ Segment.intersegs \in Seq(InterSeg)
    BY InHand
<1>2. DOMAIN Segment.relocs \subseteq Nat /\ DOMAIN Segment.intersegs \subseteq Nat
    BY <1>1
<1>3. ASSUME NEW i \in DOMAIN Segment.relocs
      PROVE  Segment.relocs[i].offset \in Nat /\ Segment.relocs[i].size \in Nat
    <2>1. Segment.relocs[i] \in Reloc
        BY <1>1
    <2> QED
        BY <2>1 DEF Reloc
<1>4. ASSUME NEW i \in DOMAIN Segment.intersegs
      PROVE  Segment.intersegs[i].offset \in Nat /\ Segment.intersegs[i].size \in Nat
    <2>1. Segment.intersegs[i] \in InterSeg
        BY <1>1
    <2> QED
        BY <2>1 DEF InterSeg
<1> QED
    BY <1>2, <1>3, <1>4 DEF Numbered

(* What the four steps for a record share. *)
LEMMA RecordDone ==
    ASSUME FileInv, NextRecord, step \in {"relocs", "intersegs"}
    PROVE  /\ LoopInv' /\ PieceInv' /\ PlaceInv' /\ ExpressInv'
           /\ LoopInv /\ HelperInv /\ BytesInv /\ Saving /\ Saving' /\ step' = step
           /\ n \in DOMAIN given /\ k \in Nat /\ k' = k + 1
           /\ given' = given /\ n' = n /\ Segment' = Segment /\ OwnKinds' = OwnKinds
           /\ given[n].data \in Seq(Nat)
<1>1. /\ LoopInv /\ HelperInv /\ BytesInv /\ PieceInv /\ PlaceInv /\ ExpressInv
      /\ step' = step /\ k' = k + 1
      /\ UNCHANGED << given, segments, v1, expressload, n, file, expressVars, placeVars >>
    BY DEF FileInv, NextRecord, flags
<1>2. Opened /\ Saving /\ Saving' /\ n \in DOMAIN given
    BY <1>1 DEF Opened, Saving, LoopInv
<1>3. k \in Nat /\ k' \in Nat \ {0}
    BY <1>1 DEF LoopInv
<1>4. LoopInv' /\ Opened'
    BY <1>1, <1>2, <1>3, LoopStays
<1>5. PieceInv' /\ PlaceInv' /\ ExpressInv'
    BY <1>1, <1>2, <1>4, FileStays
<1>6. Segment' = Segment
    BY <1>1 DEF Segment
<1>7. OwnKinds' = OwnKinds
    BY <1>6 DEF OwnKinds
<1>8. given[n].data \in Seq(Nat)
    BY <1>1, <1>2, InHand DEF LinkSegment
<1> QED
    BY <1>1, <1>2, <1>3, <1>4, <1>5, <1>6, <1>7, <1>8

LEMMA Pushed ==
    ASSUME FileInv, step \in {"relocs", "intersegs"}, NEW r \in FileRecord, Push(r)
    PROVE  FileInv'
<1>1. NextRecord /\ records' = Append(records, r) /\ data' = data /\ ss' = ss
    BY DEF Push
<1>2. /\ LoopInv' /\ PieceInv' /\ PlaceInv' /\ ExpressInv'
      /\ LoopInv /\ HelperInv /\ BytesInv /\ Saving /\ Saving' /\ step' = step
      /\ n \in DOMAIN given /\ k \in Nat /\ k' = k + 1
      /\ given' = given /\ n' = n /\ Segment' = Segment /\ OwnKinds' = OwnKinds
    BY <1>1, RecordDone
<1>3. HelperInv'
    <2>1. /\ DOMAIN Segment.relocs \subseteq Nat /\ DOMAIN Segment.intersegs \subseteq Nat
        BY <1>2, ListsNumbered DEF Numbered
    <2>2. \A h, list : DOMAIN list \subseteq Nat /\ Ahead(h, list) => Ahead(h, list)'
        BY <1>2, StaysAhead
    <2>3. \A h : Ahead(h, Segment.relocs) => Ahead(h, Segment.relocs)'
        BY <1>2, <2>1, <2>2
    <2>4. \A h : Ahead(h, Segment.intersegs) => Ahead(h, Segment.intersegs)'
        BY <1>2, <2>1, <2>2
    <2>5. \A h : IsHelper(h) => IsHelper(h)'
        BY DEF IsHelper
    <2>6. step' = "relocs" =>
              \A j \in SuperKinds : /\ j \notin OwnKinds' => ss'[j] = Helper
                                    /\ Ahead(ss[j], Segment.relocs)'
        BY <1>1, <1>2, <2>3 DEF HelperInv
    <2>7. step' = "intersegs" =>
              \A j \in SuperKinds \ OwnKinds' : Ahead(ss[j], Segment.intersegs)'
        BY <1>1, <1>2, <2>4 DEF HelperInv
    <2>8. /\ DOMAIN ss' = SuperKinds /\ ss' = [j \in SuperKinds |-> ss'[j]]
          /\ \A j \in SuperKinds : IsHelper(ss[j])'
        BY <1>1, <1>2, <2>5 DEF HelperInv
    <2> QED
        BY <2>6, <2>7, <2>8 DEF HelperInv
<1>4. BytesInv'
    <2>1. Faithful(data, n)'
        BY <1>1, <1>2 DEF BytesInv, Faithful, Held
    <2>2. records' \in Seq(FileRecord)
        BY <1>1, <1>2, AppendedByte DEF BytesInv
    <2>3. FileRecord' = FileRecord
        BY DEF FileRecord
    <2> QED
        BY <1>2, <2>1, <2>2, <2>3 DEF BytesInv
<1> QED
    BY <1>2, <1>3, <1>4 DEF FileInv

LEMMA PushRelocKeeps == FileInv /\ PushReloc => FileInv'
<1> SUFFICES ASSUME FileInv, PushReloc PROVE FileInv'
    OBVIOUS
<1>1. step = "relocs" /\ k \in DOMAIN Segment.relocs
    BY DEF PushReloc, AtReloc
<1>2. LoopInv /\ n \in DOMAIN given
    BY <1>1 DEF FileInv, LoopInv, Saving
<1>3. PICK r \in Reloc : r = R
    BY <1>1, <1>2, InHand DEF R
<1>4. PICK o \in {"cRELOC", "RELOC"} : o = IF RShort THEN "cRELOC" ELSE "RELOC"
    OBVIOUS
<1>5. Push([op |-> o, size |-> r.size, shift |-> r.shift, offset |-> r.offset,
            value |-> r.value])
    BY <1>3, <1>4 DEF PushReloc
<1>6. r.size \in Nat /\ r.shift \in Int /\ r.offset \in Nat /\ r.value \in Nat
    BY DEF Reloc
<1>7. [op |-> o, size |-> r.size, shift |-> r.shift, offset |-> r.offset,
       value |-> r.value] \in FileRecord
    BY <1>6 DEF FileRecord
<1> QED
    BY <1>1, <1>5, <1>7, Pushed

LEMMA PushInterSegKeeps == FileInv /\ PushInterSeg => FileInv'
<1> SUFFICES ASSUME FileInv, PushInterSeg PROVE FileInv'
    OBVIOUS
<1>1. step = "intersegs" /\ k \in DOMAIN Segment.intersegs
    BY DEF PushInterSeg, AtInterSeg
<1>2. LoopInv /\ n \in DOMAIN given
    BY <1>1 DEF FileInv, LoopInv, Saving
<1>3. PICK r \in InterSeg : r = I
    BY <1>1, <1>2, InHand DEF I
<1>4. PICK o \in {"cINTERSEG", "INTERSEG"} :
          o = IF IShort THEN "cINTERSEG" ELSE "INTERSEG"
    OBVIOUS
<1>5. Push([op |-> o, size |-> r.size, shift |-> r.shift, offset |-> r.offset,
            segment |-> r.segment, segment_offset |-> r.segment_offset])
    BY <1>3, <1>4 DEF PushInterSeg
<1>6. /\ r.size \in Nat /\ r.shift \in Int /\ r.offset \in Nat
      /\ r.segment \in Nat /\ r.segment_offset \in Nat
    BY DEF InterSeg
<1>7. [op |-> o, size |-> r.size, shift |-> r.shift, offset |-> r.offset,
       segment |-> r.segment, segment_offset |-> r.segment_offset] \in FileRecord
    BY <1>6 DEF FileRecord
<1> QED
    BY <1>1, <1>5, <1>7, Pushed

(* The bytes and the helpers after a record is packed. *)
LEMMA PackedBytes ==
    ASSUME BytesInv, Saving, Saving', given' = given, n' = n, records' = records,
           given[n].data \in Seq(Nat), NEW off \in Nat, NEW count \in Nat, NEW v,
           Covers(off, count, n), data' = Stored(data, off, v, count)
    PROVE  BytesInv'
<1>1. Faithful(data, n) /\ records \in Seq(FileRecord)
    BY DEF BytesInv
<1>2. PICK d : d = Stored(data, off, v, count)
    OBVIOUS
<1>3. Faithful(d, n)
    BY <1>1, <1>2, StoredFaithful
<1>4. Faithful(data, n)'
    BY <1>2, <1>3 DEF Faithful, Held
<1>5. FileRecord' = FileRecord
    BY DEF FileRecord
<1> QED
    BY <1>1, <1>4, <1>5 DEF BytesInv

LEMMA PackedHelpers ==
    ASSUME NEW kind \in SuperKinds, NEW old, NEW s, NEW h,
           old = [j \in SuperKinds |-> old[j]], IsHelper(h),
           \A j \in SuperKinds : IsHelper(old[j]), s = [old EXCEPT ![kind] = h]
    PROVE  /\ DOMAIN s = SuperKinds /\ s = [j \in SuperKinds |-> s[j]]
           /\ \A j \in SuperKinds : IsHelper(s[j])
           /\ s[kind] = h /\ \A j \in SuperKinds \ {kind} : s[j] = old[j]
<1>1. s = [j \in SuperKinds |-> IF j = kind THEN h ELSE old[j]]
    OBVIOUS
<1> QED
    BY <1>1

LEMMA PackRelocKeeps == FileInv /\ PackReloc => FileInv'
<1> SUFFICES ASSUME FileInv, PackReloc PROVE FileInv'
    OBVIOUS
<1>1. /\ step = "relocs" /\ k \in DOMAIN Segment.relocs /\ RKind # NoKind
      /\ NextRecord /\ records' = records
      /\ ss' = [ss EXCEPT ![RKind] = Appended(ss[RKind], R.offset)]
      /\ data' = Stored(data, R.offset, R.value, R.size)
    BY DEF PackReloc, AtReloc, Pack
<1>2. /\ LoopInv' /\ PieceInv' /\ PlaceInv' /\ ExpressInv'
      /\ LoopInv /\ HelperInv /\ BytesInv /\ Saving /\ Saving' /\ step' = step
      /\ n \in DOMAIN given /\ k \in Nat /\ k' = k + 1
      /\ given' = given /\ n' = n /\ Segment' = Segment /\ OwnKinds' = OwnKinds
      /\ given[n].data \in Seq(Nat)
    BY <1>1, RecordDone
<1>3. PICK r \in Reloc : r = R /\ r = Segment.relocs[k]
    BY <1>1, <1>2, InHand DEF R
<1>4. r.offset \in Nat /\ r.size \in Nat
    BY DEF Reloc
<1>5. RKind = RelocKind(Segment.segnum, r)
    BY <1>1, <1>3 DEF RKind
<1>6. RKind \in OwnKinds /\ RKind \in SuperKinds /\ r.size >= 2
    <2>1. PICK g \in Nat \ {0} : g = Segment.segnum
        BY <1>2, InHand
    <2>2. MaxSuper \in 0 .. 12
        BY FileAssumption
    <2> QED
        BY <1>1, <1>4, <1>5, <2>1, <2>2
        DEF RelocKind, OwnKinds, SuperKinds, SUPER_RELOC2, SUPER_RELOC3,
            SUPER_INTERSEG, NoKind
<1>7. BytesInv'
    <2>1. Covers(r.offset, r.size, n)
        BY <1>1, <1>2, <1>3, RecordsCover
    <2>2. data' = Stored(data, r.offset, r.value, r.size)
        BY <1>1, <1>3
    <2> QED
        BY <1>1, <1>2, <1>4, <2>1, <2>2, PackedBytes
<1>8. HelperInv'
    <2>1. PICK kind \in SuperKinds : kind = RKind /\ kind \in OwnKinds
        BY <1>6
    <2>2. PICK h : h = Appended(ss[kind], r.offset)
        OBVIOUS
    <2>3. PICK list : list = Segment.relocs
        OBVIOUS
    <2>4. /\ ss = [j \in SuperKinds |-> ss[j]] /\ \A j \in SuperKinds : IsHelper(ss[j])
          /\ \A j \in SuperKinds : j \notin OwnKinds => ss[j] = Helper
          /\ \A j \in SuperKinds : Ahead(ss[j], list)
        BY <1>1, <1>2, <2>3 DEF HelperInv
    <2>5. InOrder(list) /\ Numbered(list) /\ k \in DOMAIN list /\ list[k] = r
        BY <1>1, <1>2, <1>3, <2>3, InHand, ListsNumbered
    <2>6. IsHelper(h) /\ Ahead(h, list)'
        BY <1>2, <1>6, <2>2, <2>4, <2>5, PackedAhead
    <2>7. ss' = [ss EXCEPT ![kind] = h]
        BY <1>1, <1>3, <2>1, <2>2
    <2>8. /\ DOMAIN ss' = SuperKinds /\ ss' = [j \in SuperKinds |-> ss'[j]]
          /\ \A j \in SuperKinds : IsHelper(ss'[j])
          /\ ss'[kind] = h /\ \A j \in SuperKinds \ {kind} : ss'[j] = ss[j]
        BY <2>4, <2>6, <2>7, PackedHelpers
    <2>9. \A j \in SuperKinds : Ahead(ss[j], list)'
        <3>1. SUFFICES ASSUME NEW j \in SuperKinds PROVE Ahead(ss[j], list)'
            OBVIOUS
        <3>2. CASE j = kind
            <4>1. ss'[j] = h
                BY <2>8, <3>2
            <4> QED
                BY <2>6, <4>1 DEF Ahead
        <3>3. CASE j # kind
            <4>1. PICK g : g = ss[j]
                OBVIOUS
            <4>2. ss'[j] = g
                BY <2>8, <3>3, <4>1
            <4>3. Ahead(g, list)'
                BY <1>2, <2>4, <2>5, <4>1, StaysAhead DEF Numbered
            <4> QED
                BY <4>2, <4>3 DEF Ahead
        <3> QED
            BY <3>2, <3>3
    <2>10. \A j \in SuperKinds : j \notin OwnKinds' => ss'[j] = Helper
        BY <1>2, <2>1, <2>4, <2>8
    <2>11. \A j \in SuperKinds : Ahead(ss[j], Segment.relocs)'
        BY <1>2, <2>3, <2>9 DEF Ahead
    <2>12. \A j \in SuperKinds : IsHelper(ss[j])'
        BY <2>8 DEF IsHelper
    <2> QED
        BY <1>1, <1>2, <2>8, <2>10, <2>11, <2>12 DEF HelperInv
<1> QED
    BY <1>2, <1>7, <1>8 DEF FileInv

LEMMA PackInterSegKeeps == FileInv /\ PackInterSeg => FileInv'
<1> SUFFICES ASSUME FileInv, PackInterSeg PROVE FileInv'
    OBVIOUS
<1>1. PICK v : v = IF I.size = 3 THEN I.segment_offset + I.segment * Byte * Byte
                   ELSE I.segment_offset
    OBVIOUS
<1>2. /\ step = "intersegs" /\ k \in DOMAIN Segment.intersegs /\ IKind # NoKind
      /\ NextRecord /\ records' = records
      /\ ss' = [ss EXCEPT ![IKind] = Appended(ss[IKind], I.offset)]
      /\ data' = Stored(data, I.offset, v, I.size)
    BY <1>1 DEF PackInterSeg, AtInterSeg, Pack
<1>3. /\ LoopInv' /\ PieceInv' /\ PlaceInv' /\ ExpressInv'
      /\ LoopInv /\ HelperInv /\ BytesInv /\ Saving /\ Saving' /\ step' = step
      /\ n \in DOMAIN given /\ k \in Nat /\ k' = k + 1
      /\ given' = given /\ n' = n /\ Segment' = Segment /\ OwnKinds' = OwnKinds
      /\ given[n].data \in Seq(Nat)
    BY <1>2, RecordDone
<1>4. PICK r \in InterSeg : r = I /\ r = Segment.intersegs[k]
    BY <1>2, <1>3, InHand DEF I
<1>5. r.offset \in Nat /\ r.size \in Nat /\ r.segment \in Nat \ {0}
    BY DEF InterSeg
<1>6. IKind = InterSegKind(r)
    BY <1>2, <1>4 DEF IKind
<1>7. IKind \in SuperKinds \ OwnKinds /\ r.size >= 2
    <2>1. PICK g \in Nat \ {0} : g = Segment.segnum
        BY <1>3, InHand
    <2>2. PICK m \in 0 .. 12 : m = MaxSuper
        BY FileAssumption
    <2>3. PICK q \in Nat \ {0} : q = r.segment /\ q # g
        BY <1>2, <1>3, <1>4, <1>5, <2>1, InHand
    <2> QED
        BY <1>2, <1>5, <1>6, <2>1, <2>2, <2>3
        DEF InterSegKind, OwnKinds, SuperKinds, SUPER_RELOC2, SUPER_RELOC3,
            SUPER_INTERSEG, NoKind
<1>8. BytesInv'
    <2>1. Covers(r.offset, r.size, n)
        BY <1>2, <1>3, <1>4, RecordsCover
    <2>2. data' = Stored(data, r.offset, v, r.size)
        BY <1>2, <1>4
    <2> QED
        BY <1>2, <1>3, <1>5, <2>1, <2>2, PackedBytes
<1>9. HelperInv'
    <2>1. PICK kind \in SuperKinds : kind = IKind /\ kind \notin OwnKinds
        BY <1>7
    <2>2. PICK h : h = Appended(ss[kind], r.offset)
        OBVIOUS
    <2>3. PICK list : list = Segment.intersegs
        OBVIOUS
    <2>4. /\ ss = [j \in SuperKinds |-> ss[j]] /\ \A j \in SuperKinds : IsHelper(ss[j])
          /\ \A j \in SuperKinds \ OwnKinds : Ahead(ss[j], list)
        BY <1>2, <1>3, <2>3 DEF HelperInv
    <2>5. InOrder(list) /\ Numbered(list) /\ k \in DOMAIN list /\ list[k] = r
        BY <1>2, <1>3, <1>4, <2>3, InHand, ListsNumbered
    <2>6. IsHelper(h) /\ Ahead(h, list)'
        BY <1>3, <1>7, <2>1, <2>2, <2>4, <2>5, PackedAhead
    <2>7. ss' = [ss EXCEPT ![kind] = h]
        BY <1>2, <1>4, <2>1, <2>2
    <2>8. /\ DOMAIN ss' = SuperKinds /\ ss' = [j \in SuperKinds |-> ss'[j]]
          /\ \A j \in SuperKinds : IsHelper(ss'[j])
          /\ ss'[kind] = h /\ \A j \in SuperKinds \ {kind} : ss'[j] = ss[j]
        BY <2>4, <2>6, <2>7, PackedHelpers
    <2>9. \A j \in SuperKinds \ OwnKinds : Ahead(ss[j], list)'
        <3>1. SUFFICES ASSUME NEW j \in SuperKinds \ OwnKinds PROVE Ahead(ss[j], list)'
            OBVIOUS
        <3>2. CASE j = kind
            <4>1. ss'[j] = h
                BY <2>8, <3>2
            <4> QED
                BY <2>6, <4>1 DEF Ahead
        <3>3. CASE j # kind
            <4>1. PICK g : g = ss[j]
                OBVIOUS
            <4>2. ss'[j] = g
                BY <2>8, <3>3, <4>1
            <4>3. Ahead(g, list)'
                BY <1>3, <2>4, <2>5, <4>1, StaysAhead DEF Numbered
            <4> QED
                BY <4>2, <4>3 DEF Ahead
        <3> QED
            BY <3>2, <3>3
    <2>10. \A j \in SuperKinds \ OwnKinds' : Ahead(ss[j], Segment.intersegs)'
        BY <1>3, <2>3, <2>9 DEF Ahead
    <2>11. \A j \in SuperKinds : IsHelper(ss[j])'
        BY <2>8 DEF IsHelper
    <2> QED
        BY <1>2, <1>3, <2>8, <2>10, <2>11 DEF HelperInv
<1> QED
    BY <1>3, <1>8, <1>9 DEF FileInv

-----------------------------------------------------------------------------
(* Sizes and blocks. *)

LEMMA RoundUp ==
    ASSUME NEW e \in Nat, NEW b \in Int, b > 0
    PROVE  (e + b - (e % b)) % b = 0
<1>1. PICK q \in Int, r \in 0 .. b - 1 : r = e % b /\ e = b * q + r
    BY Division
<1>2. e + b - r = (q + 1) * b + 0
    BY <1>1
<1>3. ((q + 1) * b + 0) % b = 0
    <2>1. PICK a \in Int : a = q + 1
        BY <1>1
    <2>2. (a * b + 0) % b = 0
        OBVIOUS
    <2> QED
        BY <2>1, <2>2
<1> QED
    BY <1>1, <1>2, <1>3

(* What starts with a block and does not end with one ends in the last of  *)
(* the blocks that its header counts.                                      *)
LEMMA BlocksReach ==
    ASSUME NEW at \in Nat, NEW size \in Nat, NEW b \in Int, b > 0,
           at % b = 0, (at + size) % b # 0
    PROVE  at + size + b - ((at + size) % b) = at + ((size + b - 1) \div b) * b
<1>1. PICK a \in Int : at = b * a
    <2>1. at = b * (at \div b) + (at % b) /\ at \div b \in Int
        BY Division
    <2> QED
        BY <2>1
<1>2. PICK q \in Int, r \in 0 .. b - 1 : size = b * q + r
    <2>1. /\ size \div b \in Int /\ size % b \in 0 .. b - 1
          /\ size = b * (size \div b) + (size % b)
        BY Division
    <2> QED
        BY <2>1
<1>3. (at + size) % b = r
    <2>1. at + size = (a + q) * b + r
        BY <1>1, <1>2
    <2>2. PICK c \in Int : c = a + q
        BY <1>1, <1>2
    <2>3. (c * b + r) % b = r
        BY <1>2
    <2> QED
        BY <2>1, <2>2, <2>3
<1>4. (size + b - 1) \div b = q + 1
    <2>1. r # 0
        BY <1>3
    <2>2. PICK s \in 0 .. b - 1 : s = r - 1
        BY <1>2, <2>1
    <2>3. PICK c \in Int : c = q + 1
        BY <1>2
    <2>4. size + b - 1 = c * b + s
        BY <1>2, <2>2, <2>3
    <2>5. (c * b + s) \div b = c
        OBVIOUS
    <2> QED
        BY <2>3, <2>4, <2>5
<1>5. at + size + b - r = at + (q + 1) * b
    BY <1>1, <1>2
<1> QED
    BY <1>3, <1>4, <1>5

LEMMA ResultsAre ==
    ASSUME NEW len \in Nat, NEW r \in Results(len)
    PROVE  /\ r \in Int /\ Stays(r) \in Nat /\ (r # -1 => Stays(r) = r)
           /\ (len = 0 => r = 0)
<1>1. CASE r = len
    BY <1>1 DEF Stays
<1>2. CASE r # len
    <2>1. len # 0 /\ r \in {-1} \cup {len - m : m \in {x \in Missing : x < len}}
        BY <1>2 DEF Results
    <2>2. CASE r = -1
        BY <2>1, <2>2 DEF Stays
    <2>3. CASE r # -1
        <3>1. PICK x \in Missing : x < len /\ r = len - x
            BY <2>1, <2>3
        <3>2. x \in Nat
            BY FileAssumption
        <3> QED
            BY <2>1, <2>3, <3>1, <3>2 DEF Stays
    <2> QED
        BY <2>2, <2>3
<1> QED
    BY <1>1, <1>2

LEMMA WrongIsNumber ==
    ASSUME NEW m \in Nat, NEW rs, NEW ls, DOMAIN rs = 1 .. m
    PROVE  Wrong(rs, ls) \in Nat
<1>1. IsFiniteSet(1 .. m)
    BY FS_Interval
<1>2. {x \in DOMAIN rs : rs[x] # ls[x]} \subseteq 1 .. m
    OBVIOUS
<1>3. IsFiniteSet({x \in DOMAIN rs : rs[x] # ls[x]})
    BY <1>1, <1>2, FS_Subset
<1> QED
    BY <1>3, FS_CardinalityType DEF Wrong

LEMMA RecordSizes ==
    ASSUME NEW rs \in Seq(FileRecord)
    PROVE  SizeOfRecords(rs) \in Nat
<1>1. \A r \in FileRecord : SizeOfRecord(r) \in Nat
    <2>1. SUFFICES ASSUME NEW r \in FileRecord PROVE SizeOfRecord(r) \in Nat
        OBVIOUS
    <2>2. CASE r \in SuperRecord
        <3>1. r.op = "SUPER" /\ r.data \in Seq(0 .. Byte - 1)
            BY <2>2 DEF SuperRecord
        <3>2. Len(r.data) \in Nat
            BY <3>1
        <3> QED
            BY <3>1, <3>2 DEF SizeOfRecord
    <2>3. CASE r \notin SuperRecord
        <3>1. r.op \in {"cRELOC", "RELOC", "cINTERSEG", "INTERSEG"}
            BY <2>3 DEF FileRecord
        <3>2. OpSize[r.op] \in Nat
            BY <3>1 DEF OpSize
        <3> QED
            BY <3>1, <3>2 DEF SizeOfRecord
    <2> QED
        BY <2>2, <2>3
<1>2. Len(rs) \in Nat /\ DOMAIN rs = 1 .. Len(rs)
    OBVIOUS
<1> DEFINE S == [j \in DOMAIN rs |-> SizeOfRecord(rs[j])]
<1>3. S \in [1 .. Len(rs) -> Nat]
    BY <1>1, <1>2
<1>4. SizeOfRecords(rs) = Sum(S)
    BY DEF SizeOfRecords
<1> HIDE DEF S
<1> QED
    BY <1>2, <1>3, <1>4, SumIsNatural

LEMMA NameSizes ==
    ASSUME NEW name \in Nat
    PROVE  /\ Written(name) \in Nat /\ Written(name) <= 1 + name
           /\ (name <= NameMax => Written(name) = 1 + name)
           /\ (name > NameMax => Written(name) < 1 + name)
           /\ Displacement(name) \in Nat /\ Displacement(name) >= HeaderSize
<1>1. NameMax \in Nat
    BY FileAssumption
<1> QED
    BY <1>1 DEF Written, Least, Displacement, HeaderSize, Load

LEMMA IsPieceStays ==
    ASSUME UNCHANGED << given, segments, v1 >>, NEW p, NEW j, IsPiece(p, j)
    PROVE  IsPiece(p, j)'
<1>1. FileRecord' = FileRecord
    BY DEF FileRecord
<1> QED
    BY <1>1 DEF IsPiece, Faithful, Held

LEMMA HeadersAre ==
    ASSUME NEW m \in Nat, NEW list, DOMAIN list = 1 .. m,
           \A j \in 1 .. m : list[j].size = EntrySize(j)
    PROVE  Sum([j \in DOMAIN list |-> list[j].size]) = HeadersSize(m)
<1>1. [j \in DOMAIN list |-> list[j].size] = [j \in 1 .. m |-> EntrySize(j)]
    OBVIOUS
<1> QED
    BY <1>1 DEF HeadersSize

-----------------------------------------------------------------------------
(* The end of a segment. *)

(* The piece p goes to the place that was kept; `at' is where the next     *)
(* one goes, `known' where save_omf() believes it does.                    *)
Ended(p, at, known) ==
    /\ IsPiece(p, n) /\ p.at = position
    /\ p.data = data /\ p.records = records
    /\ at \in Nat /\ known \in Int
    /\ ~p.failed /\ offset = position => known = at
    /\ p.whole =>
           /\ ~v1 => at = p.at + p.size
           /\ v1 /\ n < Len(given) /\ p.padded /\ offset = position =>
                  at = p.at + p.size + BlockSize - ((p.at + p.size) % BlockSize)
    /\ v1 /\ n < Len(given) /\ p.padded /\ ~p.failed /\ offset = position =>
           at % BlockSize = 0

LEMMA EndSegmentEnds ==
    ASSUME FileInv, EndSegment
    PROVE  \E p : /\ file' = Append(file, p) /\ Ended(p, position', offset')
                  /\ faults' \in 0 .. MaxFaults
<1>1. /\ LoopInv /\ BytesInv /\ PlaceInv /\ step = "write" /\ Saving /\ Opened
    BY DEF FileInv, EndSegment, Saving, Opened
<1>2. /\ n \in DOMAIN given /\ n \in Nat /\ Len(given) \in Nat
      /\ Len(segments) = Len(given)
    BY <1>1, SegmentsAlike DEF LoopInv
<1>3. /\ Faithful(data, n) /\ records \in Seq(FileRecord) /\ offset \in Int
      /\ position \in Nat /\ faults \in Nat
    BY <1>1 DEF BytesInv, PlaceInv
<1>4. PICK disp \in Nat : /\ disp = Displacement(Segment.segname) /\ disp >= HeaderSize
                          /\ disp = Displacement(given[n].segname)
    <2>1. given[n].segname \in Nat /\ Segment.segname = given[n].segname
        BY <1>1, <1>2, InHand DEF LinkSegment, Alike
    <2> QED
        BY <2>1, NameSizes
<1>5. PICK len \in Nat : len = Len(data)
    <2>1. Len(given[n].data) \in Nat
        BY <1>1, <1>2, InHand DEF LinkSegment
    <2>2. IsList(data, Len(given[n].data))
        BY <1>3 DEF Faithful
    <2> QED
        BY <2>1, <2>2, ListLength
<1>6. PICK sr \in Nat : sr = SizeOfRecords(records)
    BY <1>3, RecordSizes
<1>7. PICK rest \in Nat : rest = disp - HeaderSize + Bytes + SizeOfRecords(records) + 1
                          /\ HeaderSize + rest = disp + 5 + len + sr + 1
    <2>1. disp - HeaderSize + Bytes + SizeOfRecords(records) + 1
              = disp - HeaderSize + (5 + len) + sr + 1
        BY <1>5, <1>6 DEF Bytes
    <2>2. PICK m \in Nat : m = disp - HeaderSize + (5 + len) + sr + 1
        BY <1>4 DEF HeaderSize
    <2>3. HeaderSize + m = disp + 5 + len + sr + 1
        BY <2>2 DEF HeaderSize
    <2> QED
        BY <2>1, <2>2, <2>3
<1>8. PICK header \in Results(HeaderSize), body \in Results(rest) :
          LET end == offset + Moved(header, HeaderSize) + Moved(body, rest)
              pad == Padding(end)
          IN  \E zeros \in Results(pad) :
               /\ faults' = faults + Wrong(<< header, body, zeros >>,
                                           << HeaderSize, rest, pad >>)
               /\ faults' <= MaxFaults
               /\ offset' = end + Moved(zeros, pad)
               /\ position' = position + Stays(header) + Stays(body) + Stays(zeros)
               /\ file' = Append(file,
                      [at |-> position, size |-> HeaderSize + rest,
                       segnum |-> Segment.segnum,
                       bytecount |-> IF v1 THEN Blocks(HeaderSize + rest)
                                     ELSE HeaderSize + rest,
                       dispdata |-> disp, data |-> data, records |-> records,
                       whole |-> header = HeaderSize /\ body = rest,
                       padded |-> zeros = pad,
                       failed |-> -1 \in {header, body, zeros}])
    <2> DEFINE room == Displacement(Segment.segname)
               all  == room - HeaderSize + Bytes + SizeOfRecords(records) + 1
    <2>1. \E header \in Results(HeaderSize), body \in Results(all) :
              LET end == offset + Moved(header, HeaderSize) + Moved(body, all)
                  pad == Padding(end)
              IN  \E zeros \in Results(pad) :
                   /\ faults' = faults + Wrong(<< header, body, zeros >>,
                                               << HeaderSize, all, pad >>)
                   /\ faults' <= MaxFaults
                   /\ offset' = end + Moved(zeros, pad)
                   /\ position' = position + Stays(header) + Stays(body) + Stays(zeros)
                   /\ file' = Append(file,
                          [at |-> position, size |-> HeaderSize + all,
                           segnum |-> Segment.segnum,
                           bytecount |-> IF v1 THEN Blocks(HeaderSize + all)
                                         ELSE HeaderSize + all,
                           dispdata |-> room, data |-> data, records |-> records,
                           whole |-> header = HeaderSize /\ body = all,
                           padded |-> zeros = pad,
                           failed |-> -1 \in {header, body, zeros}])
        BY DEF EndSegment
    <2>2. room = disp /\ all = rest
        BY <1>4, <1>7
    <2> HIDE DEF room, all
    <2> QED
        BY <2>1, <2>2
<1>9. HeaderSize \in Nat
    BY DEF HeaderSize
<1>10. PICK end \in Int : end = offset + header + body
    BY <1>3, <1>7, <1>9, ResultsAre
<1>11. BlockSize \in Int /\ BlockSize > 0
    BY FileAssumption
<1>12. PICK pad \in Nat :
           /\ pad = Padding(end) /\ (~(v1 /\ n < Len(given)) => pad = 0)
           /\ v1 /\ n < Len(given) => pad = BlockSize - (end % BlockSize)
    <2>1. end % BlockSize \in 0 .. BlockSize - 1
        BY <1>11, Division
    <2>2. BlockSize - (end % BlockSize) \in Nat
        BY <1>11, <2>1
    <2> QED
        BY <1>2, <2>2 DEF Padding
<1>13. PICK zeros \in Results(pad) :
           /\ faults' = faults + Wrong(<< header, body, zeros >>,
                                       << HeaderSize, rest, pad >>)
           /\ faults' <= MaxFaults /\ offset' = end + zeros
           /\ position' = position + Stays(header) + Stays(body) + Stays(zeros)
           /\ file' = Append(file,
                  [at |-> position, size |-> HeaderSize + rest,
                   segnum |-> Segment.segnum,
                   bytecount |-> IF v1 THEN Blocks(HeaderSize + rest)
                                 ELSE HeaderSize + rest,
                   dispdata |-> disp, data |-> data, records |-> records,
                   whole |-> header = HeaderSize /\ body = rest,
                   padded |-> zeros = pad,
                   failed |-> -1 \in {header, body, zeros}])
    BY <1>8, <1>10, <1>12 DEF Moved
<1>14. PICK p : p = [at |-> position, size |-> HeaderSize + rest,
                     segnum |-> Segment.segnum,
                     bytecount |-> IF v1 THEN Blocks(HeaderSize + rest)
                                   ELSE HeaderSize + rest,
                     dispdata |-> disp, data |-> data, records |-> records,
                     whole |-> header = HeaderSize /\ body = rest,
                     padded |-> zeros = pad,
                     failed |-> -1 \in {header, body, zeros}]
    OBVIOUS
<1>15. /\ p.at = position /\ p.size = HeaderSize + rest /\ p.segnum = Segment.segnum
       /\ p.bytecount = IF v1 THEN Blocks(p.size) ELSE p.size
       /\ p.dispdata = disp /\ p.data = data /\ p.records = records
       /\ (p.whole <=> header = HeaderSize /\ body = rest) /\ (p.padded <=> zeros = pad)
       /\ (p.failed <=> -1 \in {header, body, zeros})
    BY <1>14
<1>16. IsPiece(p, n)
    <2>1. p.size = p.dispdata + 5 + Len(p.data) + SizeOfRecords(p.records) + 1
        BY <1>5, <1>6, <1>7, <1>15
    <2>2. p.segnum = segments[n].segnum
        BY <1>15 DEF Segment
    <2> QED
        BY <1>3, <1>4, <1>15, <2>1, <2>2 DEF IsPiece
<1>17. /\ header \in Int /\ Stays(header) \in Nat /\ (header # -1 => Stays(header) = header)
       /\ body \in Int /\ Stays(body) \in Nat /\ (body # -1 => Stays(body) = body)
       /\ zeros \in Int /\ Stays(zeros) \in Nat /\ (zeros # -1 => Stays(zeros) = zeros)
       /\ (pad = 0 => zeros = 0)
    BY <1>7, <1>9, <1>12, <1>13, ResultsAre
<1>18. position' \in Nat /\ offset' \in Int
    BY <1>3, <1>10, <1>13, <1>17, SMTT(40)
<1>19. ~p.failed /\ offset = position => offset' = position'
    BY <1>3, <1>10, <1>13, <1>15, <1>17
<1>20. p.whole => /\ header = HeaderSize /\ body = rest
                  /\ position' = p.at + p.size + Stays(zeros)
                  /\ offset = position => end = p.at + p.size
    <2>1. SUFFICES ASSUME p.whole
                   PROVE  /\ header = HeaderSize /\ body = rest
                          /\ position' = p.at + p.size + Stays(zeros)
                          /\ offset = position => end = p.at + p.size
        OBVIOUS
    <2>2. header = HeaderSize /\ body = rest
        BY <1>15, <2>1
    <2>3. Stays(header) = HeaderSize /\ Stays(body) = rest
        BY <1>7, <1>9, <1>17, <2>2
    <2>4. position' = p.at + p.size + Stays(zeros)
        BY <1>3, <1>7, <1>9, <1>13, <1>15, <1>17, <2>3
    <2>5. offset = position => end = p.at + p.size
        BY <1>3, <1>7, <1>9, <1>10, <1>15, <2>2
    <2> QED
        BY <2>2, <2>4, <2>5
<1>21. p.whole => /\ ~v1 => position' = p.at + p.size
                  /\ v1 /\ n < Len(given) /\ p.padded /\ offset = position =>
                         position' = p.at + p.size + BlockSize
                                     - ((p.at + p.size) % BlockSize)
    <2>1. p.at + p.size \in Nat
        BY <1>3, <1>7, <1>9, <1>15, SMTT(40)
    <2>2. ASSUME p.whole, ~v1 PROVE position' = p.at + p.size
        BY <1>12, <1>17, <1>20, <2>1, <2>2
    <2>3. ASSUME p.whole, v1 /\ n < Len(given) /\ p.padded /\ offset = position
          PROVE  position' = p.at + p.size + BlockSize - ((p.at + p.size) % BlockSize)
        <3>1. PICK e \in Nat : e = p.at + p.size /\ e = end
            BY <1>20, <2>1, <2>3
        <3>2. zeros = BlockSize - (e % BlockSize) /\ zeros # -1
            BY <1>12, <1>15, <2>3, <3>1
        <3>3. e % BlockSize \in Int
            BY <1>11, <3>1, Division
        <3>4. position' = e + (BlockSize - (e % BlockSize))
            BY <1>17, <1>20, <2>3, <3>1, <3>2
        <3>5. position' = e + BlockSize - (e % BlockSize)
            BY <1>11, <3>3, <3>4
        <3> QED
            BY <3>1, <3>5
    <2> QED
        BY <2>2, <2>3
<1>22. v1 /\ n < Len(given) /\ p.padded /\ ~p.failed /\ offset = position =>
           position' % BlockSize = 0
    <2>1. SUFFICES ASSUME v1, n < Len(given), p.padded, ~p.failed, offset = position
                   PROVE  position' % BlockSize = 0
        OBVIOUS
    <2>2. header # -1 /\ body # -1 /\ zeros # -1 /\ zeros = BlockSize - (end % BlockSize)
        BY <1>12, <1>15, <2>1
    <2>3. end = position + Stays(header) + Stays(body)
        BY <1>3, <1>10, <1>17, <2>1, <2>2
    <2>4. PICK e \in Nat : e = end
        BY <1>3, <1>17, <2>3
    <2>5. e % BlockSize \in Int
        BY <1>11, <2>4, Division
    <2>6. position' = e + BlockSize - (e % BlockSize)
        BY <1>3, <1>11, <1>13, <1>17, <2>2, <2>3, <2>4, <2>5
    <2> QED
        BY <1>11, <2>6, RoundUp
<1>23. faults' \in 0 .. MaxFaults
    <2>1. Wrong(<< header, body, zeros >>, << HeaderSize, rest, pad >>) \in Nat
        <3>1. DOMAIN << header, body, zeros >> = 1 .. 3
            OBVIOUS
        <3> QED
            BY <3>1, WrongIsNumber
    <2>2. MaxFaults \in Nat
        BY FileAssumption
    <2> QED
        BY <1>3, <1>13, <2>1, <2>2
<1>24. Ended(p, position', offset')
    BY <1>15, <1>16, <1>18, <1>19, <1>21, <1>22 DEF Ended
<1>25. file' = Append(file, p)
    BY <1>13, <1>14
<1> QED
    BY <1>23, <1>24, <1>25

LEMMA EntryStays ==
    ASSUME NEW m \in Nat, Kept(m), NEW j \in 1 .. m + 1, NEW h, NEW p, IsEntry(h, p, j)
    PROVE  IsEntry(h, p, j)'
<1>1. given' = given
    BY DEF Kept
<1>2. PICK i \in Int : i = j - 1 /\ i <= m
    OBVIOUS
<1>3. Clean(i)' <=> Clean(i)
    BY <1>2, KeptClean
<1> QED
    BY <1>1, <1>2, <1>3 DEF IsEntry, EntrySize

LEMMA EndSegmentKeeps == FileInv /\ EndSegment => FileInv'
<1> SUFFICES ASSUME FileInv, EndSegment PROVE FileInv'
    OBVIOUS
<1>1. /\ LoopInv /\ HelperInv /\ BytesInv /\ PieceInv /\ PlaceInv /\ ExpressInv
      /\ step = "write" /\ step' = "segment" /\ n' = n + 1 /\ k' = k /\ ss' = ss
      /\ UNCHANGED << given, segments, v1, expressload >>
    BY DEF FileInv, EndSegment, flags, segmentVars
<1>2. Opened /\ Opened' /\ Saving /\ ~Saving' /\ First = 0 /\ First' = 0
    BY <1>1 DEF Opened, Saving, First, Closed
<1>3. /\ Len(given) \in Nat /\ DOMAIN given = 1 .. Len(given)
      /\ Len(segments) = Len(given)
    BY <1>1, SegmentsAlike
<1>4. PICK m \in Nat : m = n - 1 /\ n = m + 1 /\ n \in DOMAIN given
    BY <1>1, <1>2, <1>3 DEF LoopInv
<1>5. LoopInv'
    <2>1. n' \in 1 .. Len(given) + 1
        BY <1>1, <1>3, <1>4
    <2> QED
        BY <1>1, <1>2, <2>1 DEF LoopInv
<1>6. HelperInv'
    BY <1>1 DEF HelperInv, IsHelper
<1>7. BytesInv'
    BY <1>2 DEF BytesInv
<1>8. PICK p : /\ file' = Append(file, p) /\ Ended(p, position', offset')
               /\ faults' \in 0 .. MaxFaults
    BY EndSegmentEnds
<1>9. IsList(file, m)
    BY <1>1, <1>2, <1>4 DEF PieceInv
<1>10. /\ IsList(file', m + 1) /\ file'[m + 1] = p
       /\ \A j \in 1 .. m : file'[j] = file[j]
    <2>1. PICK f : f = file /\ IsList(f, m)
        BY <1>9
    <2>2. Extended(Append(f, p), f, p, m)
        BY <2>1, ListGrows
    <2>3. file' = Append(f, p)
        BY <1>8, <2>1
    <2> QED
        BY <2>1, <2>2, <2>3 DEF Extended
<1>11. /\ Piece(m + 1)' = p /\ \A j \in 1 .. m : Piece(j)' = Piece(j)
    BY <1>2, <1>10 DEF Piece
<1>12. Kept(m)
    BY <1>1, <1>11 DEF Kept
<1>13. \A j \in 1 .. m + 1 : j \in 1 .. m \/ j = m + 1
    OBVIOUS
<1>14. PieceInv'
    <2>1. \A j \in 1 .. m : IsPiece(Piece(j), j)'
        <3>1. SUFFICES ASSUME NEW j \in 1 .. m PROVE IsPiece(Piece(j), j)'
            OBVIOUS
        <3>2. PICK q : q = Piece(j)
            OBVIOUS
        <3>3. IsPiece(q, j)
            BY <1>1, <1>4, <3>2 DEF PieceInv
        <3>4. IsPiece(q, j)'
            BY <1>1, <3>3, IsPieceStays
        <3>5. Piece(j)' = q
            BY <1>11, <3>2
        <3> QED
            BY <3>4, <3>5
    <2>2. IsPiece(Piece(m + 1), m + 1)'
        <3>1. IsPiece(p, m + 1)
            BY <1>4, <1>8 DEF Ended
        <3>2. PICK j : j = m + 1
            OBVIOUS
        <3>3. IsPiece(p, j)'
            BY <1>1, <3>1, <3>2, IsPieceStays
        <3> QED
            BY <1>11, <3>2, <3>3
    <2>3. n' - 1 = m + 1 /\ n' - 1 + First' = m + 1
        BY <1>1, <1>2, <1>4
    <2>4. \A j \in 1 .. m + 1 : IsPiece(Piece(j), j)'
        BY <1>13, <2>1, <2>2
    <2>5. IsList(file, n - 1 + First)'
        BY <1>10, <2>3
    <2> QED
        BY <2>3, <2>4, <2>5 DEF PieceInv
<1>15. PICK at \in Nat, known \in Int : at = position' /\ known = offset'
    BY <1>8 DEF Ended
<1>16. /\ Piece(m + 1)'.at = position
       /\ ~Piece(m + 1)'.failed /\ offset = position => known = at
       /\ Piece(m + 1)'.whole =>
              LET end == Piece(m + 1)'.at + Piece(m + 1)'.size
              IN  /\ ~v1 => at = end
                  /\ v1 /\ m + 1 < Len(given) /\ Piece(m + 1)'.padded
                        /\ offset = position =>
                         at = end + BlockSize - (end % BlockSize)
       /\ v1 /\ m + 1 < Len(given) /\ Piece(m + 1)'.padded /\ ~Piece(m + 1)'.failed
             /\ offset = position => at % BlockSize = 0
    BY <1>4, <1>8, <1>11, <1>15 DEF Ended
<1>17. Clean(m) => offset = position
    BY <1>1, <1>2, <1>4 DEF PlaceInv
<1>18. (Clean(m)' <=> Clean(m)) /\ (Clean(m + 1)' <=> Clean(m)' /\ ~Piece(m + 1)'.failed)
    <2>1. Clean(m)' <=> Clean(m)
        BY <1>12, KeptClean
    <2>2. \A j \in 1 .. m : j \in 1 .. m + 1
        OBVIOUS
    <2>3. m + 1 \in 1 .. m + 1
        OBVIOUS
    <2> QED
        BY <1>13, <2>1, <2>2, <2>3 DEF Clean
<1>19. PlaceInv'
    <2>1. \A j \in 1 .. m + 1 : Follows(j, Piece(j).at)'
        <3>1. SUFFICES ASSUME NEW j \in 1 .. m + 1 PROVE Follows(j, Piece(j).at)'
            OBVIOUS
        <3>2. PICK x : x = Piece(j)'.at
            OBVIOUS
        <3>3. Follows(j, x)
            <4>1. CASE j \in 1 .. m
                <5>1. x = Piece(j).at
                    BY <1>11, <3>2, <4>1
                <5> QED
                    BY <1>1, <1>2, <1>4, <4>1, <5>1 DEF PlaceInv
            <4>2. CASE j = m + 1
                <5>1. x = position
                    BY <1>16, <3>2, <4>2
                <5>2. Follows(n, position)
                    BY <1>1, <1>2 DEF PlaceInv
                <5> QED
                    BY <1>4, <4>2, <5>1, <5>2
            <4> QED
                BY <1>13, <4>1, <4>2
        <3>4. Follows(j, x)'
            BY <1>12, <3>3, KeptFollows
        <3> QED
            BY <3>2, <3>4
    <2>2. Follows(n, position)'
        <3>1. PICK j : j = m + 2
            OBVIOUS
        <3>2. /\ j # 1 /\ j > 1 /\ j - 1 = m + 1 /\ j - 2 = m
              /\ (j <= Len(given') => m + 1 < Len(given))
            BY <1>1, <1>3, <3>1
        <3>3. Piece(j - 1)' = Piece(m + 1)' /\ (Clean(j - 1)' <=> Clean(m + 1)')
              /\ (Clean(j - 2)' <=> Clean(m)')
            BY <3>2
        <3>4. Piece(j - 1)'.whole =>
                  LET end == Piece(j - 1)'.at + Piece(j - 1)'.size
                  IN  /\ ~v1' => at = end
                      /\ v1' /\ j <= Len(given') /\ Piece(j - 1)'.padded /\ Clean(j - 2)' =>
                             at = end + BlockSize - (end % BlockSize)
            BY <1>1, <1>16, <1>17, <1>18, <3>2, <3>3
        <3>5. v1' /\ j <= Len(given') /\ (j > 1 => Piece(j - 1)'.padded) /\ Clean(j - 1)' =>
                  at % BlockSize = 0
            BY <1>1, <1>16, <1>17, <1>18, <3>2, <3>3
        <3>6. Follows(j, at)'
            BY <3>2, <3>4, <3>5 DEF Follows
        <3>7. n' = j
            <4>1. n' = (m + 1) + 1
                BY <1>1, <1>4
            <4>2. (m + 1) + 1 = m + 2
                OBVIOUS
            <4> QED
                BY <3>1, <4>1, <4>2
        <3> QED
            BY <1>15, <3>6, <3>7
    <2>3. Clean(m + 1)' => offset' = position'
        BY <1>15, <1>16, <1>17, <1>18
    <2>4. n' - 1 = m + 1
        BY <1>1, <1>4
    <2>5. Clean(n - 1)' => offset' = position'
        BY <2>3, <2>4
    <2>6. \A j \in 1 .. n' - 1 : Follows(j, Piece(j).at)'
        BY <2>1, <2>4
    <2> QED
        BY <1>1, <1>8, <1>15, <2>2, <2>5, <2>6 DEF PlaceInv
<1>20. ExpressInv'
    <2>1. SUFFICES ASSUME expressload PROVE ExpressInv'
        BY <1>1 DEF ExpressInv
    <2>2. /\ expr_offsets' = Append(expr_offsets, SizeOfHeaders)
          /\ expr_headers' = Append(expr_headers, ExpressHeader)
        BY <2>1 DEF EndSegment
    <2>3. /\ IsList(expr_headers, m) /\ IsList(expr_offsets, m)
          /\ \A j \in 1 .. m : /\ IsEntry(expr_headers[j], Piece(j), j)
                               /\ expr_offsets[j] = HeadersSize(j - 1)
        BY <1>1, <1>4, <2>1 DEF ExpressInv
    <2>4. SizeOfHeaders = HeadersSize(m)
        <3>1. PICK list : list = expr_headers
            OBVIOUS
        <3>2. DOMAIN list = 1 .. m
            BY <2>3, <3>1, ListLength
        <3>3. \A j \in 1 .. m : list[j].size = EntrySize(j)
            BY <2>3, <3>1 DEF IsEntry
        <3>4. Sum([j \in DOMAIN list |-> list[j].size]) = HeadersSize(m)
            BY <3>2, <3>3, HeadersAre
        <3> QED
            BY <3>1, <3>4 DEF SizeOfHeaders
    <2>5. PICK h : h = ExpressHeader
        OBVIOUS
    <2>6. IsEntry(h, p, m + 1)
        <3>1. /\ p.at = position /\ p.data = data /\ p.records = records /\ IsPiece(p, n)
            BY <1>8 DEF Ended
        <3>2. p.segnum = Segment.segnum /\ p.dispdata = Displacement(given[n].segname)
            BY <3>1 DEF IsPiece, Segment
        <3>3. Segment.segname = given[n].segname
            BY <1>1, <1>4, InHand DEF Alike
        <3>4. /\ h.lconst_offset = IF Len(data) = 0 THEN 0
                                   ELSE offset + Displacement(Segment.segname) + 5
              /\ h.lconst_size = Len(data)
              /\ h.reloc_offset = IF records = << >> THEN 0
                                  ELSE offset + Displacement(Segment.segname) + Bytes
              /\ h.reloc_size = SizeOfRecords(records) /\ h.segnum = Segment.segnum
              /\ h.size = EntryFixed - 1 + Written(Segment.segname)
            BY <2>5 DEF ExpressHeader
        <3>5. h.size = EntrySize(m + 1)
            BY <1>4, <3>3, <3>4 DEF EntrySize
        <3>6. PICK len \in Nat : len = Len(data) /\ (data # << >> => len # 0)
            <4>1. given[n].data \in Seq(Nat)
                BY <1>1, <1>4, InHand DEF LinkSegment
            <4>2. PICK c \in Nat : c = Len(given[n].data)
                BY <4>1
            <4>3. IsList(data, c)
                BY <1>1, <1>2, <4>2 DEF BytesInv, Faithful
            <4> QED
                BY <4>3, ListLength
        <3>7. PICK disp \in Nat : disp = Displacement(given[n].segname)
            <4>1. given[n].segname \in Nat
                BY <1>1, <1>4, InHand DEF LinkSegment
            <4> QED
                BY <4>1, NameSizes
        <3>8. offset \in Int /\ position \in Nat
            BY <1>1 DEF PlaceInv
        <3>9. Clean(m) => /\ data # << >> => h.lconst_offset = position + disp + 5
                          /\ records # << >> => h.reloc_offset = position + disp + 5 + len
            <4>1. SUFFICES ASSUME Clean(m)
                           PROVE  /\ data # << >> => h.lconst_offset = position + disp + 5
                                  /\ records # << >> =>
                                         h.reloc_offset = position + disp + 5 + len
                OBVIOUS
            <4>2. offset = position
                BY <1>17, <4>1
            <4>3. Displacement(Segment.segname) = disp /\ Bytes = 5 + len
                BY <3>3, <3>6, <3>7 DEF Bytes
            <4>4. data # << >> => h.lconst_offset = position + disp + 5
                BY <3>4, <3>6, <4>2, <4>3
            <4>5. records # << >> => h.reloc_offset = position + disp + (5 + len)
                BY <3>4, <4>2, <4>3
            <4> QED
                BY <3>6, <3>7, <3>8, <4>4, <4>5
        <3>10. m + 1 - 1 = m
            OBVIOUS
        <3> QED
            BY <3>1, <3>2, <3>4, <3>5, <3>6, <3>7, <3>9, <3>10 DEF IsEntry
    <2>7. /\ IsList(expr_headers', m + 1) /\ expr_headers'[m + 1] = h
          /\ \A j \in 1 .. m : expr_headers'[j] = expr_headers[j]
        <3>1. PICK f : f = expr_headers /\ IsList(f, m)
            BY <2>3
        <3>2. Extended(Append(f, h), f, h, m)
            BY <3>1, ListGrows
        <3>3. expr_headers' = Append(f, h)
            BY <2>2, <2>5, <3>1
        <3> QED
            BY <3>1, <3>2, <3>3 DEF Extended
    <2>8. /\ IsList(expr_offsets', m + 1) /\ expr_offsets'[m + 1] = HeadersSize(m)
          /\ \A j \in 1 .. m : expr_offsets'[j] = expr_offsets[j]
        <3>1. PICK f : f = expr_offsets /\ IsList(f, m)
            BY <2>3
        <3>2. PICK e : e = SizeOfHeaders
            OBVIOUS
        <3>3. Extended(Append(f, e), f, e, m)
            BY <3>1, ListGrows
        <3>4. expr_offsets' = Append(f, e)
            BY <2>2, <3>1, <3>2
        <3> QED
            BY <2>4, <3>1, <3>2, <3>3, <3>4 DEF Extended
    <2>9. \A x : HeadersSize(x)' = HeadersSize(x)
        BY <1>1 DEF HeadersSize, EntrySize
    <2>10. \A j \in 1 .. m + 1 : IsEntry(expr_headers[j], Piece(j), j)'
        <3>1. SUFFICES ASSUME NEW j \in 1 .. m + 1
                       PROVE  IsEntry(expr_headers[j], Piece(j), j)'
            OBVIOUS
        <3>2. PICK e, q : e = expr_headers'[j] /\ q = Piece(j)'
            OBVIOUS
        <3>3. IsEntry(e, q, j)
            <4>1. CASE j \in 1 .. m
                BY <1>11, <2>3, <2>7, <3>2, <4>1
            <4>2. CASE j = m + 1
                BY <1>11, <2>6, <2>7, <3>2, <4>2
            <4> QED
                BY <1>13, <4>1, <4>2
        <3>4. IsEntry(e, q, j)'
            BY <1>12, <3>3, EntryStays
        <3> QED
            BY <3>2, <3>4
    <2>11. \A j \in 1 .. m + 1 : expr_offsets'[j] = HeadersSize(j - 1)'
        <3>1. SUFFICES ASSUME NEW j \in 1 .. m + 1
                       PROVE  expr_offsets'[j] = HeadersSize(j - 1)
            BY <2>9
        <3>2. CASE j \in 1 .. m
            BY <2>3, <2>8, <3>2
        <3>3. CASE j = m + 1
            <4>1. j - 1 = m
                BY <3>3
            <4> QED
                BY <2>8, <3>3, <4>1
        <3> QED
            BY <1>13, <3>2, <3>3
    <2>12. n' - 1 = m + 1 /\ step' # "closed"
        BY <1>1, <1>4
    <2>13. IsList(expr_headers, n - 1)' /\ IsList(expr_offsets, n - 1)'
        BY <2>7, <2>8, <2>12
    <2> QED
        BY <2>10, <2>11, <2>12, <2>13 DEF ExpressInv
<1> QED
    BY <1>5, <1>6, <1>7, <1>14, <1>19, <1>20 DEF FileInv

-----------------------------------------------------------------------------
(* The end of the file. *)

LEMMA PiecesStayPlaced ==
    ASSUME PieceInv, NEW m \in Nat, n = m + 1, n' = n, UNCHANGED << given, segments, v1 >>,
           Kept(m), \A j \in 1 .. m : Follows(j, Piece(j).at),
           IsList(file', m + First')
    PROVE  PieceInv' /\ \A j \in 1 .. n' - 1 : Follows(j, Piece(j).at)'
<1>1. \A j \in 1 .. m : Piece(j)' = Piece(j)
    BY DEF Kept
<1>2. n - 1 = m /\ n' - 1 = m
    OBVIOUS
<1>3. \A j \in 1 .. m : IsPiece(Piece(j), j)'
    <2>1. SUFFICES ASSUME NEW j \in 1 .. m PROVE IsPiece(Piece(j), j)'
        OBVIOUS
    <2>2. PICK q : q = Piece(j)
        OBVIOUS
    <2>3. IsPiece(q, j)
        BY <1>2, <2>2 DEF PieceInv
    <2>4. IsPiece(q, j)'
        BY <2>3, IsPieceStays
    <2>5. Piece(j)' = q
        BY <1>1, <2>2
    <2> QED
        BY <2>4, <2>5
<1>4. \A j \in 1 .. m : Follows(j, Piece(j).at)'
    <2>1. SUFFICES ASSUME NEW j \in 1 .. m PROVE Follows(j, Piece(j).at)'
        OBVIOUS
    <2>2. PICK x : x = Piece(j).at
        OBVIOUS
    <2>3. Follows(j, x) /\ j \in 1 .. m + 1
        BY <2>2
    <2>4. Follows(j, x)'
        BY <2>3, KeptFollows
    <2>5. Piece(j)'.at = x
        BY <1>1, <2>2
    <2> QED
        BY <2>4, <2>5
<1> QED
    BY <1>2, <1>3, <1>4 DEF PieceInv

LEMMA CloseKeeps == FileInv /\ Close => FileInv'
<1> SUFFICES ASSUME FileInv, Close PROVE FileInv'
    OBVIOUS
<1>1. /\ LoopInv /\ HelperInv /\ PieceInv /\ PlaceInv
      /\ step = "segment" /\ step' = "closed" /\ n' = n /\ k' = k /\ ss' = ss
      /\ n \notin DOMAIN segments /\ ~expressload
      /\ UNCHANGED << given, segments, v1, expressload, file >>
      /\ offset' = offset /\ position' = position /\ faults' = faults
    BY DEF FileInv, Close, flags, segmentVars, placeVars
<1>2. Opened /\ Opened' /\ ~Saving' /\ First = 0 /\ First' = 0
    BY <1>1 DEF Opened, Saving, First, Closed
<1>3. PICK m \in Nat : m = Len(given) /\ n = m + 1 /\ n - 1 = m
    BY <1>1, SegmentsAlike DEF LoopInv
<1>4. LoopInv'
    BY <1>1, <1>2, <1>3 DEF LoopInv
<1>5. HelperInv' /\ BytesInv'
    BY <1>1, <1>2 DEF HelperInv, IsHelper, BytesInv
<1>6. Kept(m)
    <2>1. \A i \in 1 .. m : Piece(i)' = Piece(i)
        BY <1>1, <1>2 DEF Piece
    <2> QED
        BY <1>1, <2>1 DEF Kept
<1>7. IsList(file', m + First')
    BY <1>1, <1>2, <1>3 DEF PieceInv
<1>8. \A j \in 1 .. m : Follows(j, Piece(j).at)
    BY <1>1, <1>2, <1>3 DEF PlaceInv
<1>9. PieceInv' /\ \A j \in 1 .. n' - 1 : Follows(j, Piece(j).at)'
    BY <1>1, <1>3, <1>6, <1>7, <1>8, PiecesStayPlaced
<1>10. PlaceInv'
    BY <1>1, <1>9 DEF PlaceInv
<1>11. ExpressInv'
    BY <1>1 DEF ExpressInv
<1> QED
    BY <1>4, <1>5, <1>9, <1>10, <1>11 DEF FileInv

LEMMA ExpressIsSaved ==
    ASSUME FileInv, SaveExpress
    PROVE  \E p : /\ file' = << p >> \o file /\ IsExpress(p)
                  /\ position' \in Nat /\ faults' \in 0 .. MaxFaults
<1>1. /\ LoopInv /\ PlaceInv /\ ExpressInv /\ step = "segment" /\ expressload
      /\ n \notin DOMAIN segments
    BY DEF FileInv, SaveExpress
<1>2. PICK m \in Nat : /\ m = Len(given) /\ n = m + 1 /\ n - 1 = m
                       /\ Len(segments) = m /\ DOMAIN segments = DOMAIN given
    BY <1>1, SegmentsAlike DEF LoopInv
<1>3. SizeOfHeaders = HeadersSize(m)
    <2>1. PICK list : list = expr_headers
        OBVIOUS
    <2>2. IsList(list, m)
        BY <1>1, <1>2, <2>1 DEF ExpressInv
    <2>3. DOMAIN list = 1 .. m
        BY <2>2, ListLength
    <2>4. \A j \in 1 .. m : list[j].size = EntrySize(j)
        BY <1>1, <1>2, <2>1 DEF ExpressInv, IsEntry
    <2>5. Sum([j \in DOMAIN list |-> list[j].size]) = HeadersSize(m)
        BY <2>3, <2>4, HeadersAre
    <2> QED
        BY <2>1, <2>5 DEF SizeOfHeaders
<1>4. PICK sizes \in Nat : sizes = HeadersSize(m)
    <2> DEFINE S == [j \in 1 .. m |-> EntrySize(j)]
    <2>1. \A j \in 1 .. m : EntrySize(j) \in Nat
        <3>1. SUFFICES ASSUME NEW j \in 1 .. m PROVE EntrySize(j) \in Nat
            OBVIOUS
        <3>2. given[j] \in LinkSegment
            BY <1>1, <1>2, SegmentsAlike
        <3>3. given[j].segname \in Nat
            BY <3>2 DEF LinkSegment
        <3>4. Written(given[j].segname) \in Nat
            BY <3>3, NameSizes
        <3> QED
            BY <3>4 DEF EntrySize, EntryFixed, Load
    <2>2. S \in [1 .. m -> Nat]
        BY <2>1
    <2>3. HeadersSize(m) = Sum(S)
        BY DEF HeadersSize
    <2> HIDE DEF S
    <2> QED
        BY <2>2, <2>3, SumIsNatural
<1>5. PICK disp \in Nat : disp = HeaderSize + Load + 1 + ExpressName
    BY DEF HeaderSize, Load, ExpressName
<1>6. PICK size \in Nat : /\ size = disp + 5 + (6 + SizeOfHeaders + 10 * Len(segments)) + 1
                          /\ size >= HeaderSize
                          /\ size = HeaderSize + Load + ExpressName + 1 + 6 + 6
                                    + sizes + 10 * m
    BY <1>2, <1>3, <1>4, <1>5 DEF HeaderSize, Load, ExpressName
<1>7. HeaderSize \in Nat /\ size - HeaderSize \in Nat
    BY <1>6 DEF HeaderSize
<1>8. PICK header \in Results(HeaderSize), body \in Results(size - HeaderSize) :
          LET wrong == Wrong(<< header, body >>, << HeaderSize, size - HeaderSize >>)
          IN  /\ faults' = faults + wrong /\ faults' <= MaxFaults
              /\ file' = << [at |-> 0, size |-> size, segnum |-> 1,
                      bytecount |-> size, dispdata |-> disp, whole |-> wrong = 0,
                      list |-> [j \in DOMAIN segments |-> Distance(j) % (Byte * Byte)],
                      map |-> [j \in DOMAIN segments |-> segments[j].segnum],
                      headers |-> expr_headers] >> \o file
              /\ position' = Stays(header) + Stays(body)
    <2> DEFINE room == HeaderSize + Load + 1 + ExpressName
               all  == room + 5 + (6 + SizeOfHeaders + 10 * Len(segments)) + 1
    <2>1. \E header \in Results(HeaderSize), body \in Results(all - HeaderSize) :
              LET wrong == Wrong(<< header, body >>, << HeaderSize, all - HeaderSize >>)
              IN  /\ faults' = faults + wrong /\ faults' <= MaxFaults
                  /\ file' = << [at |-> 0, size |-> all, segnum |-> 1,
                          bytecount |-> all, dispdata |-> room, whole |-> wrong = 0,
                          list |-> [j \in DOMAIN segments |-> Distance(j) % (Byte * Byte)],
                          map |-> [j \in DOMAIN segments |-> segments[j].segnum],
                          headers |-> expr_headers] >> \o file
                  /\ position' = Stays(header) + Stays(body)
        BY DEF SaveExpress
    <2>2. room = disp /\ all = size
        BY <1>5, <1>6
    <2> HIDE DEF room, all
    <2> QED
        BY <2>1, <2>2
<1>9. PICK w \in Nat : w = Wrong(<< header, body >>, << HeaderSize, size - HeaderSize >>)
    <2>1. DOMAIN << header, body >> = 1 .. 2
        OBVIOUS
    <2> QED
        BY <2>1, WrongIsNumber
<1>10. PICK p : p = [at |-> 0, size |-> size, segnum |-> 1,
                     bytecount |-> size, dispdata |-> disp, whole |-> w = 0,
                     list |-> [j \in DOMAIN segments |-> Distance(j) % (Byte * Byte)],
                     map |-> [j \in DOMAIN segments |-> segments[j].segnum],
                     headers |-> expr_headers]
    OBVIOUS
<1>11. file' = << p >> \o file
    BY <1>8, <1>9, <1>10
<1>12. IsExpress(p)
    <2>1. /\ p.at = 0 /\ p.bytecount = p.size /\ p.size = size
          /\ p.headers = expr_headers
          /\ p.map = [j \in DOMAIN segments |-> segments[j].segnum]
          /\ p.list = [j \in DOMAIN segments |-> Distance(j) % (Byte * Byte)]
        BY <1>10
    <2> QED
        BY <1>2, <1>4, <1>6, <2>1 DEF IsExpress
<1>13. position' \in Nat
    BY <1>7, <1>8, ResultsAre
<1>14. faults' \in 0 .. MaxFaults
    <2>1. faults \in Nat /\ MaxFaults \in Nat
        BY <1>1, FileAssumption DEF PlaceInv
    <2> QED
        BY <1>8, <1>9, <2>1
<1> QED
    BY <1>11, <1>12, <1>13, <1>14

LEMMA SaveExpressKeeps == FileInv /\ SaveExpress => FileInv'
<1> SUFFICES ASSUME FileInv, SaveExpress PROVE FileInv'
    OBVIOUS
<1>1. /\ LoopInv /\ HelperInv /\ PieceInv /\ PlaceInv /\ ExpressInv
      /\ step = "segment" /\ step' = "closed" /\ n' = n /\ k' = k /\ ss' = ss
      /\ n \notin DOMAIN segments /\ expressload
      /\ UNCHANGED << given, segments, v1, expressload >>
      /\ offset' = offset
      /\ expr_headers' = expr_headers /\ expr_offsets' = expr_offsets
    BY DEF FileInv, SaveExpress, flags, segmentVars, expressVars
<1>2. Opened /\ Opened' /\ ~Saving' /\ First = 0 /\ First' = 1
    BY <1>1 DEF Opened, Saving, First, Closed
<1>3. PICK m \in Nat : m = Len(given) /\ n = m + 1 /\ n - 1 = m
    BY <1>1, SegmentsAlike DEF LoopInv
<1>4. LoopInv'
    BY <1>1, <1>2, <1>3 DEF LoopInv
<1>5. HelperInv' /\ BytesInv'
    BY <1>1, <1>2 DEF HelperInv, IsHelper, BytesInv
<1>6. PICK p : /\ file' = << p >> \o file /\ IsExpress(p)
               /\ position' \in Nat /\ faults' \in 0 .. MaxFaults
    BY ExpressIsSaved
<1>7. Preceded(file', file, p, m)
    <2>1. PICK f : f = file /\ IsList(f, m)
        BY <1>1, <1>2, <1>3 DEF PieceInv
    <2>2. Preceded(<< p >> \o f, f, p, m)
        BY <2>1, ListAfterOne
    <2> QED
        BY <1>6, <2>1, <2>2
<1>8. Kept(m)
    <2>1. \A i \in 1 .. m : Piece(i)' = file'[i + 1] /\ Piece(i) = file[i]
        BY <1>2 DEF Piece
    <2>2. \A i \in 1 .. m : Piece(i)' = Piece(i)
        BY <1>7, <2>1 DEF Preceded
    <2> QED
        BY <1>1, <2>2 DEF Kept
<1>9. IsList(file', m + First') /\ file'[1] = p
    BY <1>2, <1>7 DEF Preceded
<1>10. \A j \in 1 .. m : Follows(j, Piece(j).at)
    BY <1>1, <1>2, <1>3 DEF PlaceInv
<1>11. PieceInv' /\ \A j \in 1 .. n' - 1 : Follows(j, Piece(j).at)'
    BY <1>1, <1>3, <1>8, <1>9, <1>10, PiecesStayPlaced
<1>12. PlaceInv'
    BY <1>1, <1>6, <1>11 DEF PlaceInv
<1>13. ExpressInv'
    <2>1. /\ IsList(expr_headers, m) /\ IsList(expr_offsets, m)
          /\ \A j \in 1 .. m : /\ IsEntry(expr_headers[j], Piece(j), j)
                               /\ expr_offsets[j] = HeadersSize(j - 1)
        BY <1>1, <1>3 DEF ExpressInv
    <2>2. \A j \in 1 .. m : IsEntry(expr_headers[j], Piece(j), j)'
        <3>1. SUFFICES ASSUME NEW j \in 1 .. m PROVE IsEntry(expr_headers[j], Piece(j), j)'
            OBVIOUS
        <3>2. PICK e, q : e = expr_headers[j] /\ q = Piece(j)
            OBVIOUS
        <3>3. IsEntry(e, q, j) /\ j \in 1 .. m + 1
            BY <2>1, <3>2
        <3>4. IsEntry(e, q, j)'
            BY <1>8, <3>3, EntryStays
        <3>5. Piece(j)' = q /\ expr_headers'[j] = e
            BY <1>1, <1>8, <3>2 DEF Kept
        <3> QED
            BY <3>4, <3>5
    <2>3. \A x : HeadersSize(x)' = HeadersSize(x)
        BY <1>1 DEF HeadersSize, EntrySize
    <2>4. IsExpress(p)'
        <3>1. \A j : Distance(j)' = Distance(j)
            BY <1>1 DEF Distance, Fudge
        <3> QED
            BY <1>1, <1>6, <2>3, <3>1 DEF IsExpress
    <2>5. IsExpress(file[1])'
        BY <1>9, <2>4
    <2> QED
        BY <1>1, <1>3, <2>1, <2>2, <2>3, <2>5 DEF ExpressInv
<1> QED
    BY <1>4, <1>5, <1>11, <1>12, <1>13 DEF FileInv

LEMMA FileInvHolds == FileSpec => []FileInv
<1>1. InitFile => FileInv
    BY InitFileInv
<1>2. FileInv /\ [SaveNext \/ FileClosed]_fileVars => FileInv'
    <2> SUFFICES ASSUME FileInv, [SaveNext \/ FileClosed]_fileVars PROVE FileInv'
        OBVIOUS
    <2>1. CASE SaveNext
        BY <2>1, LeaveRoomKeeps, OpenFailsKeeps, BeginSegmentKeeps, PackRelocKeeps,
           PushRelocKeeps, RelocsDoneKeeps, PackInterSegKeeps, PushInterSegKeeps,
           AppendSupersKeeps, EndSegmentKeeps, SaveExpressKeeps, CloseKeeps
        DEF SaveNext
    <2>2. CASE UNCHANGED fileVars
        <3> USE <2>2 DEF fileVars, flags, placeVars, segmentVars, expressVars
        <3>1. LoopInv'
            BY DEF FileInv, LoopInv, Opened, Saving
        <3>2. HelperInv' /\ BytesInv'
            BY DEF FileInv, HelperInv, BytesInv, Saving, IsHelper, Ahead, Behind, OwnKinds,
                   Segment, Faithful, Held, FileRecord
        <3>3. First' = First /\ \A j : Piece(j)' = Piece(j)
            BY DEF First, Closed, Piece
        <3>4. \A m : Clean(m)' = Clean(m)
            BY <3>3 DEF Clean
        <3>5. PieceInv'
            BY <3>3 DEF FileInv, PieceInv, IsPiece, Faithful, Held, FileRecord
        <3>6. PlaceInv'
            BY <3>3, <3>4 DEF FileInv, PlaceInv, Opened, Follows
        <3>7. ExpressInv'
            BY <3>3, <3>4 DEF FileInv, ExpressInv, IsEntry, EntrySize, HeadersSize,
                              IsExpress, Distance, Fudge
        <3> QED
            BY <3>1, <3>2, <3>5, <3>6, <3>7 DEF FileInv
    <2> QED
        BY <2>1, <2>2 DEF FileClosed
<1> QED
    BY <1>1, <1>2, PTL DEF FileSpec

-----------------------------------------------------------------------------
(* What the invariant says of a file. *)

LEMMA Elements ==
    ASSUME NEW A, NEW s \in Seq(A)
    PROVE  Range(s) \subseteq A
BY DEF Range

LEMMA FileTypeFollows == FileInv => FileTypeOK
<1> SUFFICES ASSUME FileInv PROVE FileTypeOK
    OBVIOUS
<1>1. LoopInv /\ HelperInv /\ PlaceInv
    BY DEF FileInv
<1>2. Len(segments) = Len(given)
    BY <1>1, SegmentsAlike
<1>3. ASSUME NEW j \in SuperKinds
      PROVE  /\ Range(ss[j].data) \subseteq 0 .. Byte - 1
             /\ ss[j].page \in Nat /\ ss[j].count \in 0 .. SkipFlag
    <2>1. PICK h : h = ss[j] /\ IsHelper(h)
        BY <1>1 DEF HelperInv
    <2>2. h.data \in Seq(0 .. Byte - 1) /\ h.page \in Nat /\ h.count \in 0 .. SkipFlag
        BY <2>1 DEF IsHelper
    <2>3. PICK d \in Seq(0 .. Byte - 1) : d = h.data
        BY <2>2
    <2>4. Range(d) \subseteq 0 .. Byte - 1
        BY Elements
    <2> QED
        BY <2>1, <2>2, <2>3, <2>4
<1> QED
    BY <1>1, <1>2, <1>3 DEF FileTypeOK, LoopInv, PlaceInv

LEMMA SavedAre ==
    ASSUME FileInv, NEW j \in Saved
    PROVE  j \in 1 .. n - 1 /\ j \in DOMAIN given /\ j \in Nat /\ n \in Nat
<1>1. LoopInv /\ PieceInv
    BY DEF FileInv
<1>2. DOMAIN given = 1 .. Len(given) /\ Len(given) \in Nat
    BY <1>1, SegmentsAlike
<1>3. n \in Nat /\ n >= 1 /\ First \in {0, 1}
    BY <1>1, <1>2 DEF LoopInv, First
<1>4. PICK m \in Nat : m = n - 1 + First
    BY <1>3
<1>5. DOMAIN file = 1 .. m
    <2>1. IsList(file, m)
        BY <1>1, <1>4 DEF PieceInv
    <2> QED
        BY <2>1, ListLength
<1>6. j \in DOMAIN given /\ j + First \in 1 .. m
    BY <1>5 DEF Saved
<1> QED
    BY <1>2, <1>3, <1>4, <1>6

LEMMA OtherBytesFollow == FileInv => OtherBytesStay
<1> SUFFICES ASSUME FileInv, NEW j \in Saved, NEW b \in DOMAIN given[j].data \ Held(j)
             PROVE  Piece(j).data[b] = given[j].data[b]
    BY DEF OtherBytesStay, Held
<1>1. IsPiece(Piece(j), j)
    BY SavedAre DEF FileInv, PieceInv
<1> QED
    BY <1>1 DEF IsPiece, Faithful

(* The room that is left for ~ExpressLoad is what it takes, or more when a *)
(* name is too long.                                                       *)
RoomTo(m) == Sum([j \in 1 .. m |-> 8 + 2 + EntryFixed + given[j].segname])
LongBy(m) == \E j \in 1 .. m : given[j].segname > NameMax

LEMMA EntrySizes ==
    ASSUME IsLink(given), NEW j \in DOMAIN given
    PROVE  LET room == 8 + 2 + EntryFixed + given[j].segname
           IN  /\ EntrySize(j) \in Nat /\ room \in Nat /\ EntrySize(j) + 10 <= room
               /\ given[j].segname <= NameMax => EntrySize(j) + 10 = room
               /\ given[j].segname > NameMax => EntrySize(j) + 10 < room
<1>1. given[j] \in LinkSegment
    BY DEF IsLink
<1>2. PICK name \in Nat : name = given[j].segname
    BY <1>1 DEF LinkSegment
<1>3. PICK w \in Nat : /\ w = Written(name) /\ w <= 1 + name
                       /\ name <= NameMax => w = 1 + name
                       /\ name > NameMax => w < 1 + name
    BY NameSizes
<1> QED
    BY <1>2, <1>3 DEF EntrySize, EntryFixed, Load

Fits(m) ==
    /\ HeadersSize(m) \in Nat /\ HeadersSize(m) + 10 * m <= RoomTo(m)
    /\ ~LongBy(m) => HeadersSize(m) + 10 * m = RoomTo(m)
    /\ LongBy(m) => HeadersSize(m) + 10 * m < RoomTo(m)

LEMMA RoomFits ==
    ASSUME IsLink(given), NEW last \in 0 .. Len(given)
    PROVE  Fits(last) /\ RoomTo(last) \in Int
<1>1. Len(given) \in Nat /\ DOMAIN given = 1 .. Len(given)
    BY DEF IsLink
<1> DEFINE room(j) == 8 + 2 + EntryFixed + given[j].segname
           M == {i \in Nat : i <= Len(given) => Fits(i) /\ RoomTo(i) \in Int}
<1>2. \A j \in DOMAIN given :
          /\ EntrySize(j) \in Nat /\ room(j) \in Nat /\ EntrySize(j) + 10 <= room(j)
          /\ given[j].segname <= NameMax => EntrySize(j) + 10 = room(j)
          /\ given[j].segname > NameMax => EntrySize(j) + 10 < room(j)
    BY EntrySizes
<1>3. \A i \in 0 .. Len(given) :
          /\ [j \in 1 .. i |-> EntrySize(j)] \in [1 .. i -> Int]
          /\ [j \in 1 .. i |-> room(j)] \in [1 .. i -> Int]
    <2>1. SUFFICES ASSUME NEW i \in 0 .. Len(given)
                   PROVE  /\ [j \in 1 .. i |-> EntrySize(j)] \in [1 .. i -> Int]
                          /\ [j \in 1 .. i |-> room(j)] \in [1 .. i -> Int]
        OBVIOUS
    <2>2. \A j \in 1 .. i : j \in DOMAIN given
        BY <1>1
    <2>3. \A j \in 1 .. i : EntrySize(j) \in Int /\ room(j) \in Int
        BY <1>2, <2>2
    <2> HIDE DEF room
    <2> QED
        BY <2>3
<1>4. 0 \in M
    <2>1. HeadersSize(0) = 0 /\ RoomTo(0) = 0
        <3>1. PICK S : S = [j \in 1 .. 0 |-> EntrySize(j)]
            OBVIOUS
        <3>2. PICK T : T = [j \in 1 .. 0 |-> room(j)]
            OBVIOUS
        <3>3. 0 \in 0 .. Len(given) /\ 0 \in Nat
            BY <1>1
        <3>4. S \in [1 .. 0 -> Int] /\ T \in [1 .. 0 -> Int]
            <4> HIDE DEF room
            <4> QED
                BY <1>3, <3>1, <3>2, <3>3
        <3>5. Sum(S) = 0 /\ Sum(T) = 0
            BY <3>3, <3>4, SumIsNumber
        <3> QED
            BY <3>1, <3>2, <3>5 DEF HeadersSize, RoomTo
    <2>2. ~LongBy(0)
        BY DEF LongBy
    <2> QED
        BY <2>1, <2>2 DEF Fits
<1>5. \A i \in Nat : i \in M => i + 1 \in M
    <2>1. SUFFICES ASSUME NEW i \in Nat, i \in M, i + 1 <= Len(given)
                   PROVE  Fits(i + 1) /\ RoomTo(i + 1) \in Int
        OBVIOUS
    <2>2. i \in 0 .. Len(given) /\ i + 1 \in 0 .. Len(given) /\ i + 1 \in DOMAIN given
        BY <1>1, <2>1
    <2>3. PICK S, T : /\ S = [j \in 1 .. i |-> EntrySize(j)]
                      /\ T = [j \in 1 .. i + 1 |-> EntrySize(j)]
        OBVIOUS
    <2>4. PICK U, V : U = [j \in 1 .. i |-> room(j)] /\ V = [j \in 1 .. i + 1 |-> room(j)]
        OBVIOUS
    <2>5. /\ S \in [1 .. i -> Int] /\ T \in [1 .. i + 1 -> Int]
          /\ U \in [1 .. i -> Int] /\ V \in [1 .. i + 1 -> Int]
        <3> HIDE DEF room
        <3> QED
            BY <1>3, <2>2, <2>3, <2>4
    <2>6. (\A j \in 1 .. i : T[j] = S[j]) /\ T[i + 1] = EntrySize(i + 1)
        BY <2>3
    <2>7. (\A j \in 1 .. i : V[j] = U[j]) /\ V[i + 1] = room(i + 1)
        <3> HIDE DEF room
        <3> QED
            BY <2>4
    <2>8. Sum(T) = Sum(S) + EntrySize(i + 1)
        BY <2>5, <2>6, SumOneMore
    <2>9. Sum(V) = Sum(U) + room(i + 1)
        <3> HIDE DEF room
        <3> QED
            BY <2>5, <2>7, SumOneMore
    <2>10. /\ HeadersSize(i + 1) = HeadersSize(i) + EntrySize(i + 1)
           /\ RoomTo(i + 1) = RoomTo(i) + room(i + 1)
        BY <2>3, <2>4, <2>8, <2>9 DEF HeadersSize, RoomTo
    <2>11. PICK e \in Nat, r \in Nat :
               /\ e = EntrySize(i + 1) /\ r = room(i + 1) /\ e + 10 <= r
               /\ ~(given[i + 1].segname > NameMax) => e + 10 = r
               /\ given[i + 1].segname > NameMax => e + 10 < r
        <3>1. given[i + 1] \in LinkSegment
            BY <2>2 DEF IsLink
        <3>2. given[i + 1].segname \in Nat /\ NameMax \in Nat
            BY <3>1, FileAssumption DEF LinkSegment
        <3>3. ~(given[i + 1].segname > NameMax) => given[i + 1].segname <= NameMax
            BY <3>2
        <3> HIDE DEF room
        <3> QED
            BY <1>2, <2>2, <3>3
    <2>12. Fits(i) /\ RoomTo(i) \in Int
        BY <2>1
    <2>13. LongBy(i + 1) <=> LongBy(i) \/ given[i + 1].segname > NameMax
        <3>1. \A j \in 1 .. i + 1 : j \in 1 .. i \/ j = i + 1
            OBVIOUS
        <3>2. i + 1 \in 1 .. i + 1 /\ \A j \in 1 .. i : j \in 1 .. i + 1
            OBVIOUS
        <3> QED
            BY <3>1, <3>2 DEF LongBy
    <2>14. PICK h \in Nat, t \in Int :
               /\ h = HeadersSize(i) /\ t = RoomTo(i) /\ h + 10 * i <= t
               /\ ~LongBy(i) => h + 10 * i = t
               /\ LongBy(i) => h + 10 * i < t
        BY <2>12 DEF Fits
    <2>15. HeadersSize(i + 1) = h + e /\ RoomTo(i + 1) = t + r
        BY <2>10, <2>11, <2>14
    <2>16. /\ h + e \in Nat /\ t + r \in Int /\ h + e + 10 * (i + 1) <= t + r
           /\ ~LongBy(i + 1) => h + e + 10 * (i + 1) = t + r
           /\ LongBy(i + 1) => h + e + 10 * (i + 1) < t + r
        <3>1. /\ h + e \in Nat /\ t + r \in Int /\ h + e + 10 * (i + 1) <= t + r
            <4>1. e + 10 <= r /\ h + 10 * i <= t
                BY <2>11, <2>14
            <4> QED
                BY <4>1
        <3>2. ASSUME ~LongBy(i + 1) PROVE h + e + 10 * (i + 1) = t + r
            <4>1. e + 10 = r /\ h + 10 * i = t
                BY <2>11, <2>13, <2>14, <3>2
            <4> QED
                BY <4>1
        <3>3. ASSUME LongBy(i + 1) PROVE h + e + 10 * (i + 1) < t + r
            <4>1. e + 10 < r \/ h + 10 * i < t
                BY <2>11, <2>13, <2>14, <3>3
            <4> QED
                BY <2>11, <2>14, <4>1
        <3> QED
            BY <3>1, <3>2, <3>3
    <2> QED
        BY <2>15, <2>16 DEF Fits
<1>6. last \in M
    <2>1. last \in Nat
        OBVIOUS
    <2> HIDE DEF M
    <2> QED
        BY <1>4, <1>5, <2>1, NatSets
<1> QED
    BY <1>1, <1>6

LEMMA PieceSizes ==
    ASSUME FileInv, NEW j \in 1 .. n - 1
    PROVE  /\ IsPiece(Piece(j), j) /\ Piece(j).at \in Nat /\ Piece(j).size \in Nat
           /\ Piece(j).bytecount = IF v1 THEN Blocks(Piece(j).size) ELSE Piece(j).size
           /\ Follows(j, Piece(j).at) \/ ~Opened
<1>1. LoopInv /\ PieceInv /\ PlaceInv
    BY DEF FileInv
<1>2. PICK p : p = Piece(j) /\ IsPiece(p, j)
    BY <1>1 DEF PieceInv
<1>3. given[j] \in LinkSegment
    <2>1. j \in DOMAIN given
        BY <1>1, SegmentsAlike DEF LoopInv
    <2> QED
        BY <1>1, <2>1, SegmentsAlike
<1>4. given[j].segname \in Nat /\ given[j].data \in Seq(Nat)
    BY <1>3 DEF LinkSegment
<1>5. PICK disp \in Nat : disp = p.dispdata
    BY <1>2, <1>4, NameSizes DEF IsPiece
<1>6. PICK len \in Nat : len = Len(p.data)
    <2>1. PICK c \in Nat : c = Len(given[j].data)
        BY <1>4
    <2>2. IsList(p.data, c)
        BY <1>2, <2>1 DEF IsPiece, Faithful
    <2> QED
        BY <2>2, ListLength
<1>7. PICK sr \in Nat : sr = SizeOfRecords(p.records)
    BY <1>2, RecordSizes DEF IsPiece
<1>8. p.size = disp + 5 + len + sr + 1
    BY <1>2, <1>5, <1>6, <1>7 DEF IsPiece
<1> QED
    BY <1>1, <1>2, <1>8 DEF IsPiece, PlaceInv

LEMMA ClosedFile ==
    ASSUME FileInv, Closed
    PROVE  /\ LoopInv /\ PlaceInv /\ ExpressInv /\ Opened /\ IsLink(given)
           /\ \E m \in Nat : /\ m = Len(given) /\ n - 1 = m /\ DOMAIN given = 1 .. m
                             /\ DOMAIN segments = 1 .. m /\ Len(segments) = m
                             /\ IsList(file, m + First) /\ DOMAIN file = 1 .. m + First
           /\ First = IF expressload THEN 1 ELSE 0
<1>1. LoopInv /\ PlaceInv /\ PieceInv /\ ExpressInv /\ Opened /\ IsLink(given)
    BY DEF FileInv, Closed, Opened, LoopInv
<1>2. First = IF expressload THEN 1 ELSE 0
    BY DEF First
<1>3. n = Len(given) + 1 /\ Len(given) \in Nat /\ DOMAIN given = 1 .. Len(given)
      /\ DOMAIN segments = DOMAIN given /\ Len(segments) = Len(given)
    BY <1>1, SegmentsAlike DEF LoopInv, Closed
<1>4. PICK m \in Nat : m = Len(given) /\ n - 1 = m
    <2>1. PICK m \in Nat : m = Len(given)
        BY <1>3
    <2>2. n = m + 1 /\ m + 1 - 1 = m
        BY <1>3, <2>1
    <2> QED
        BY <2>1, <2>2
<1>5. IsList(file, m + First)
    BY <1>1, <1>4 DEF PieceInv
<1>6. DOMAIN file = 1 .. m + First
    <2>1. m + First \in Nat
        BY <1>2
    <2> QED
        BY <1>5, <2>1, ListLength
<1> QED
    BY <1>1, <1>2, <1>3, <1>4, <1>5, <1>6

(* In version 1, a piece that is in the blocks follows one that is.        *)
LEMMA BlocksAdjoin ==
    ASSUME FileInv, Closed, v1, NEW j \in DOMAIN file, j > 1, Piece(j - 1).whole,
           InBlocks(j - 1), InBlocks(j),
           (Piece(j - 1).at + Piece(j - 1).size) % BlockSize # 0
    PROVE  Piece(j).at = After(Piece(j - 1))
<1>1. PICK m \in Nat : m = Len(given) /\ n - 1 = m /\ DOMAIN file = 1 .. m + First
    BY ClosedFile
<1>2. LoopInv /\ Opened /\ ~expressload /\ First = 0
    BY ClosedFile DEF LoopInv
<1>3. PICK i \in 1 .. m : i = j - 1 /\ j = i + 1 /\ j \in 1 .. m /\ j \in Nat /\ i \in Nat
    BY <1>1, <1>2
<1>4. BlockSize \in Int /\ BlockSize > 0
    BY FileAssumption
<1>5. PICK at \in Nat, size \in Nat : at = Piece(i).at /\ size = Piece(i).size
    BY <1>1, <1>3, PieceSizes
<1>6. Piece(i).bytecount = Blocks(size)
    BY <1>1, <1>3, <1>5, PieceSizes
<1>7. Follows(i, at) /\ Follows(j, Piece(j).at)
    BY <1>1, <1>2, <1>3, <1>5, PieceSizes
<1>8. at % BlockSize = 0
    <2>1. i <= Len(given) /\ (i > 1 => Piece(i - 1).padded) /\ Clean(i - 1)
        BY <1>1, <1>3 DEF InBlocks, Clean
    <2> QED
        BY <1>7, <2>1 DEF Follows
<1>9. Piece(j).at = at + size + BlockSize - ((at + size) % BlockSize)
    <2>1. j <= Len(given) /\ Piece(j - 1).padded /\ Piece(j - 1) = Piece(i)
        BY <1>1, <1>3 DEF InBlocks
    <2>2. Clean(j - 2)
        <3>1. \A x \in 1 .. j - 2 : x \in 1 .. j - 1
            BY <1>3
        <3>2. \A x \in 1 .. j - 1 : ~Piece(x).failed
            BY DEF InBlocks
        <3> QED
            BY <3>1, <3>2 DEF Clean
    <2> QED
        BY <1>5, <1>7, <2>1, <2>2 DEF Follows
<1>10. (at + size) % BlockSize # 0
    BY <1>3, <1>5
<1>11. Piece(j).at = at + Blocks(size) * BlockSize
    BY <1>4, <1>8, <1>9, <1>10, BlocksReach DEF Blocks
<1> QED
    BY <1>3, <1>5, <1>6, <1>11 DEF After

LEMMA PiecesFollow == FileInv => PiecesAdjoin
<1> SUFFICES ASSUME FileInv, Closed
             PROVE  /\ file # << >> => file[1].at = 0
                    /\ \A j \in DOMAIN file : j > 1 /\ file[j - 1].whole =>
                           \/ file[j].at = After(file[j - 1])
                           \/ v1 /\ ~InBlocks(j - 1)
                           \/ v1 /\ ~InBlocks(j)
                           \/ v1 /\ (file[j - 1].at + file[j - 1].size) % BlockSize = 0
                           \/ First = 1 /\ j = 2 /\ ~NamesFit /\ file[1].size < file[2].at
                    /\ v1 => \A j \in DOMAIN file : InBlocks(j) =>
                           file[j].at % BlockSize = 0
    BY DEF PiecesAdjoin
<1>1. PICK m \in Nat : /\ m = Len(given) /\ n - 1 = m /\ DOMAIN given = 1 .. m
                       /\ IsList(file, m + First) /\ DOMAIN file = 1 .. m + First
    BY ClosedFile
<1>2. /\ LoopInv /\ ExpressInv /\ Opened /\ IsLink(given)
      /\ First = IF expressload THEN 1 ELSE 0
    BY ClosedFile
<1>3. \A j \in 1 .. m : Follows(j, Piece(j).at) /\ Piece(j) = file[j + First]
    BY <1>1, <1>2, PieceSizes DEF Piece
<1>4. expressload => IsExpress(file[1])
    BY <1>2 DEF ExpressInv, Closed
<1>5. file # << >> => file[1].at = 0
    <2>1. CASE expressload
        BY <1>4, <2>1 DEF IsExpress
    <2>2. CASE ~expressload
        <3>1. SUFFICES ASSUME file # << >> PROVE file[1].at = 0
            OBVIOUS
        <3>2. IsList(file, m)
            BY <1>1, <1>2, <2>2
        <3>3. m # 0
            BY <3>1, <3>2, ListLength
        <3>4. 1 \in 1 .. m
            BY <3>3
        <3>5. Follows(1, Piece(1).at) /\ Piece(1) = file[1]
            BY <1>2, <1>3, <2>2, <3>4
        <3> QED
            BY <2>2, <3>5 DEF Follows
    <2> QED
        BY <2>1, <2>2
<1>6. ASSUME expressload, 2 \in DOMAIN file
      PROVE  \/ file[2].at = After(file[1])
             \/ ~NamesFit /\ file[1].size < file[2].at
    <2>1. 1 \in 1 .. m
        BY <1>1, <1>2, <1>6
    <2>2. file[2].at = ExpressSize(given)
        <3>1. Follows(1, Piece(1).at) /\ Piece(1) = file[2]
            BY <1>2, <1>3, <1>6, <2>1
        <3> QED
            BY <1>6, <3>1 DEF Follows
    <2>3. PICK base \in Nat : base = HeaderSize + Load + ExpressName + 1 + 6 + 6
        BY DEF HeaderSize, Load, ExpressName
    <2>4. ExpressSize(given) = base + RoomTo(m)
        BY <1>1, <2>3 DEF ExpressSize, RoomTo
    <2>5. file[1].at = 0 /\ file[1].bytecount = file[1].size
          /\ file[1].size = base + HeadersSize(m) + 10 * m
        BY <1>1, <1>4, <1>6, <2>3 DEF IsExpress
    <2>6. Fits(m) /\ RoomTo(m) \in Int
        BY <1>1, <1>2, RoomFits
    <2>7. PICK h \in Nat, t \in Int :
              /\ h = HeadersSize(m) /\ t = RoomTo(m)
              /\ ~LongBy(m) => h + 10 * m = t
              /\ LongBy(m) => h + 10 * m < t
        BY <2>6 DEF Fits
    <2>8. NamesFit <=> ~LongBy(m)
        <3>1. \A j \in DOMAIN given : given[j].segname \in Nat
            <4>1. \A j \in DOMAIN given : given[j] \in LinkSegment
                BY <1>2, SegmentsAlike
            <4> QED
                BY <4>1 DEF LinkSegment
        <3>2. NameMax \in Nat
            BY FileAssumption
        <3>3. \A j \in DOMAIN given : given[j].segname <= NameMax
                                      <=> ~(given[j].segname > NameMax)
            BY <3>1, <3>2
        <3> QED
            BY <1>1, <3>3 DEF NamesFit, LongBy
    <2>9. ~v1
        BY <1>2, <1>6 DEF LoopInv
    <2>10. After(file[1]) = base + h + 10 * m
        BY <2>3, <2>5, <2>7, <2>9 DEF After
    <2>11. file[2].at = base + t /\ file[1].size = base + h + 10 * m
        BY <2>2, <2>4, <2>5, <2>7
    <2>12. CASE LongBy(m)
        <3>1. base + h + 10 * m < base + t
            BY <2>7, <2>12
        <3> QED
            BY <2>8, <2>11, <2>12, <3>1
    <2>13. CASE ~LongBy(m)
        <3>1. base + h + 10 * m = base + t
            BY <2>7, <2>13
        <3> QED
            BY <2>10, <2>11, <3>1
    <2> QED
        BY <2>12, <2>13
<1>7. ASSUME NEW j \in DOMAIN file, j > 1, file[j - 1].whole, ~(First = 1 /\ j = 2)
      PROVE  \/ file[j].at = After(file[j - 1])
             \/ v1 /\ ~InBlocks(j - 1)
             \/ v1 /\ ~InBlocks(j)
             \/ v1 /\ (file[j - 1].at + file[j - 1].size) % BlockSize = 0
    <2>1. PICK i \in 1 .. m : /\ i = j - First /\ i > 1 /\ i - 1 \in 1 .. m
                              /\ i + First = j /\ i - 1 + First = j - 1
        BY <1>1, <1>2, <1>7
    <2>2. Piece(i) = file[j] /\ Piece(i - 1) = file[j - 1] /\ Follows(i, Piece(i).at)
        BY <1>3, <2>1
    <2>3. CASE ~v1
        <3>1. Piece(i).at = Piece(i - 1).at + Piece(i - 1).size
            BY <1>7, <2>1, <2>2, <2>3 DEF Follows
        <3>2. Piece(i - 1).bytecount = Piece(i - 1).size
            BY <1>1, <2>1, <2>3, PieceSizes
        <3> QED
            BY <2>2, <2>3, <3>1, <3>2 DEF After
    <2>4. CASE v1
        <3>1. SUFFICES ASSUME InBlocks(j - 1), InBlocks(j),
                              (file[j - 1].at + file[j - 1].size) % BlockSize # 0
                       PROVE  file[j].at = After(file[j - 1])
            BY <2>4
        <3>2. First = 0 /\ i = j
            BY <1>2, <2>1, <2>4 DEF LoopInv
        <3>3. Piece(j) = file[j] /\ Piece(j - 1) = file[j - 1]
            BY <2>2, <3>2
        <3> QED
            BY <1>7, <2>4, <3>1, <3>3, BlocksAdjoin
    <2> QED
        BY <2>3, <2>4
<1>8. ASSUME v1, NEW j \in DOMAIN file, InBlocks(j) PROVE file[j].at % BlockSize = 0
    <2>1. First = 0
        BY <1>2, <1>8 DEF LoopInv
    <2>2. j \in 1 .. m /\ j <= Len(given)
        BY <1>1, <1>8, <2>1
    <2>3. Follows(j, Piece(j).at) /\ Piece(j) = file[j]
        BY <1>3, <2>1, <2>2
    <2>4. (j > 1 => Piece(j - 1).padded) /\ Clean(j - 1)
        BY <1>8 DEF InBlocks, Clean
    <2> QED
        BY <1>8, <2>2, <2>3, <2>4 DEF Follows
<1>9. ASSUME NEW j \in DOMAIN file, j > 1, file[j - 1].whole
      PROVE  \/ file[j].at = After(file[j - 1])
             \/ v1 /\ ~InBlocks(j - 1)
             \/ v1 /\ ~InBlocks(j)
             \/ v1 /\ (file[j - 1].at + file[j - 1].size) % BlockSize = 0
             \/ First = 1 /\ j = 2 /\ ~NamesFit /\ file[1].size < file[2].at
    <2>1. CASE First = 1 /\ j = 2
        BY <1>2, <1>6, <1>9, <2>1
    <2>2. CASE ~(First = 1 /\ j = 2)
        BY <1>7, <1>9, <2>2
    <2> QED
        BY <2>1, <2>2
<1> QED
    BY <1>5, <1>8, <1>9

LEMMA ExpressFollows == FileInv => ExpressLeads
<1> SUFFICES ASSUME FileInv, Closed, expressload, file[1].whole, NEW j \in Placed
             PROVE  LET h    == file[1].headers[j]
                        p    == Piece(j)
                        text == p.at + p.dispdata + 5
                        headers == SubSeq(file[1].headers, 1, j - 1)
                        ahead == 10 * Len(given)
                                 + Sum([i \in DOMAIN headers |-> headers[i].size])
                                 - 8 * (j - 1)
                    IN  /\ ahead < Byte * Byte => file[1].list[j] = ahead
                        /\ file[1].map[j] = p.segnum /\ h.segnum = p.segnum
                        /\ h.lconst_size = Len(p.data)
                        /\ p.data # << >> => h.lconst_offset = text
                        /\ p.records # << >> => h.reloc_offset = text + Len(p.data)
                        /\ text + Len(p.data) + h.reloc_size + 1 = p.at + p.size
    BY DEF ExpressLeads
<1>1. PICK m \in Nat : /\ m = Len(given) /\ n - 1 = m /\ DOMAIN given = 1 .. m
                       /\ Len(segments) = m
    BY ClosedFile
<1>2. LoopInv /\ ExpressInv /\ IsLink(given)
    BY ClosedFile
<1>3. j \in 1 .. m /\ j \in Nat
    BY <1>1, SavedAre DEF Placed, Whole
<1>4. PICK p : p = Piece(j) /\ IsPiece(p, j)
    BY <1>1, <1>3, PieceSizes
<1>5. IsExpress(file[1])
    BY <1>2 DEF ExpressInv, Closed
<1>6. PICK list : /\ list = expr_headers /\ file[1].headers = list /\ IsList(list, m)
                  /\ \A i \in 1 .. m : IsEntry(list[i], Piece(i), i)
                  /\ \A i \in 1 .. m : expr_offsets[i] = HeadersSize(i - 1)
    BY <1>1, <1>2, <1>5 DEF ExpressInv, IsExpress
<1>7. PICK h : h = list[j] /\ h = file[1].headers[j] /\ IsEntry(h, p, j)
    BY <1>3, <1>4, <1>6
<1>8. Clean(j - 1)
    <2>1. \A i \in 1 .. j - 1 : i \in Saved
        <3>1. SUFFICES ASSUME NEW i \in 1 .. j - 1 PROVE i \in Saved
            OBVIOUS
        <3>2. i \in 1 .. m /\ DOMAIN file = 1 .. m + First /\ First = 1
            BY <1>1, <1>3, ClosedFile
        <3>3. i + First \in DOMAIN file
            BY <3>2
        <3> QED
            BY <1>1, <3>2, <3>3 DEF Saved
    <2>2. \A i \in Saved : i < j => ~Piece(i).failed
        BY DEF Placed
    <2>3. \A i \in 1 .. j - 1 : i < j
        BY <1>3
    <2> QED
        BY <2>1, <2>2, <2>3 DEF Clean
<1>9. file[1].map[j] = p.segnum /\ h.segnum = p.segnum /\ h.lconst_size = Len(p.data)
    BY <1>1, <1>3, <1>4, <1>5, <1>7 DEF IsExpress, IsEntry, IsPiece
<1>10. /\ p.data # << >> => h.lconst_offset = p.at + p.dispdata + 5
       /\ p.records # << >> => h.reloc_offset = p.at + p.dispdata + 5 + Len(p.data)
    BY <1>7, <1>8 DEF IsEntry
<1>11. p.at + p.dispdata + 5 + Len(p.data) + h.reloc_size + 1 = p.at + p.size
    <2>1. given[j] \in LinkSegment
        BY <1>1, <1>2, <1>3, SegmentsAlike
    <2>2. given[j].segname \in Nat /\ given[j].data \in Seq(Nat)
        BY <2>1 DEF LinkSegment
    <2>3. PICK disp \in Nat : disp = p.dispdata
        BY <1>4, <2>2, NameSizes DEF IsPiece
    <2>4. PICK len \in Nat : len = Len(p.data)
        <3>1. PICK c \in Nat : c = Len(given[j].data)
            BY <2>2
        <3>2. IsList(p.data, c)
            BY <1>4, <3>1 DEF IsPiece, Faithful
        <3> QED
            BY <3>2, ListLength
    <2>5. PICK sr \in Nat : sr = SizeOfRecords(p.records)
        BY <1>4, RecordSizes DEF IsPiece
    <2>6. PICK at \in Nat : at = p.at
        BY <1>4 DEF IsPiece
    <2>7. h.reloc_size = sr /\ p.size = disp + 5 + len + sr + 1
        BY <1>4, <1>7, <2>3, <2>4, <2>5 DEF IsPiece, IsEntry
    <2>8. at + disp + 5 + len + sr + 1 = at + (disp + 5 + len + sr + 1)
        OBVIOUS
    <2> QED
        BY <2>3, <2>4, <2>6, <2>7, <2>8
<1>12. PICK headers : headers = SubSeq(list, 1, j - 1)
    OBVIOUS
<1>13. Sum([i \in DOMAIN headers |-> headers[i].size]) = HeadersSize(j - 1)
    <2>1. PICK c \in Nat : c = j - 1 /\ c <= m
        BY <1>3
    <2>2. Len(list) = m /\ list \in Seq({list[i] : i \in 1 .. m})
        BY <1>6, ListLength
    <2>3. DOMAIN headers = 1 .. c /\ \A i \in 1 .. c : headers[i] = list[i]
        BY <1>12, <2>1, <2>2
    <2>4. \A i \in 1 .. c : headers[i].size = EntrySize(i)
        <3>1. \A i \in 1 .. c : i \in 1 .. m
            BY <2>1
        <3> QED
            BY <1>6, <2>3, <3>1 DEF IsEntry
    <2> QED
        BY <2>1, <2>3, <2>4, HeadersAre
<1>14. PICK ahead : ahead = 10 * Len(given)
                            + Sum([i \in DOMAIN headers |-> headers[i].size]) - 8 * (j - 1)
    OBVIOUS
<1>15. ahead < Byte * Byte => file[1].list[j] = ahead
    <2>1. j - 1 \in 0 .. Len(given)
        BY <1>1, <1>3
    <2>2. PICK sizes \in Nat : sizes = HeadersSize(j - 1)
        BY <1>2, <2>1, RoomFits DEF Fits
    <2>3. ahead = 10 * m + sizes - 8 * (j - 1)
        BY <1>1, <1>13, <1>14, <2>2
    <2>4. ahead \in Nat
        BY <1>3, <2>3
    <2>5. Distance(j) = ahead
        <3>1. expr_offsets[j] = sizes
            BY <1>3, <1>6, <2>2
        <3>2. Distance(j) = 10 * m - 8 * (j - 1) + sizes
            BY <1>1, <3>1 DEF Distance, Fudge
        <3> QED
            BY <1>3, <2>3, <3>2
    <2>6. file[1].list[j] = ahead % (Byte * Byte)
        BY <1>1, <1>3, <1>5, <2>5 DEF IsExpress
    <2>7. ASSUME ahead < Byte * Byte PROVE ahead % (Byte * Byte) = ahead
        <3>1. PICK b \in Nat : b = Byte * Byte
            BY ByteFacts
        <3>2. ahead < b /\ ahead >= 0
            BY <2>4, <2>7, <3>1
        <3>3. ahead % b = ahead
            BY <2>4, <3>2
        <3> QED
            BY <3>1, <3>3
    <2> QED
        BY <2>6, <2>7
<1> QED
    BY <1>4, <1>6, <1>7, <1>9, <1>10, <1>11, <1>12, <1>14, <1>15

-----------------------------------------------------------------------------
(* The theorems. *)

(* FileTypeOK: super_helper::append() (omf.cpp) puts nothing but bytes     *)
(* into a SUPER record, and a page never has more entries than it counts   *)
(* in a byte, for records of two bytes or more in the order of offsets.    *)
THEOREM FileTypeCorrect == FileSpec => []FileTypeOK
<1>1. FileInv => FileTypeOK
    BY FileTypeFollows
<1> QED
    BY <1>1, FileInvHolds, PTL

(* OtherBytesStay: add_relocs() writes a value to the bytes of its record  *)
(* and to no other byte of the segment, however many records are packed.   *)
THEOREM NoOtherByteChanges == FileSpec => []OtherBytesStay
<1>1. FileInv => OtherBytesStay
    BY OtherBytesFollow
<1> QED
    BY <1>1, FileInvHolds, PTL

(* PiecesAdjoin: the byte counts that save_omf() writes lead from each     *)
(* piece to the next, with the exceptions the property names, whatever     *)
(* write() returns.                                                        *)
THEOREM HeadersLeadOn == FileSpec => []PiecesAdjoin
<1>1. FileInv => PiecesAdjoin
    BY PiecesFollow
<1> QED
    BY <1>1, FileInvHolds, PTL

(* ExpressLeads: what save_omf() notes for ~ExpressLoad before it knows    *)
(* where the directory ends leads to the segments, their bytes and their   *)
(* records, also after a write that was short.                             *)
THEOREM DirectoryLeads == FileSpec => []ExpressLeads
<1>1. FileInv => ExpressLeads
    BY ExpressFollows
<1> QED
    BY <1>1, FileInvHolds, PTL
=============================================================================
