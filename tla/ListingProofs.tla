------------------------------- MODULE ListingProofs -------------------------------
(***************************************************************************)
(* Proofs about the listing of wdcdumpobj, for every file: an assembler    *)
(* that reads it puts back what the object modules have. The methods of    *)
(* the disassembler have a lemma each, about the object after the call.    *)
(***************************************************************************)
EXTENDS Listing, FiniteSetTheorems, SequenceTheorems, TLAPS

-----------------------------------------------------------------------------
(* Types: what is printed, sections, objects, and states of the assembler. *)

ListingItem ==
    [kind: Lines, at: Nat, bytes: Seq(Nat)]
    \cup [kind: {"labels"}, which: SUBSET ObjectSymbol]
    \cup [kind: {"ds"}, at: Nat, size: Nat] \cup [kind: {"org"}, to: Nat]
    \cup [kind: {"symbols"}, externs: SUBSET ObjectSymbol, variables: SUBSET ObjectSymbol,
          publics: SUBSET ObjectSymbol]
    \cup [kind: {"section"}, number: 0 .. 255, line: {"section", "name", "blank"}, origin: Nat,
          publics: SUBSET ObjectSymbol, equs: SUBSET ObjectSymbol]
    \cup [kind: {"ends"}]
SectionEntry ==
    [valid: BOOLEAN, processed: BOOLEAN, named: BOOLEAN, offset: BOOLEAN, data: BOOLEAN,
     ref_only: BOOLEAN, size: Nat, org: Nat, pc: Nat, labels: SUBSET ObjectSymbol,
     equs: SUBSET ObjectSymbol, publics: SUBSET ObjectSymbol]
SectionTables == UNION {[0 .. t -> SectionEntry] : t \in 4 .. 255}
Objects ==
    [bytes: Seq(Nat), size: 0 .. 3, pc: Nat, code: BOOLEAN, flags: SUBSET {"m", "x"},
     next_label: Nat \cup {-1}, section: 0 .. 255 \cup {-1}, listing: Seq(ListingItem),
     symbols: SUBSET ObjectSymbol, sections: SectionTables]
Places == (0 .. 255) \X Nat
AssemblerStates(D) == [section: 0 .. 255 \cup {-1}, at: [D -> Int], bytes: Seq(Nat)]

-----------------------------------------------------------------------------
(* An assembler that knows more than the listing tells it: the origin of   *)
(* each section, and the section of each heading. The one of Listing gets  *)
(* as far, as is shown at the end.                                         *)

Outset(y) ==
    [section |-> -1, at |-> [n \in DOMAIN y.sections |-> y.sections[n].org], bytes |-> << >>]
Follows(p, i) ==
    CASE i.kind = "section" -> [p EXCEPT !.section = i.number]
      [] i.kind = "org"     -> [p EXCEPT !.at[p.section] = i.to]
      [] i.kind = "ds"      -> [p EXCEPT !.at[p.section] = @ + i.size]
      [] i.kind \in Lines   -> [p EXCEPT !.at[p.section] = @ + Len(i.bytes),
                                         !.bytes = @ \o i.bytes]
      [] OTHER              -> p
Knowing(y) ==
    LET knows[k \in 0 .. Len(y.listing)] ==
            IF k = 0 THEN Outset(y) ELSE Follows(knows[k - 1], y.listing[k])
    IN  knows

-----------------------------------------------------------------------------
(* The invariant. Come is what this assembler has come to.                 *)

Come(y) == Knowing(y)[Len(y.listing)]
Labels(y, n) == y.sections[n].labels
Count(m) == [b \in 1 .. m |-> b]

(* A heading gives the origin of section n.                                *)
Given(y, n) ==
    \E k \in DOMAIN y.listing : /\ y.listing[k].kind = "section" /\ y.listing[k].number = n
                                /\ y.listing[k].origin = y.sections[n].org

(* What is right of an item, after which the assembler is at p.            *)
LineFits(S, p, i, f) ==
    /\ i.bytes # << >>
    /\ \A b \in DOMAIN i.bytes : /\ i.bytes[b] \in DOMAIN f
                                 /\ f[i.bytes[b]] = << p.section, i.at + b - 1 >>
    /\ ~S[p.section].ref_only => i.at = Here(p) - Len(i.bytes)
LabelsFit(S, p, i) ==
    \A l \in i.which : /\ l.section = p.section
                       /\ \/ l.offset = Here(p)
                          \/ S[p.section].ref_only /\ l.offset < S[p.section].org
ItemFits(y, f, k) ==
    LET p == Knowing(y)[k]
        i == y.listing[k]
    IN  /\ i.kind \in Lines => p.section \in DOMAIN y.sections /\ LineFits(y.sections, p, i, f)
        /\ i.kind = "labels" => /\ p.section \in DOMAIN y.sections /\ LabelsFit(y.sections, p, i)
                                /\ y.sections[p.section].ref_only => Given(y, p.section)
Listed(y, f) == \A k \in DOMAIN y.listing : ItemFits(y, f, k)

(* Labels to come are of their section, and front_matter() has printed     *)
(* those of sections that only name places.                                *)
Unmixed(y) ==
    \A n \in DOMAIN y.sections :
        /\ \A l \in Labels(y, n) : l.section = n /\ IsLabel(l)
        /\ y.sections[n].ref_only => Labels(y, n) = {}

(* Where the assembler is, and where the bytes in hand belong. *)
Sited(y) ==
    /\ Come(y).section = y.section
    /\ \A n \in DOMAIN y.sections : ~y.sections[n].ref_only =>
           Come(y).at[n] = IF n = y.section THEN y.pc ELSE y.sections[n].pc
Carried(y, f, m) ==
    /\ Come(y).bytes \o y.bytes = Count(m) /\ m <= Len(f)
    /\ \A b \in DOMAIN y.bytes : y.bytes[b] \in DOMAIN f
       /\ f[y.bytes[b]] = << y.section, y.pc + b - 1 >>

(* A label of L is still to come and the listing has not got past it, or   *)
(* it has been printed where it is, or the listing never stops there. A    *)
(* stop before an expression that cuts an instruction is none.             *)
PrintedAt(y, l) ==
    {k \in DOMAIN y.listing : y.listing[k].kind = "labels" /\ l \in y.listing[k].which}
CutAt(y, n, k) ==
    /\ ~y.sections[n].data /\ k \in 1 .. Len(y.listing) - 1
    /\ y.listing[k].kind = "db" /\ y.listing[k + 1].kind = "expr"
ComesTo(y, l, k) ==
    LET p == Knowing(y)[k]
    IN  p.section = l.section /\ Here(p) = l.offset /\ ~CutAt(y, l.section, k)
StillToCome(y, l) ==
    PrintedAt(y, l) = {} /\ \A k \in DOMAIN y.listing : k < Len(y.listing) => ~ComesTo(y, l, k)
IsPrinted(y, l) == \E k \in DOMAIN y.listing : PrintedAt(y, l) = {k} /\ ComesTo(y, l, k)
IsPassed(y, l) ==
    /\ PrintedAt(y, l) = {} /\ \A k \in DOMAIN y.listing : ~ComesTo(y, l, k)
    /\ l.offset < Come(y).at[l.section] /\ ~y.sections[l.section].ref_only
Traced(y, l) ==
    IF l \in Labels(y, l.section) THEN StillToCome(y, l) ELSE IsPrinted(y, l) \/ IsPassed(y, l)
Forward(y) ==
    \A k \in DOMAIN y.listing :
        LET p == Knowing(y)[k - 1]
        IN  /\ y.listing[k].kind = "org"
            /\ p.section \in DOMAIN y.sections /\ ~y.sections[p.section].ref_only
            => y.listing[k].to >= Here(p)
Found(y, L) == Forward(y) => \A l \in L : Traced(y, l)

(* The listing starts with imports and variables, and a section is         *)
(* declared the first time it is named.                                    *)
HeadingsOf(y, n) == {k \in DOMAIN y.listing : y.listing[k].kind = "section"
                     /\ y.listing[k].number = n}
Declares(y, k) ==
    LET i == y.listing[k]
        e == y.sections[i.number]
    IN  /\ i.publics = e.publics /\ i.equs = e.equs
        /\ i.origin \in {0, e.org}
        /\ e.valid /\ e.offset /\ i.number > 4 => i.origin = e.org
Silent(y, k) ==
    y.listing[k].publics = {} /\ y.listing[k].equs = {} /\ y.listing[k].origin = 0
Opens(y) ==
    /\ 1 \in DOMAIN y.listing /\ y.listing[1] = Declarations(y)
    /\ \A k \in DOMAIN y.listing : k # 1 => y.listing[k].kind # "symbols"
Declared(y) ==
    /\ Opens(y)
    /\ \A k \in DOMAIN y.listing :
           y.listing[k].kind = "section" => y.listing[k].number \in DOMAIN y.sections
    /\ \A n \in DOMAIN y.sections :
           IF y.sections[n].processed
           THEN \E k \in HeadingsOf(y, n) :
                    Declares(y, k) /\ \A j \in HeadingsOf(y, n) \ {k} : k < j /\ Silent(y, j)
           ELSE HeadingsOf(y, n) = {}

(* What the headings say of the origins, whatever becomes of the listing.  *)
Titles(y, n, k) ==
    LET e == y.sections[n]
        origin == y.listing[k].origin
    IN  /\ origin \in {0, e.org} /\ (e.valid /\ e.offset /\ n > 4 => origin = e.org)
        /\ \A j \in HeadingsOf(y, n) \ {k} : k < j /\ y.listing[j].origin = 0
Titled(y) ==
    /\ \A k \in DOMAIN y.listing :
           y.listing[k].kind = "section" => y.listing[k].number \in DOMAIN y.sections
    /\ \A n \in DOMAIN y.sections : y.sections[n].processed => HeadingsOf(y, n) # {}
    /\ \A n \in DOMAIN y.sections :
           HeadingsOf(y, n) # {} => \E k \in HeadingsOf(y, n) : Titles(y, n, k)

(* All of this, of an object that has been given the first m bytes of f.   *)
Stands(y, f, m, L) ==
    /\ y \in Objects /\ y.section \in DOMAIN y.sections
    /\ \A l \in L : l \in ObjectSymbol /\ l.section \in DOMAIN y.sections
    /\ Listed(y, f) /\ Unmixed(y) /\ Sited(y) /\ Carried(y, f, m) /\ Found(y, L) /\ Declared(y)

(* Between two records. Labels that have been passed are not to come when  *)
(* bytes are in hand.                                                      *)
Known(y) ==
    y.next_label = IF Labels(y, y.section) = {} THEN -1
                   ELSE Least({l.offset : l \in Labels(y, y.section)})
Clear(y) == \A l \in Labels(y, y.section) : l.offset > y.pc
InHand(y) ==
    /\ Len(y.bytes) <= 3
    /\ y.code => Len(y.bytes) <= y.size
    /\ y.bytes # << >> => Clear(y)
Settled(y) == Known(y) /\ InHand(y) /\ y.code = ~y.sections[y.section].data

(* Sections keep what the module says of them; those that have not been    *)
(* entered also their labels, or the end that front_matter() gave them. Of *)
(* the others exactly those that were entered have been named.             *)
ModuleLabels(mod, n) == {l \in mod.symbols : IsLabel(l) /\ l.section = n}
AllLabels(y, mod) ==
    {l \in mod.symbols : /\ IsLabel(l) /\ l.section \in DOMAIN mod.sections
                         /\ ~(/\ y.sections[l.section].ref_only
                              /\ l.offset < y.sections[l.section].org)}
SameSection(e, d) ==
    e = [d EXCEPT !.labels = e.labels, !.processed = e.processed, !.pc = e.pc]
Kept(y, mod) ==
    /\ y.symbols = mod.symbols /\ DOMAIN y.sections = DOMAIN Constructed(mod).sections
    /\ \A n \in DOMAIN y.sections : SameSection(y.sections[n], Entry(mod, n))
IsEnd(y, mod, n) ==
    LET ends == {mod.sections[n].size} \cup {l.offset : l \in ModuleLabels(mod, n)}
    IN  Come(y).at[n] \in ends /\ \A x \in ends : x <= Come(y).at[n]
Apart(y, mod, E) ==
    /\ \A n \in DOMAIN mod.sections :
           IF n \in E THEN y.sections[n].processed
           ELSE IF y.sections[n].ref_only THEN y.sections[n].org = 0 => IsEnd(y, mod, n)
           ELSE Labels(y, n) = ModuleLabels(mod, n)
    /\ \A n \in DOMAIN y.sections \ DOMAIN mod.sections :
           n \in E <=> y.sections[n].processed

(* Where each section has got to, and p bytes are still to come.           *)
Place(y, n) == IF n = y.section THEN y.pc + Len(y.bytes) ELSE y.sections[n].pc
Homes(y, h, p) == \A n \in DOMAIN y.sections : h[n] = Place(y, n) + IF n = y.section THEN p ELSE 0

(* What an object keeps to the end, and when the program fails.            *)
Lasts(y, f, h, mod, E, p) ==
    /\ y \in Objects /\ y.section \in DOMAIN y.sections \cup {-1}
    /\ y.section >= 0 => Known(y) /\ InHand(y)
    /\ y.section = -1 => y.bytes = << >>
    /\ f \in Seq(Places) /\ Listed(y, f) /\ Carried(y, f, Len(f)) /\ Titled(y)
    /\ Kept(y, mod) /\ E \subseteq DOMAIN y.sections
    /\ \A n \in DOMAIN y.sections : ~y.sections[n].ref_only =>
           h[n] = Come(y).at[n] + IF n = y.section THEN Len(y.bytes) + p ELSE 0

(* The whole invariant. *)
InputInv ==
    /\ files \in Seq(Range(files)) /\ \A f \in DOMAIN files : IsFile(files[f])
    /\ modules \in Seq(Range(modules)) /\ \A m \in DOMAIN modules : IsModule(modules[m])
    /\ IsModule(module)
    /\ next \in 1 .. Len(module.records) + 1 /\ rest \in Nat
    /\ phase = "records" /\ rest > 0 => At("DATA") /\ rest < Len(Record.bytes)
    /\ phase = "space" => next \in DOMAIN module.records /\ Record.kind = "SPACE"
Pending == IF phase = "space" THEN rest ELSE 0
HomeInv ==
    /\ home \in [DOMAIN z.sections -> Nat]
    /\ phase \in {"records", "space"} => Homes(z, home, Pending)
LiveInv ==
    phase \in {"records", "space"} =>
        /\ Stands(z, fed, Len(fed), AllLabels(z, module)) /\ Settled(z)
        /\ z.section \in entered
        /\ phase = "space" => z.bytes = << >> /\ Clear(z)
(* At the end each section has been named, and the labels of those that    *)
(* were entered are printed if the listing stops at them.                  *)
Visited(n) == n \in entered \/ z.sections[n].ref_only
Told(l) ==
    IF Visited(l.section)
    THEN \/ IsPrinted(z, l)
         \/ /\ PrintedAt(z, l) = {} /\ \A k \in DOMAIN z.listing : ~ComesTo(z, l, k)
            /\ ~z.sections[l.section].ref_only
    ELSE PrintedAt(z, l) = {}
OverInv ==
    phase \in {"done", "endedEarly"} =>
        /\ z.section = -1 /\ z.bytes = << >>
        /\ Forward(z) => \A l \in AllLabels(z, module) : Told(l)
        /\ Declared(z)
        /\ \A n \in DOMAIN module.sections : z.sections[n].processed
(* What holds whatever has become of the listing. *)
AlwaysInv ==
    /\ phase \in {"files", "opened", "records", "space", "done", "endedEarly", "failed", "exited"}
    /\ phase \in {"files", "opened", "exited"} => module = NoModule /\ z = Constructed(NoModule)
    /\ Lasts(z, fed, home, module, entered, Pending) /\ Apart(z, module, entered)
ListingInv == InputInv /\ HomeInv /\ LiveInv /\ OverInv /\ AlwaysInv

-----------------------------------------------------------------------------
(* Induction. *)

LEMMA NatSets ==
    ASSUME NEW S, 0 \in S, \A i \in Nat : i \in S => i + 1 \in S
    PROVE  Nat \subseteq S
<1> DEFINE L == OpToRel(<, Nat)
           T == Nat \ S
<1> SUFFICES ASSUME T # {} PROVE FALSE
    OBVIOUS
<1>1. \A x \in Nat : \A y \in Nat : y < x => << y, x >> \in L
    BY DEF OpToRel
<1>2. IsWellFoundedOn(L, Nat)
    BY NatLessThanWellFounded
<1> HIDE DEF L
<1>3. PICK x \in T : \A y \in T : << y, x >> \notin L
    BY <1>2, WFMin
<1>4. x - 1 \in T /\ x - 1 < x
    BY <1>3
<1> QED
    BY <1>1, <1>3, <1>4

-----------------------------------------------------------------------------
(* The assembler's reading of a listing. *)

LEMMA KnowingRuns ==
    ASSUME NEW y \in Objects
    PROVE  /\ Len(y.listing) \in Nat /\ DOMAIN y.listing = 1 .. Len(y.listing)
           /\ Knowing(y)[0] = Outset(y)
           /\ \A k \in 1 .. Len(y.listing) : Knowing(y)[k]
              = Follows(Knowing(y)[k - 1], y.listing[k])
<1> DEFINE m == Len(y.listing)
           Runs(t, i) == t = [k \in 0 .. i |-> IF k = 0 THEN Outset(y)
                                               ELSE Follows(t[k - 1], y.listing[k])]
           S == {i \in Nat : \E t : Runs(t, i)}
<1>1. y.listing \in Seq(ListingItem)
    BY DEF Objects
<1>2. m \in Nat /\ DOMAIN y.listing = 1 .. m
    BY <1>1
<1>3. 0 \in S
    <2> DEFINE t == [k \in 0 .. 0 |-> Outset(y)]
    <2>1. Runs(t, 0)
        OBVIOUS
    <2> QED
        BY <2>1
<1>4. ASSUME NEW i \in Nat, i \in S PROVE i + 1 \in S
    <2>1. PICK t : Runs(t, i)
        BY <1>4
    <2> DEFINE last == Follows(t[i], y.listing[i + 1])
               u    == [k \in 0 .. i + 1 |-> IF k = i + 1 THEN last ELSE t[k]]
    <2> HIDE DEF last
    <2>2. ASSUME NEW k \in 0 .. i + 1
          PROVE  u[k] = IF k = 0 THEN Outset(y) ELSE Follows(u[k - 1], y.listing[k])
        <3>1. CASE k = i + 1
            <4>1. u[k] = last /\ u[k - 1] = t[i]
                BY <3>1
            <4> QED
                BY <3>1, <4>1 DEF last
        <3>2. CASE k # i + 1
            <4>1. k \in 0 .. i /\ u[k] = t[k] /\ (k # 0 => k - 1 \in 0 .. i /\ u[k - 1] = t[k - 1])
                BY <3>2
            <4>2. t[k] = IF k = 0 THEN Outset(y) ELSE Follows(t[k - 1], y.listing[k])
                BY <2>1, <4>1
            <4> QED
                BY <4>1, <4>2
        <3> QED
            BY <3>1, <3>2
    <2>3. u = [k \in 0 .. i + 1 |-> u[k]]
        OBVIOUS
    <2> HIDE DEF u
    <2>4. Runs(u, i + 1)
        BY <2>2, <2>3
    <2> QED
        BY <2>4
<1>5. m \in S
    <2> HIDE DEF S, m
    <2> QED
        BY <1>2, <1>3, <1>4, NatSets
<1>6. Runs(Knowing(y), m)
    BY <1>5 DEF Knowing
<1> HIDE DEF m
<1>7. \A k \in 0 .. m : Knowing(y)[k] = IF k = 0 THEN Outset(y)
                                        ELSE Follows(Knowing(y)[k - 1], y.listing[k])
    BY <1>6
<1> QED
    BY <1>2, <1>7 DEF m

LEMMA SectionsAre ==
    ASSUME NEW y \in Objects
    PROVE  \E t \in 4 .. 255 : y.sections \in [0 .. t -> SectionEntry]
<1>1. y.sections \in UNION {[0 .. t -> SectionEntry] : t \in 4 .. 255}
    BY DEF Objects, SectionTables
<1> QED
    BY <1>1

LEMMA FollowsTypes ==
    ASSUME NEW D, NEW p \in AssemblerStates(D), NEW i \in ListingItem, NEW q, q = Follows(p, i)
    PROVE  /\ q \in AssemblerStates(D)
           /\ q.section = IF i.kind = "section" THEN i.number ELSE p.section
           /\ \A n \in D : n # p.section => q.at[n] = p.at[n]
           /\ p.section \in D =>
                  q.at[p.section] = CASE i.kind = "org"  -> i.to
                                      [] i.kind = "ds"   -> p.at[p.section] + i.size
                                      [] i.kind \in Lines -> p.at[p.section] + Len(i.bytes)
                                      [] OTHER           -> p.at[p.section]
           /\ q.bytes = IF i.kind \in Lines THEN p.bytes \o i.bytes ELSE p.bytes
<1> USE DEF AssemblerStates
<1>0. p.section \in 0 .. 255 \cup {-1} /\ p.at \in [D -> Int] /\ p.bytes \in Seq(Nat)
    OBVIOUS
<1>1. CASE i.kind = "section"
    <2>1. q = [p EXCEPT !.section = i.number] /\ i.number \in 0 .. 255
        BY <1>1 DEF Follows, ListingItem, Lines
    <2> QED
        BY <1>0, <1>1, <2>1 DEF Lines
<1>2. CASE i.kind = "org"
    <2>1. q = [p EXCEPT !.at[p.section] = i.to] /\ i.to \in Nat
        BY <1>2 DEF Follows, ListingItem, Lines
    <2>2. /\ q.at = [n \in D |-> IF n = p.section THEN i.to ELSE p.at[n]]
          /\ q.section = p.section /\ q.bytes = p.bytes
        BY <1>0, <2>1
    <2>3. q.at \in [D -> Int]
        <3>1. \A n \in D : p.at[n] \in Int /\ i.to \in Int
            BY <1>0, <2>1
        <3> QED
            BY <2>2, <3>1
    <2>4. q = [section |-> q.section, at |-> q.at, bytes |-> q.bytes]
        BY <2>1
    <2> QED
        BY <1>0, <1>2, <2>1, <2>2, <2>3, <2>4 DEF Lines
<1>3. CASE i.kind = "ds"
    <2>1. q = [p EXCEPT !.at[p.section] = @ + i.size] /\ i.size \in Nat
        BY <1>3 DEF Follows, ListingItem, Lines
    <2>2. \A n \in D : p.at[n] + i.size \in Int
        BY <1>0, <2>1
    <2>3. /\ q.at = [n \in D |-> IF n = p.section THEN p.at[n] + i.size ELSE p.at[n]]
          /\ q.section = p.section /\ q.bytes = p.bytes
        BY <1>0, <2>1
    <2>4. q.at \in [D -> Int]
        BY <1>0, <2>2, <2>3
    <2>5. q = [section |-> q.section, at |-> q.at, bytes |-> q.bytes]
        BY <2>1
    <2> QED
        BY <1>0, <1>3, <2>1, <2>3, <2>4, <2>5 DEF Lines
<1>4. CASE i.kind \in Lines
    <2>1. /\ q = [p EXCEPT !.at[p.section] = @ + Len(i.bytes), !.bytes = @ \o i.bytes]
          /\ i.bytes \in Seq(Nat)
        BY <1>4 DEF Follows, ListingItem, Lines
    <2>2. \A n \in D : p.at[n] + Len(i.bytes) \in Int
        BY <1>0, <2>1
    <2>3. /\ q.at = [n \in D |-> IF n = p.section THEN p.at[n] + Len(i.bytes) ELSE p.at[n]]
          /\ q.section = p.section /\ q.bytes = p.bytes \o i.bytes
        BY <1>0, <2>1
    <2>4. q.at \in [D -> Int] /\ q.bytes \in Seq(Nat)
        <3>1. q.at \in [D -> Int]
            BY <1>0, <2>2, <2>3
        <3>2. q.bytes \in Seq(Nat)
            BY <1>0, <2>1, <2>3
        <3> QED
            BY <3>1, <3>2
    <2>5. q = [section |-> q.section, at |-> q.at, bytes |-> q.bytes]
        BY <2>1
    <2> QED
        BY <1>0, <1>4, <2>3, <2>4, <2>5 DEF Lines
<1>5. CASE i.kind \notin {"section", "org", "ds"} \cup Lines
    <2>1. q = p
        BY <1>5 DEF Follows
    <2> QED
        BY <1>0, <1>5, <2>1
<1> QED
    BY <1>1, <1>2, <1>3, <1>4, <1>5

LEMMA KnowingTypes ==
    ASSUME NEW y \in Objects
    PROVE  \A k \in 0 .. Len(y.listing) : Knowing(y)[k] \in AssemblerStates(DOMAIN y.sections)
<1> DEFINE D == DOMAIN y.sections
           S == {k \in Nat : k <= Len(y.listing) => Knowing(y)[k] \in AssemblerStates(D)}
<1>0. Len(y.listing) \in Nat /\ y.listing \in Seq(ListingItem)
    BY DEF Objects
<1>1. 0 \in S
    <2>1. \A n \in D : y.sections[n].org \in Int
        <3>1. PICK t \in 4 .. 255 : y.sections \in [0 .. t -> SectionEntry]
            BY SectionsAre
        <3>2. \A n \in D : y.sections[n] \in SectionEntry
            BY <3>1
        <3> QED
            BY <3>2 DEF SectionEntry
    <2>2. Outset(y) \in AssemblerStates(D)
        BY <2>1 DEF Outset, AssemblerStates
    <2> QED
        BY <2>2, KnowingRuns
<1>2. ASSUME NEW k \in Nat, k \in S PROVE k + 1 \in S
    <2> SUFFICES ASSUME k + 1 <= Len(y.listing) PROVE Knowing(y)[k + 1] \in AssemblerStates(D)
        OBVIOUS
    <2>1. k + 1 \in 1 .. Len(y.listing) /\ Knowing(y)[k] \in AssemblerStates(D)
        BY <1>0, <1>2
    <2>2. y.listing[k + 1] \in ListingItem
        BY <1>0, <2>1
    <2>3. Knowing(y)[k + 1] = Follows(Knowing(y)[k], y.listing[k + 1])
        BY <1>0, <2>1, KnowingRuns
    <2> QED
        BY <2>1, <2>2, <2>3, FollowsTypes
<1> HIDE DEF S
<1>3. Nat \subseteq S
    BY <1>1, <1>2, NatSets
<1> QED
    BY <1>0, <1>3 DEF S

LEMMA ComesType ==
    ASSUME NEW y \in Objects
    PROVE  Come(y) \in AssemblerStates(DOMAIN y.sections)
BY KnowingTypes, KnowingRuns DEF Come

LEMMA KnowingGrows ==
    ASSUME NEW y \in Objects, NEW w \in Objects, Outset(w) = Outset(y),
           NEW i \in ListingItem, w.listing = Append(y.listing, i)
    PROVE  /\ Len(w.listing) = Len(y.listing) + 1
           /\ \A k \in 0 .. Len(y.listing) : Knowing(w)[k] = Knowing(y)[k]
           /\ \A k \in DOMAIN y.listing : w.listing[k] = y.listing[k]
           /\ w.listing[Len(y.listing) + 1] = i
           /\ Come(w) = Follows(Come(y), i)
           /\ DOMAIN w.listing = DOMAIN y.listing \cup {Len(y.listing) + 1}
<1> DEFINE S == {k \in Nat : k <= Len(y.listing) => Knowing(w)[k] = Knowing(y)[k]}
<1>1. y.listing \in Seq(ListingItem)
    BY DEF Objects
<1>2. /\ Len(y.listing) \in Nat /\ Len(w.listing) = Len(y.listing) + 1
      /\ \A k \in 1 .. Len(y.listing) : w.listing[k] = y.listing[k]
      /\ w.listing[Len(y.listing) + 1] = i
      /\ DOMAIN y.listing = 1 .. Len(y.listing) /\ DOMAIN w.listing = 1 .. Len(y.listing) + 1
    BY <1>1
<1>3. 0 \in S
    BY KnowingRuns
<1>4. ASSUME NEW k \in Nat, k \in S PROVE k + 1 \in S
    <2> SUFFICES ASSUME k + 1 <= Len(y.listing) PROVE Knowing(w)[k + 1] = Knowing(y)[k + 1]
        OBVIOUS
    <2>1. k + 1 \in 1 .. Len(y.listing) /\ k + 1 \in 1 .. Len(w.listing)
          /\ Knowing(w)[k] = Knowing(y)[k]
        BY <1>2, <1>4
    <2>2. /\ Knowing(y)[k + 1] = Follows(Knowing(y)[k + 1 - 1], y.listing[k + 1])
          /\ Knowing(w)[k + 1] = Follows(Knowing(w)[k + 1 - 1], w.listing[k + 1])
        BY <2>1, KnowingRuns, SMTT(30)
    <2> QED
        BY <1>2, <2>1, <2>2
<1> HIDE DEF S
<1>5. Nat \subseteq S
    BY <1>3, <1>4, NatSets
<1>6. \A k \in 0 .. Len(y.listing) : Knowing(w)[k] = Knowing(y)[k]
    BY <1>2, <1>5 DEF S
<1>7. Knowing(w)[Len(w.listing)]
      = Follows(Knowing(w)[Len(w.listing) - 1], w.listing[Len(w.listing)])
    BY <1>2, KnowingRuns
<1>8. Come(w) = Follows(Come(y), i)
    BY <1>2, <1>6, <1>7 DEF Come
<1> QED
    BY <1>2, <1>6, <1>8

LEMMA KnowingSame ==
    ASSUME NEW y, NEW w, Outset(w) = Outset(y), w.listing = y.listing
    PROVE  Knowing(w) = Knowing(y) /\ Come(w) = Come(y)
BY DEF Knowing, Come

-----------------------------------------------------------------------------
(* One more item. *)

(* w is y with i printed; whatever else has changed, sections are at the   *)
(* same origins and of the same kinds.                                     *)
SameKinds(y, w) ==
    /\ w.symbols = y.symbols /\ DOMAIN w.sections = DOMAIN y.sections
    /\ \A n \in DOMAIN y.sections :
           /\ w.sections[n].org = y.sections[n].org /\ w.sections[n].data = y.sections[n].data
           /\ w.sections[n].ref_only = y.sections[n].ref_only
           /\ w.sections[n].valid = y.sections[n].valid
           /\ w.sections[n].offset = y.sections[n].offset
Printed(y, w, i) ==
    /\ y \in Objects /\ w \in Objects /\ SameKinds(y, w)
    /\ i \in ListingItem /\ w.listing = Append(y.listing, i)
Unprinted(y, w) == y \in Objects /\ w \in Objects /\ SameKinds(y, w) /\ w.listing = y.listing

LEMMA SameBlank ==
    ASSUME NEW y, NEW w, SameKinds(y, w)
    PROVE  Outset(w) = Outset(y)
BY DEF SameKinds, Outset

LEMMA PrintedKnowing ==
    ASSUME NEW y, NEW w, NEW i, Printed(y, w, i)
    PROVE  /\ Len(y.listing) \in Nat /\ Len(w.listing) = Len(y.listing) + 1
           /\ DOMAIN y.listing = 1 .. Len(y.listing)
           /\ DOMAIN w.listing = 1 .. Len(y.listing) + 1
           /\ \A k \in 0 .. Len(y.listing) : Knowing(w)[k] = Knowing(y)[k]
           /\ \A k \in 1 .. Len(y.listing) : w.listing[k] = y.listing[k]
              /\ y.listing[k] \in ListingItem
           /\ w.listing[Len(y.listing) + 1] = i
           /\ Knowing(y)[Len(y.listing)] = Come(y)
           /\ Knowing(w)[Len(y.listing) + 1] = Come(w)
           /\ Come(w) = Follows(Come(y), i)
           /\ Come(y) \in AssemblerStates(DOMAIN y.sections)
           /\ Come(w) \in AssemblerStates(DOMAIN y.sections)
<1>1. y \in Objects /\ w \in Objects /\ SameKinds(y, w) /\ i \in ListingItem
    BY DEF Printed
<1>2. Outset(w) = Outset(y) /\ w.listing = Append(y.listing, i)
    BY SameBlank DEF Printed
<1>3. /\ Len(w.listing) = Len(y.listing) + 1
      /\ \A k \in 0 .. Len(y.listing) : Knowing(w)[k] = Knowing(y)[k]
      /\ \A k \in DOMAIN y.listing : w.listing[k] = y.listing[k]
      /\ w.listing[Len(y.listing) + 1] = i
      /\ Come(w) = Follows(Come(y), i)
    BY <1>1, <1>2, KnowingGrows
<1>4. y.listing \in Seq(ListingItem)
    BY <1>1 DEF Objects
<1>5. /\ Len(y.listing) \in Nat /\ DOMAIN y.listing = 1 .. Len(y.listing)
      /\ DOMAIN w.listing = 1 .. Len(y.listing) + 1
    BY <1>1, <1>3, KnowingRuns
<1>6. Come(y) \in AssemblerStates(DOMAIN y.sections)
      /\ Come(w) \in AssemblerStates(DOMAIN y.sections)
    BY <1>1, ComesType DEF SameKinds
<1> QED
    BY <1>3, <1>4, <1>5, <1>6 DEF Come

LEMMA GivenGrows ==
    ASSUME NEW y, NEW w, NEW i, Printed(y, w, i), NEW n \in DOMAIN y.sections, Given(y, n)
    PROVE  Given(w, n)
<1>1. PICK k \in DOMAIN y.listing : /\ y.listing[k].kind = "section" /\ y.listing[k].number = n
                                    /\ y.listing[k].origin = y.sections[n].org
    BY DEF Given
<1>2. k \in DOMAIN w.listing /\ w.listing[k] = y.listing[k]
    BY PrintedKnowing
<1>3. w.sections[n].org = y.sections[n].org
    BY DEF Printed, SameKinds
<1> QED
    BY <1>1, <1>2, <1>3 DEF Given

LEMMA GivenNow ==
    ASSUME NEW y, NEW w, NEW i, Printed(y, w, i), NEW n \in DOMAIN y.sections,
           i.kind = "section", i.number = n, i.origin = y.sections[n].org
    PROVE  Given(w, n)
<1>1. /\ Len(y.listing) \in Nat /\ DOMAIN w.listing = 1 .. Len(y.listing) + 1
      /\ w.listing[Len(y.listing) + 1] = i
    BY PrintedKnowing
<1>2. Len(y.listing) + 1 \in DOMAIN w.listing
    BY <1>1
<1>3. w.sections[n].org = y.sections[n].org
    BY DEF Printed, SameKinds
<1> QED
    BY <1>1, <1>2, <1>3 DEF Given

LEMMA ListedGrows ==
    ASSUME NEW y, NEW w, NEW i, Printed(y, w, i), NEW f, Listed(y, f),
           LET p == Come(w)
           IN  /\ i.kind \in Lines
                  => p.section \in DOMAIN y.sections /\ LineFits(y.sections, p, i, f)
               /\ i.kind = "labels"
                  => /\ p.section \in DOMAIN y.sections /\ LabelsFit(y.sections, p, i)
                     /\ y.sections[p.section].ref_only => Given(y, p.section)
    PROVE  Listed(w, f)
<1> SUFFICES ASSUME NEW k \in DOMAIN w.listing PROVE ItemFits(w, f, k)
    BY DEF Listed
<1>1. SameKinds(y, w)
    BY DEF Printed
<1>2. \A p, g : p.section \in DOMAIN y.sections =>
          /\ LineFits(y.sections, p, g, f) => LineFits(w.sections, p, g, f)
          /\ LabelsFit(y.sections, p, g) => LabelsFit(w.sections, p, g)
    BY <1>1 DEF SameKinds, LineFits, LabelsFit
<1>3. CASE k \in DOMAIN y.listing
    <2>1. ItemFits(y, f, k) /\ Knowing(w)[k] = Knowing(y)[k] /\ w.listing[k] = y.listing[k]
        BY <1>3, PrintedKnowing DEF Listed
    <2> QED
        BY <1>1, <1>2, <2>1, GivenGrows DEF ItemFits, SameKinds
<1>4. CASE k = Len(y.listing) + 1
    <2>1. Knowing(w)[k] = Come(w) /\ w.listing[k] = i
        BY <1>4, PrintedKnowing
    <2> QED
        BY <1>1, <1>2, <2>1, GivenGrows DEF ItemFits, SameKinds
<1> QED
    BY <1>3, <1>4, PrintedKnowing

LEMMA ListedStays ==
    ASSUME NEW y, NEW w, Unprinted(y, w), NEW f, Listed(y, f)
    PROVE  Listed(w, f)
<1>1. SameKinds(y, w) /\ w.listing = y.listing /\ Knowing(w) = Knowing(y)
    BY SameBlank, KnowingSame DEF Unprinted
<1> SUFFICES ASSUME NEW k \in DOMAIN y.listing PROVE ItemFits(w, f, k)
    BY <1>1 DEF Listed
<1>2. ItemFits(y, f, k)
    BY DEF Listed
<1>3. \A n \in DOMAIN y.sections : Given(y, n) => Given(w, n)
    BY <1>1 DEF Given, SameKinds
<1>4. \A p, g : p.section \in DOMAIN y.sections =>
          /\ LineFits(y.sections, p, g, f) => LineFits(w.sections, p, g, f)
          /\ LabelsFit(y.sections, p, g) => LabelsFit(w.sections, p, g)
    BY <1>1 DEF SameKinds, LineFits, LabelsFit
<1> QED
    BY <1>1, <1>2, <1>3, <1>4 DEF ItemFits, SameKinds

(* More bytes may come after those that were fed.                          *)
LEMMA ListedFed ==
    ASSUME NEW y, NEW f, NEW g, Listed(y, f), DOMAIN f \subseteq DOMAIN g,
           \A b \in DOMAIN f : g[b] = f[b]
    PROVE  Listed(y, g)
<1> SUFFICES ASSUME NEW k \in DOMAIN y.listing PROVE ItemFits(y, g, k)
    BY DEF Listed
<1>1. ItemFits(y, f, k)
    BY DEF Listed
<1>2. \A S, p, i : LineFits(S, p, i, f) => LineFits(S, p, i, g)
    BY DEF LineFits
<1> QED
    BY <1>1, <1>2 DEF ItemFits

LEMMA ForwardBefore ==
    ASSUME NEW y, NEW w, NEW i, Printed(y, w, i), Forward(w)
    PROVE  /\ Forward(y)
           /\ \A n \in DOMAIN y.sections :
                  ~y.sections[n].ref_only => Come(w).at[n] >= Come(y).at[n]
<1>0. SameKinds(y, w)
    BY DEF Printed
<1>1. Forward(y)
    <2> SUFFICES ASSUME NEW k \in DOMAIN y.listing, y.listing[k].kind = "org",
                        NEW p, p = Knowing(y)[k - 1], p.section \in DOMAIN y.sections,
                        ~y.sections[p.section].ref_only
                 PROVE  y.listing[k].to >= Here(p)
        BY DEF Forward
    <2>1. k - 1 \in 0 .. Len(y.listing) /\ k \in 1 .. Len(y.listing) /\ k \in DOMAIN w.listing
        BY PrintedKnowing
    <2>2. Knowing(w)[k - 1] = p /\ w.listing[k] = y.listing[k]
        BY <2>1, PrintedKnowing
    <2>3. p.section \in DOMAIN w.sections /\ ~w.sections[p.section].ref_only
        BY <1>0 DEF SameKinds
    <2> QED
        BY <2>1, <2>2, <2>3 DEF Forward
<1>2. ASSUME NEW n \in DOMAIN y.sections, ~y.sections[n].ref_only
      PROVE  Come(w).at[n] >= Come(y).at[n]
    <2>1. /\ Come(y) \in AssemblerStates(DOMAIN y.sections) /\ i \in ListingItem
          /\ Come(w) = Follows(Come(y), i)
        BY PrintedKnowing DEF Printed
    <2>2. Come(y).at[n] \in Int
        BY <2>1 DEF AssemblerStates
    <2>3. CASE n # Come(y).section
        BY <2>1, <2>2, <2>3, FollowsTypes
    <2>4. CASE n = Come(y).section
        <3>1. CASE i.kind = "org"
            <4>1. i.to >= Here(Come(y))
                <5>1. Len(y.listing) + 1 \in DOMAIN w.listing
                      /\ Len(y.listing) + 1 - 1 = Len(y.listing)
                    BY PrintedKnowing
                <5>2. w.listing[Len(y.listing) + 1] = i /\ Knowing(w)[Len(y.listing)] = Come(y)
                    BY PrintedKnowing
                <5>3. n \in DOMAIN w.sections /\ ~w.sections[n].ref_only
                    BY <1>0, <1>2 DEF SameKinds
                <5> QED
                    BY <2>4, <3>1, <5>1, <5>2, <5>3 DEF Forward
            <4> QED
                <5>1. Come(w).at[n] = i.to
                    BY <2>1, <2>4, <3>1, FollowsTypes DEF Lines
                <5> QED
                    BY <2>4, <4>1, <5>1 DEF Here
        <3>2. CASE i.kind = "ds"
            <4>1. i.size \in Nat
                BY <2>1, <3>2 DEF ListingItem, Lines
            <4>2. Come(w).at[n] = Come(y).at[n] + i.size
                BY <2>1, <2>4, <3>2, FollowsTypes DEF Lines
            <4> QED
                BY <2>2, <4>1, <4>2
        <3>3. CASE i.kind \in Lines
            <4>1. Len(i.bytes) \in Nat
                BY <2>1, <3>3 DEF ListingItem, Lines
            <4>2. Come(w).at[n] = Come(y).at[n] + Len(i.bytes)
                BY <2>1, <2>4, <3>3, FollowsTypes DEF Lines
            <4> QED
                BY <2>2, <4>1, <4>2
        <3>4. CASE i.kind \notin {"org", "ds"} \cup Lines
            <4>1. Come(w).at[n] = Come(y).at[n]
                BY <2>1, <2>4, <3>4, FollowsTypes DEF Lines
            <4> QED
                BY <2>2, <4>1
        <3> QED
            BY <3>1, <3>2, <3>3, <3>4
    <2> QED
        BY <2>3, <2>4
<1> QED
    BY <1>1, <1>2

(* The labels printed, and the stops, of w. *)
LEMMA PrintedTraces ==
    ASSUME NEW y, NEW w, NEW i, Printed(y, w, i), NEW l, l.section \in DOMAIN y.sections
    PROVE  /\ PrintedAt(w, l) = IF i.kind = "labels" /\ l \in i.which
                                THEN PrintedAt(y, l) \cup {Len(y.listing) + 1} ELSE PrintedAt(y, l)
           /\ \A k \in DOMAIN y.listing : k < Len(y.listing)
              => (ComesTo(w, l, k) <=> ComesTo(y, l, k))
           /\ \A k \in DOMAIN y.listing : ComesTo(w, l, k) => ComesTo(y, l, k)
           /\ \A k \in DOMAIN y.listing :
                  y.listing[k].kind # "db" => (ComesTo(w, l, k) <=> ComesTo(y, l, k))
           /\ ComesTo(w, l, Len(y.listing)) =>
                  /\ Come(y).section = l.section /\ Here(Come(y)) = l.offset
                  /\ Len(y.listing) \in DOMAIN y.listing =>
                         ~(/\ ~y.sections[l.section].data
                           /\ y.listing[Len(y.listing)].kind = "db" /\ i.kind = "expr")
           /\ ComesTo(w, l, Len(y.listing) + 1) <=>
                  Come(w).section = l.section /\ Here(Come(w)) = l.offset
<1> DEFINE m == Len(y.listing)
<1>1. /\ m \in Nat /\ Len(w.listing) = m + 1
      /\ DOMAIN y.listing = 1 .. m /\ DOMAIN w.listing = 1 .. m + 1
      /\ \A k \in 0 .. m : Knowing(w)[k] = Knowing(y)[k]
      /\ \A k \in 1 .. m : w.listing[k] = y.listing[k]
      /\ w.listing[m + 1] = i
      /\ Knowing(y)[m] = Come(y) /\ Knowing(w)[m + 1] = Come(w)
    BY PrintedKnowing
<1>2. y.sections[l.section].data = w.sections[l.section].data
    BY DEF Printed, SameKinds
<1> HIDE DEF m
<1>3. PrintedAt(w, l) = IF i.kind = "labels" /\ l \in i.which
                        THEN PrintedAt(y, l) \cup {m + 1} ELSE PrintedAt(y, l)
    <2>1. \A k \in 1 .. m : k \in PrintedAt(w, l) <=> k \in PrintedAt(y, l)
        BY <1>1 DEF PrintedAt
    <2>2. m + 1 \in PrintedAt(w, l) <=> i.kind = "labels" /\ l \in i.which
        BY <1>1 DEF PrintedAt
    <2>3. PrintedAt(w, l) \subseteq 1 .. m \cup {m + 1} /\ PrintedAt(y, l) \subseteq 1 .. m
        BY <1>1 DEF PrintedAt
    <2>4. m + 1 \notin 1 .. m
        BY <1>1
    <2> QED
        BY <2>1, <2>2, <2>3, <2>4
<1>4. \A k \in 1 .. m : k < m => (CutAt(w, l.section, k) <=> CutAt(y, l.section, k))
    <2> SUFFICES ASSUME NEW k \in 1 .. m, k < m
                 PROVE CutAt(w, l.section, k) <=> CutAt(y, l.section, k)
        OBVIOUS
    <2>1. k \in 1 .. m /\ k + 1 \in 1 .. m /\ k \in 1 .. m - 1 /\ k \in 1 .. (m + 1) - 1
        BY <1>1
    <2> QED
        BY <1>1, <1>2, <2>1 DEF CutAt, m
<1>5. \A k \in 1 .. m : CutAt(y, l.section, k) => CutAt(w, l.section, k)
    <2> SUFFICES ASSUME NEW k \in 1 .. m, CutAt(y, l.section, k) PROVE CutAt(w, l.section, k)
        OBVIOUS
    <2>1. k < m
        BY <1>1 DEF CutAt, m
    <2> QED
        BY <1>4, <2>1
<1>6. \A k \in 1 .. m : y.listing[k].kind # "db"
      => ~CutAt(y, l.section, k) /\ ~CutAt(w, l.section, k)
    BY <1>1 DEF CutAt
<1>7. \A k \in 1 .. m : Knowing(w)[k] = Knowing(y)[k]
    BY <1>1
<1>8. m \in 1 .. m => (CutAt(w, l.section, m) <=> /\ ~y.sections[l.section].data
                                 /\ y.listing[m].kind = "db" /\ i.kind = "expr")
    <2> SUFFICES ASSUME m \in 1 .. m
                 PROVE  CutAt(w, l.section, m) <=> /\ ~y.sections[l.section].data
                                 /\ y.listing[m].kind = "db" /\ i.kind = "expr"
        OBVIOUS
    <2>1. m \in 1 .. Len(w.listing) - 1 /\ w.listing[m] = y.listing[m] /\ w.listing[m + 1] = i
        BY <1>1
    <2> QED
        BY <1>2, <2>1 DEF CutAt
<1>9. ~CutAt(w, l.section, m + 1)
    <2>1. m + 1 \notin 1 .. Len(w.listing) - 1
        BY <1>1
    <2> QED
        BY <2>1 DEF CutAt
<1>10. Knowing(w)[m] = Come(y) /\ m \in 0 .. m
    BY <1>1
<1>11. ComesTo(w, l, m) => /\ Come(y).section = l.section /\ Here(Come(y)) = l.offset
                           /\ ~CutAt(w, l.section, m)
    BY <1>10 DEF ComesTo
<1>12. ComesTo(w, l, m + 1) <=> Come(w).section = l.section /\ Here(Come(w)) = l.offset
    BY <1>1, <1>9 DEF ComesTo
<1>13. \A k \in 1 .. m : k < m => (ComesTo(w, l, k) <=> ComesTo(y, l, k))
    BY <1>4, <1>7 DEF ComesTo
<1>14. \A k \in 1 .. m : ComesTo(w, l, k) => ComesTo(y, l, k)
    BY <1>5, <1>7 DEF ComesTo
<1>15. \A k \in 1 .. m : y.listing[k].kind # "db" => (ComesTo(w, l, k) <=> ComesTo(y, l, k))
    BY <1>6, <1>7 DEF ComesTo
<1> QED
    BY <1>1, <1>3, <1>8, <1>11, <1>12, <1>13, <1>14, <1>15 DEF m

(* Nothing is printed past a label that is to come, but a line that an     *)
(* expression cuts off.                                                    *)
NoStop(y, l, i) ==
    Come(y).section = l.section /\ Here(Come(y)) = l.offset =>
        /\ Len(y.listing) \in DOMAIN y.listing
        /\ ~y.sections[l.section].data
        /\ y.listing[Len(y.listing)].kind = "db" /\ i.kind = "expr"

LEMMA TraceGrows ==
    ASSUME NEW y, NEW w, NEW i, Printed(y, w, i), NEW l \in ObjectSymbol,
           l.section \in DOMAIN y.sections,
           Forward(w), Traced(y, l),
           l \in Labels(w, l.section) => l \in Labels(y, l.section),
           i.kind = "labels" /\ l \in i.which =>
               /\ l \in Labels(y, l.section) /\ l \notin Labels(w, l.section)
               /\ Come(y).section = l.section /\ Here(Come(y)) = l.offset,
           l \in Labels(y, l.section) => ~y.sections[l.section].ref_only,
           l \in Labels(y, l.section) /\ ~(i.kind = "labels" /\ l \in i.which) =>
               /\ NoStop(y, l, i)
               /\ l \notin Labels(w, l.section) =>
                      l.offset < Come(y).at[l.section] /\ Come(w).at = Come(y).at
    PROVE  Traced(w, l)
<1> DEFINE m == Len(y.listing)
<1>1. /\ m \in Nat /\ Len(w.listing) = m + 1
      /\ DOMAIN y.listing = 1 .. m /\ DOMAIN w.listing = 1 .. m \cup {m + 1}
    BY PrintedKnowing
<1>2. /\ PrintedAt(w, l) = IF i.kind = "labels" /\ l \in i.which
                           THEN PrintedAt(y, l) \cup {m + 1} ELSE PrintedAt(y, l)
      /\ \A k \in 1 .. m : k < m => (ComesTo(w, l, k) <=> ComesTo(y, l, k))
      /\ \A k \in 1 .. m : ComesTo(w, l, k) => ComesTo(y, l, k)
      /\ \A k \in 1 .. m : y.listing[k].kind # "db" => (ComesTo(w, l, k) <=> ComesTo(y, l, k))
      /\ ComesTo(w, l, m) =>
             /\ Come(y).section = l.section /\ Here(Come(y)) = l.offset
             /\ m \in DOMAIN y.listing =>
                    ~(/\ ~y.sections[l.section].data /\ y.listing[m].kind = "db" /\ i.kind = "expr")
      /\ ComesTo(w, l, m + 1) <=> Come(w).section = l.section /\ Here(Come(w)) = l.offset
    BY <1>1, PrintedTraces
<1>3. /\ l.offset \in Nat /\ Come(y) \in AssemblerStates(DOMAIN y.sections)
      /\ Come(w) \in AssemblerStates(DOMAIN y.sections)
      /\ i \in ListingItem /\ Come(w) = Follows(Come(y), i)
    BY PrintedKnowing DEF ObjectSymbol, Printed
<1>4. Come(y).at[l.section] \in Int /\ Come(w).at[l.section] \in Int
    BY <1>3 DEF AssemblerStates
<1>5. /\ ~y.sections[l.section].ref_only => Come(w).at[l.section] >= Come(y).at[l.section]
      /\ w.sections[l.section].ref_only = y.sections[l.section].ref_only
    BY ForwardBefore DEF Printed, SameKinds
<1>6. CASE l \in Labels(y, l.section) /\ i.kind = "labels" /\ l \in i.which
    <2>1. PrintedAt(y, l) = {} /\ l \notin Labels(w, l.section)
        BY <1>6 DEF Traced, StillToCome
    <2>2. PrintedAt(w, l) = {m + 1}
        BY <1>2, <1>6, <2>1
    <2>3. Come(w).section = l.section /\ Here(Come(w)) = l.offset
        <3>1. Come(w).section = Come(y).section
            BY <1>3, <1>6, FollowsTypes
        <3>2. Come(w).at[l.section] = Come(y).at[l.section]
            BY <1>3, <1>6, FollowsTypes DEF Lines
        <3> QED
            BY <1>6, <3>1, <3>2 DEF Here
    <2>4. IsPrinted(w, l)
        BY <1>1, <1>2, <2>2, <2>3 DEF IsPrinted
    <2> QED
        BY <2>1, <2>4 DEF Traced
<1>7. CASE l \in Labels(y, l.section) /\ ~(i.kind = "labels" /\ l \in i.which)
    <2>1. PrintedAt(w, l) = {} /\ \A k \in 1 .. m : k < m => ~ComesTo(w, l, k)
        BY <1>1, <1>2, <1>7 DEF Traced, StillToCome
    <2>2. ~ComesTo(w, l, m)
        BY <1>2, <1>7 DEF NoStop
    <2>3. \A k \in 1 .. m : ~ComesTo(w, l, k)
        <3>1. \A k \in 1 .. m : k < m \/ k = m
            BY <1>1
        <3> QED
            BY <2>1, <2>2, <3>1
    <2>4. CASE l \in Labels(w, l.section)
        <3>1. StillToCome(w, l)
            <4>1. \A k \in DOMAIN w.listing : k < m + 1 => k \in 1 .. m
                BY <1>1
            <4> QED
                BY <1>1, <2>1, <2>3, <4>1 DEF StillToCome
        <3> QED
            BY <2>4, <3>1 DEF Traced
    <2>5. CASE l \notin Labels(w, l.section)
        <3>1. l.offset < Come(w).at[l.section]
            BY <1>7, <2>5
        <3>2. ~ComesTo(w, l, m + 1)
            BY <1>2, <1>3, <1>4, <3>1 DEF Here
        <3>3. IsPassed(w, l)
            BY <1>1, <1>5, <1>7, <2>1, <2>3, <3>1, <3>2 DEF IsPassed
        <3> QED
            BY <2>5, <3>3 DEF Traced
    <2> QED
        BY <2>4, <2>5
<1>8. CASE l \notin Labels(y, l.section)
    <2>1. l \notin Labels(w, l.section) /\ PrintedAt(w, l) = PrintedAt(y, l)
        BY <1>2, <1>8
    <2>2. CASE IsPrinted(y, l)
        <3>1. PICK k \in 1 .. m : PrintedAt(y, l) = {k} /\ ComesTo(y, l, k)
            BY <1>1, <2>2 DEF IsPrinted
        <3>2. y.listing[k].kind = "labels"
            BY <3>1 DEF PrintedAt
        <3>3. ComesTo(w, l, k)
            BY <1>2, <3>1, <3>2
        <3> QED
            BY <1>1, <2>1, <3>1, <3>3 DEF IsPrinted, Traced
    <2>3. CASE IsPassed(y, l)
        <3>1. l.offset < Come(w).at[l.section]
            BY <1>3, <1>4, <1>5, <2>3 DEF IsPassed
        <3>2. ~ComesTo(w, l, m + 1)
            BY <1>2, <1>3, <1>4, <3>1 DEF Here
        <3>3. IsPassed(w, l)
            BY <1>1, <1>2, <1>5, <2>1, <2>3, <3>1, <3>2 DEF IsPassed
        <3> QED
            BY <2>1, <3>3 DEF Traced
    <2> QED
        BY <1>8, <2>2, <2>3 DEF Traced
<1> QED
    BY <1>6, <1>7, <1>8

(* Nothing is printed, and labels that have been passed are dropped.       *)
LEMMA TraceStays ==
    ASSUME NEW y, NEW w, Unprinted(y, w), NEW l, l.section \in DOMAIN y.sections, Traced(y, l),
           l \in Labels(w, l.section) => l \in Labels(y, l.section),
           l \in Labels(y, l.section) /\ l \notin Labels(w, l.section) =>
               /\ l.offset < Come(y).at[l.section] /\ ~ComesTo(y, l, Len(y.listing))
               /\ ~y.sections[l.section].ref_only
    PROVE  Traced(w, l)
<1>1. /\ w.listing = y.listing /\ Knowing(w) = Knowing(y) /\ Come(w) = Come(y)
      /\ y.sections[l.section].data = w.sections[l.section].data
      /\ y.sections[l.section].ref_only = w.sections[l.section].ref_only
    BY SameBlank, KnowingSame DEF Unprinted, SameKinds
<1>2. Len(y.listing) \in Nat /\ DOMAIN y.listing = 1 .. Len(y.listing)
    BY KnowingRuns DEF Unprinted
<1>3. PrintedAt(w, l) = PrintedAt(y, l) /\ \A k : ComesTo(w, l, k) <=> ComesTo(y, l, k)
    BY <1>1 DEF PrintedAt, ComesTo, CutAt
<1>4. CASE l \in Labels(y, l.section) /\ l \in Labels(w, l.section)
    BY <1>1, <1>3, <1>4 DEF Traced, StillToCome
<1>5. CASE l \in Labels(y, l.section) /\ l \notin Labels(w, l.section)
    <2>1. \A k \in DOMAIN w.listing : k < Len(y.listing) \/ k = Len(y.listing)
        BY <1>1, <1>2
    <2>2. IsPassed(w, l)
        BY <1>1, <1>3, <1>5, <2>1 DEF Traced, StillToCome, IsPassed
    <2> QED
        BY <1>5, <2>2 DEF Traced
<1>6. CASE l \notin Labels(y, l.section)
    BY <1>1, <1>3, <1>6 DEF Traced, IsPrinted, IsPassed
<1> QED
    BY <1>4, <1>5, <1>6

LEMMA ForwardStays ==
    ASSUME NEW y, NEW w, Unprinted(y, w), Forward(w)
    PROVE  Forward(y)
BY SameBlank, KnowingSame DEF Unprinted, Forward, SameKinds

LEMMA DeclaredStays ==
    ASSUME NEW y, NEW w, NEW i,
           (Printed(y, w, i) /\ i.kind \notin {"section", "symbols"}) \/ Unprinted(y, w),
           \A n \in DOMAIN y.sections :
               /\ w.sections[n].processed = y.sections[n].processed
               /\ w.sections[n].publics = y.sections[n].publics
               /\ w.sections[n].equs = y.sections[n].equs,
           Declared(y)
    PROVE  Declared(w)
<1>1. /\ DOMAIN w.sections = DOMAIN y.sections
      /\ \A k \in DOMAIN y.listing : k \in DOMAIN w.listing /\ w.listing[k] = y.listing[k]
      /\ \A k \in DOMAIN w.listing : k \in DOMAIN y.listing
                                     \/ w.listing[k].kind \notin {"section", "symbols"}
    <2>1. CASE Unprinted(y, w)
        BY <2>1 DEF Unprinted, SameKinds
    <2>2. CASE Printed(y, w, i) /\ i.kind \notin {"section", "symbols"}
        <3>1. DOMAIN w.sections = DOMAIN y.sections
            BY <2>2 DEF Printed, SameKinds
        <3> QED
            BY <2>2, <3>1, PrintedKnowing
    <2> QED
        BY <2>1, <2>2
<1>5. SameKinds(y, w)
    BY DEF Printed, Unprinted
<1>6. Opens(w)
    BY <1>1, <1>5 DEF Declared, Opens, Declarations, SameKinds
<1>2. \A n : HeadingsOf(w, n) = HeadingsOf(y, n)
    BY <1>1 DEF HeadingsOf
<1>3. ASSUME NEW n \in DOMAIN y.sections, NEW k \in HeadingsOf(y, n)
      PROVE  (Declares(w, k) <=> Declares(y, k)) /\ (Silent(w, k) <=> Silent(y, k))
    <2>1. w.listing[k] = y.listing[k] /\ y.listing[k].number = n
        BY <1>1, <1>3 DEF HeadingsOf
    <2> QED
        BY <1>3, <1>5, <2>1 DEF Declares, Silent, SameKinds
<1>4. \A k \in DOMAIN w.listing :
          w.listing[k].kind = "section" => w.listing[k].number \in DOMAIN w.sections
    BY <1>1 DEF Declared
<1> QED
    BY <1>1, <1>2, <1>3, <1>4, <1>6 DEF Declared

LEMMA DeclaredGrows ==
    ASSUME NEW y, NEW w, NEW n \in DOMAIN y.sections, Printed(y, w, Heading(y, n)),
           w.sections[n].processed,
           \A v \in DOMAIN y.sections :
               /\ v # n => w.sections[v].processed = y.sections[v].processed
               /\ w.sections[v].publics = y.sections[v].publics
               /\ w.sections[v].equs = y.sections[v].equs,
           Declared(y)
    PROVE  Declared(w)
<1> DEFINE m == Len(y.listing)
           i == Heading(y, n)
<1>1. /\ DOMAIN w.sections = DOMAIN y.sections /\ m \in Nat
      /\ DOMAIN y.listing = 1 .. m /\ DOMAIN w.listing = 1 .. m \cup {m + 1}
      /\ \A k \in 1 .. m : w.listing[k] = y.listing[k]
      /\ w.listing[m + 1] = i
    BY PrintedKnowing DEF Printed, SameKinds
<1>2. /\ i.kind = "section" /\ i.number = n
      /\ i.publics = IF y.sections[n].processed THEN {} ELSE y.sections[n].publics
      /\ i.equs = IF y.sections[n].processed THEN {} ELSE y.sections[n].equs
      /\ i.origin \in {0, y.sections[n].org}
      /\ y.sections[n].processed => i.origin = 0
      /\ ~y.sections[n].processed /\ y.sections[n].valid /\ y.sections[n].offset /\ n > 4
         => i.origin = y.sections[n].org
    BY DEF Heading
<1>12. SameKinds(y, w)
    BY DEF Printed
<1>13. Opens(w)
    <2>1. 1 \in 1 .. m /\ m + 1 # 1
        BY <1>1 DEF Declared, Opens
    <2> QED
        BY <1>1, <1>2, <1>12, <2>1 DEF Declared, Opens, Declarations, SameKinds
<1> HIDE DEF m, i
<1>3. \A v : HeadingsOf(w, v) = HeadingsOf(y, v) \cup (IF v = n THEN {m + 1} ELSE {})
    BY <1>1, <1>2 DEF HeadingsOf
<1>4. \A v : m + 1 \notin HeadingsOf(y, v) /\ HeadingsOf(y, v) \subseteq 1 .. m
    BY <1>1 DEF HeadingsOf
<1>5. ASSUME NEW v \in DOMAIN y.sections, NEW k \in HeadingsOf(y, v)
      PROVE  (Declares(w, k) <=> Declares(y, k)) /\ (Silent(w, k) <=> Silent(y, k))
    <2>1. w.listing[k] = y.listing[k] /\ y.listing[k].number = v
        BY <1>1, <1>4, <1>5 DEF HeadingsOf
    <2> QED
        BY <1>5, <1>12, <2>1 DEF Declares, Silent, SameKinds
<1>6. IF y.sections[n].processed THEN Silent(w, m + 1) ELSE Declares(w, m + 1)
    <2>1. w.listing[m + 1] = i /\ i.number = n
        BY <1>1, <1>2
    <2>2. /\ w.sections[n].publics = y.sections[n].publics
          /\ w.sections[n].equs = y.sections[n].equs
          /\ w.sections[n].org = y.sections[n].org
          /\ w.sections[n].valid = y.sections[n].valid
          /\ w.sections[n].offset = y.sections[n].offset
        BY <1>12 DEF SameKinds
    <2>3. CASE y.sections[n].processed
        BY <1>2, <2>1, <2>3 DEF Silent
    <2>4. CASE ~y.sections[n].processed
        BY <1>2, <2>1, <2>2, <2>4 DEF Declares
    <2> QED
        BY <2>3, <2>4
<1>11. \A k \in DOMAIN w.listing :
          w.listing[k].kind = "section" => w.listing[k].number \in DOMAIN w.sections
    BY <1>1, <1>2 DEF Declared
<1> SUFFICES ASSUME NEW v \in DOMAIN y.sections
             PROVE  IF w.sections[v].processed
                    THEN \E k \in HeadingsOf(w, v) :
                            Declares(w, k)
                            /\ \A j \in HeadingsOf(w, v) \ {k} : k < j /\ Silent(w, j)
                    ELSE HeadingsOf(w, v) = {}
    BY <1>1, <1>11, <1>13 DEF Declared
<1>7. IF y.sections[v].processed
      THEN \E k \in HeadingsOf(y, v) : Declares(y, k)
             /\ \A j \in HeadingsOf(y, v) \ {k} : k < j /\ Silent(y, j)
      ELSE HeadingsOf(y, v) = {}
    BY DEF Declared
<1>8. CASE v # n
    BY <1>3, <1>5, <1>7, <1>8
<1>9. CASE v = n /\ y.sections[v].processed
    <2>1. PICK k \in HeadingsOf(y, v) : Declares(y, k)
          /\ \A j \in HeadingsOf(y, v) \ {k} : k < j /\ Silent(y, j)
        BY <1>7, <1>9
    <2>2. k \in HeadingsOf(w, v) /\ Declares(w, k)
        BY <1>3, <1>5, <2>1
    <2>4. k < m + 1
        BY <1>1, <1>4, <2>1
    <2>3. \A j \in HeadingsOf(w, v) \ {k} : k < j /\ Silent(w, j)
        BY <1>3, <1>5, <1>6, <1>9, <2>1, <2>4
    <2> QED
        BY <1>9, <2>2, <2>3
<1>10. CASE v = n /\ ~y.sections[v].processed
    BY <1>3, <1>6, <1>7, <1>10
<1> QED
    BY <1>8, <1>9, <1>10

-----------------------------------------------------------------------------
(* The object stays in its section.                                        *)
Goes(y, w) ==
    /\ w.section = y.section /\ w.code = y.code /\ w.symbols = y.symbols
    /\ DOMAIN w.sections = DOMAIN y.sections
    /\ \A n \in DOMAIN y.sections :
           w.sections[n] = IF n = y.section THEN [y.sections[n] EXCEPT !.labels = Labels(w, n)]
                           ELSE y.sections[n]
    /\ Labels(w, y.section) \subseteq Labels(y, y.section)
    /\ \A n \in DOMAIN y.sections : n # y.section => Come(w).at[n] = Come(y).at[n]

LEMMA EntryFields ==
    ASSUME NEW y \in Objects, NEW n \in DOMAIN y.sections
    PROVE  /\ y.sections[n] \in SectionEntry /\ n \in 0 .. 255
<1>1. PICK t \in 4 .. 255 : y.sections \in [0 .. t -> SectionEntry]
    BY SectionsAre
<1>2. y.sections[n] \in SectionEntry
    BY <1>1
<1>3. n \in 0 .. t
    BY <1>1
<1> QED
    BY <1>2, <1>3

LEMMA GoesOn ==
    ASSUME NEW y, NEW w, NEW x, Goes(y, w), Goes(w, x), y.section \in DOMAIN y.sections
    PROVE  Goes(y, x)
<1>1. ASSUME NEW n \in DOMAIN y.sections
      PROVE  x.sections[n] = IF n = y.section THEN [y.sections[n] EXCEPT !.labels = Labels(x, n)]
                             ELSE y.sections[n]
    <2>1. CASE n = y.section
        <3>1. w.sections[n] = [y.sections[n] EXCEPT !.labels = Labels(w, n)]
            BY <2>1 DEF Goes
        <3>2. x.sections[n] = [w.sections[n] EXCEPT !.labels = Labels(x, n)]
            BY <2>1 DEF Goes
        <3> QED
            BY <2>1, <3>1, <3>2
    <2>2. CASE n # y.section
        BY <2>2 DEF Goes
    <2> QED
        BY <2>1, <2>2
<1> QED
    BY <1>1 DEF Goes

LEMMA GoesNowhere ==
    ASSUME NEW y \in Objects
    PROVE  Goes(y, y)
<1>1. ASSUME NEW n \in DOMAIN y.sections
      PROVE y.sections[n] = [y.sections[n] EXCEPT !.labels = Labels(y, n)]
    <2>1. y.sections[n] \in SectionEntry
        BY EntryFields
    <2> QED
        BY <2>1 DEF SectionEntry, Labels
<1> QED
    BY <1>1 DEF Goes

LEMMA GoesSameKinds ==
    ASSUME NEW y, NEW w, y \in Objects, Goes(y, w)
    PROVE  /\ SameKinds(y, w)
           /\ \A n \in DOMAIN y.sections :
                 /\ w.sections[n].processed = y.sections[n].processed
                 /\ w.sections[n].publics = y.sections[n].publics
                 /\ w.sections[n].equs = y.sections[n].equs
                 /\ w.sections[n].pc = y.sections[n].pc
                 /\ n # y.section => Labels(w, n) = Labels(y, n)
<1>1. ASSUME NEW n \in DOMAIN y.sections
      PROVE  /\ w.sections[n].org = y.sections[n].org /\ w.sections[n].data = y.sections[n].data
             /\ w.sections[n].ref_only = y.sections[n].ref_only
             /\ w.sections[n].valid = y.sections[n].valid
             /\ w.sections[n].offset = y.sections[n].offset
             /\ w.sections[n].processed = y.sections[n].processed
             /\ w.sections[n].publics = y.sections[n].publics
             /\ w.sections[n].equs = y.sections[n].equs
             /\ w.sections[n].pc = y.sections[n].pc
             /\ n # y.section => Labels(w, n) = Labels(y, n)
    <2>1. y.sections[n] \in SectionEntry
        BY EntryFields
    <2>2. w.sections[n] = y.sections[n]
          \/ w.sections[n] = [y.sections[n] EXCEPT !.labels = Labels(w, n)]
        BY DEF Goes
    <2>3. n # y.section => w.sections[n] = y.sections[n]
        BY DEF Goes
    <2> QED
        BY <2>1, <2>2, <2>3 DEF SectionEntry, Labels
<1> QED
    BY <1>1 DEF SameKinds, Goes

LEMMA ObjectFields ==
    ASSUME NEW y \in Objects
    PROVE  /\ y.bytes \in Seq(Nat) /\ y.size \in 0 .. 3 /\ y.pc \in Nat /\ y.code \in BOOLEAN
           /\ y.next_label \in Nat \cup {-1} /\ y.section \in 0 .. 255 \cup {-1}
           /\ y.listing \in Seq(ListingItem) /\ y.flags \in SUBSET {"m", "x"}
BY DEF Objects

(* Nothing that is printed has changed, nor what is in hand.               *)
Alike(y, w) ==
    /\ w.listing = y.listing /\ w.sections = y.sections /\ w.section = y.section
    /\ w.symbols = y.symbols /\ w.pc = y.pc /\ w.bytes = y.bytes

LEMMA AlikeStands ==
    ASSUME NEW y, NEW w \in Objects, NEW f, NEW m, NEW L, Stands(y, f, m, L), Alike(y, w)
    PROVE  Stands(w, f, m, L)
<1>1. Knowing(w) = Knowing(y) /\ Come(w) = Come(y)
    BY KnowingSame DEF Alike, Outset
<1>6. Listed(w, f)
    BY <1>1 DEF Stands, Alike, Listed, ItemFits, Given
<1>2. Listed(w, f) /\ Unmixed(w)
    BY <1>6 DEF Stands, Alike, Unmixed, Labels
<1>4. Sited(w) /\ Carried(w, f, m)
    BY <1>1 DEF Stands, Alike, Sited, Carried
<1>5. Declared(w)
    BY <1>1 DEF Stands, Alike, Declared, Opens, Declarations, HeadingsOf, Declares, Silent
<1>3. Found(w, L)
    BY <1>1 DEF Stands, Alike, Found, Forward, Traced, Labels, StillToCome, IsPrinted, IsPassed,
                PrintedAt, ComesTo, CutAt
<1> QED
    BY <1>2, <1>3, <1>4, <1>5 DEF Stands, Alike

LEMMA SameGoes ==
    ASSUME NEW y \in Objects, NEW w \in Objects, w.listing = y.listing, w.sections = y.sections,
           w.section = y.section, w.code = y.code, w.symbols = y.symbols
    PROVE  Goes(y, w)
<1>1. Come(w) = Come(y)
    BY KnowingSame DEF Outset
<1>2. Goes(y, y)
    BY GoesNowhere
<1> QED
    BY <1>1, <1>2 DEF Goes, Labels

(* c more bytes are in hand.                                               *)
More(y, f, h, c) ==
    f \o [k \in 1 .. c |-> << y.section, h + k - 1 >>]

LEMMA Counted ==
    ASSUME NEW S, NEW c \in Nat, NEW d, d \in [1 .. c -> S]
    PROVE  d \in Seq(S) /\ Len(d) = c
<1>1. d \in Seq(S)
    BY SeqDef
<1>2. Len(d) \in Nat /\ DOMAIN d = 1 .. Len(d) /\ DOMAIN d = 1 .. c
    BY <1>1, LenProperties
<1> QED
    BY <1>1, <1>2

Extends(f, g, c, section, h) ==
    /\ g \in Seq(Places) /\ Len(g) = Len(f) + c /\ DOMAIN f \subseteq DOMAIN g
    /\ \A b \in DOMAIN f : g[b] = f[b]
    /\ \A k \in 1 .. c : Len(f) + k \in DOMAIN g /\ g[Len(f) + k] = << section, h + k - 1 >>

LEMMA MoreFed ==
    ASSUME NEW y \in Objects, y.section \in DOMAIN y.sections, NEW f \in Seq(Places), NEW h \in Nat,
           NEW c \in Nat, NEW g, g = More(y, f, h, c)
    PROVE  Extends(f, g, c, y.section, h)
<1> DEFINE d == [k \in 1 .. c |-> << y.section, h + k - 1 >>]
<1>1. y.section \in 0 .. 255
    BY EntryFields
<1>2. \A k \in 1 .. c : << y.section, h + k - 1 >> \in Places
    <2>1. \A a \in 0 .. 255 : \A b \in Nat : << a, b >> \in Places
        BY DEF Places
    <2>2. \A k \in 1 .. c : h + k - 1 \in Nat
        OBVIOUS
    <2> QED
        BY <1>1, <2>1, <2>2
<1>3. d \in [1 .. c -> Places]
    BY <1>2
<1>5. \A k \in 1 .. c : d[k] = << y.section, h + k - 1 >>
    OBVIOUS
<1>6. g = f \o d /\ f \in Seq(Places)
    BY DEF More
<1> HIDE DEF d
<1>4. d \in Seq(Places) /\ Len(d) = c
    BY <1>3, Counted
<1>7. /\ g \in Seq(Places) /\ Len(g) = Len(f) + c /\ Len(f) \in Nat
      /\ \A i \in 1 .. Len(f) + c : g[i] = IF i <= Len(f) THEN f[i] ELSE d[i - Len(f)]
    BY <1>4, <1>6, ConcatProperties, LenProperties, ZenonT(40)
<1>8. DOMAIN f = 1 .. Len(f) /\ DOMAIN g = 1 .. Len(f) + c
    BY <1>6, <1>7, LenProperties
<1>9. \A b \in 1 .. Len(f) : g[b] = f[b]
    BY <1>7
<1>10. ASSUME NEW k \in 1 .. c PROVE Len(f) + k \in 1 .. Len(f) + c /\ g[Len(f) + k] = d[k]
    <2>1. Len(f) + k \in 1 .. Len(f) + c /\ ~(Len(f) + k <= Len(f)) /\ Len(f) + k - Len(f) = k
        BY <1>7
    <2> QED
        BY <1>7, <2>1
<1>11. \A k \in 1 .. c : Len(f) + k \in DOMAIN g /\ g[Len(f) + k] = << y.section, h + k - 1 >>
    BY <1>5, <1>8, <1>10
<1>12. DOMAIN f \subseteq DOMAIN g
    BY <1>7, <1>8
<1> QED
    BY <1>7, <1>8, <1>9, <1>11, <1>12 DEF Extends

LEMMA CarriedMore ==
    ASSUME NEW y \in Objects, y.section \in DOMAIN y.sections, NEW f \in Seq(Places),
           NEW c \in Nat, Carried(y, f, Len(f)), NEW g, g = More(y, f, y.pc + Len(y.bytes), c),
           NEW w \in Objects, w.bytes = y.bytes \o [k \in 1 .. c |-> Len(f) + k],
           Come(w) = Come(y), w.pc = y.pc, w.section = y.section
    PROVE  Carried(w, g, Len(g))
<1> DEFINE d == [k \in 1 .. c |-> Len(f) + k]
           h == y.pc + Len(y.bytes)
           q == Come(y).bytes
<1>1. y.bytes \in Seq(Nat) /\ y.pc \in Nat /\ Len(f) \in Nat
    BY ObjectFields
<1>2. q \in Seq(Nat)
    BY ComesType DEF AssemblerStates
<1>3. d \in Seq(Nat) /\ Len(d) = c /\ \A k \in 1 .. c : d[k] = Len(f) + k
    BY <1>1
<1>4. h \in Nat
    BY <1>1
<1>6. w.bytes = y.bytes \o d /\ g = More(y, f, h, c)
    OBVIOUS
<1> HIDE DEF d, h, q
<1>15. Extends(f, g, c, y.section, h)
    BY <1>4, <1>6, MoreFed
<1>5. /\ Len(g) = Len(f) + c /\ DOMAIN f \subseteq DOMAIN g
      /\ \A b \in DOMAIN f : g[b] = f[b]
      /\ \A k \in 1 .. c : Len(f) + k \in DOMAIN g /\ g[Len(f) + k] = << y.section, h + k - 1 >>
    BY <1>15 DEF Extends
<1>9. /\ w.bytes \in Seq(Nat) /\ Len(w.bytes) = Len(y.bytes) + c /\ Len(y.bytes) \in Nat
      /\ DOMAIN y.bytes = 1 .. Len(y.bytes) /\ DOMAIN w.bytes = 1 .. Len(y.bytes) + c
      /\ \A i \in 1 .. Len(y.bytes) + c : w.bytes[i] = IF i <= Len(y.bytes) THEN y.bytes[i]
                                                         ELSE d[i - Len(y.bytes)]
    BY <1>1, <1>3, <1>6, ConcatProperties, LenProperties
<1>7. q \o w.bytes = Count(Len(g))
    <2> DEFINE r == q \o y.bytes
    <2>1. r = Count(Len(f)) /\ r \in Seq(Nat)
        <3>1. r = Count(Len(f))
            BY DEF Carried, q
        <3> QED
            BY <1>1, <1>2, <3>1, ConcatProperties
    <2>2. q \o w.bytes = r \o d
        <3> DEFINE T == Nat
                   b == y.bytes
        <3>1. b \in Seq(T) /\ q \in Seq(T) /\ d \in Seq(T)
            BY <1>1, <1>2, <1>3
        <3> HIDE DEF T, b
        <3>2. (q \o b) \o d = q \o (b \o d)
            BY <3>1, ConcatAssociative
        <3>3. q \o (y.bytes \o d) = (q \o y.bytes) \o d
            BY <3>2 DEF b
        <3> QED
            BY <1>6, <3>3
    <2> HIDE DEF r
    <2>3. /\ r \o d \in Seq(Nat) /\ Len(r \o d) = Len(r) + c
          /\ \A i \in 1 .. Len(r) + c : (r \o d)[i] = IF i <= Len(r) THEN r[i] ELSE d[i - Len(r)]
        BY <1>3, <2>1, ConcatProperties
    <2>4. Len(r) = Len(f)
        <3>1. DOMAIN r = 1 .. Len(f) /\ DOMAIN r = 1 .. Len(r) /\ Len(r) \in Nat
            BY <2>1, LenProperties DEF Count
        <3> QED
            BY <1>1, <3>1
    <2>5. \A i \in 1 .. Len(f) : r[i] = i
        BY <2>1 DEF Count
    <2>6. \A i \in 1 .. Len(f) + c : (r \o d)[i] = i
        BY <1>1, <1>3, <2>3, <2>4, <2>5
    <2>7. DOMAIN (r \o d) = 1 .. Len(f) + c /\ r \o d = [i \in DOMAIN (r \o d) |-> (r \o d)[i]]
        BY <2>3, <2>4, LenProperties
    <2> QED
        BY <1>5, <2>2, <2>6, <2>7 DEF Count
<1>8. ASSUME NEW b \in DOMAIN w.bytes
      PROVE  w.bytes[b] \in DOMAIN g /\ g[w.bytes[b]] = << w.section, w.pc + b - 1 >>
    <2>1. CASE b \in DOMAIN y.bytes
        <3>1. w.bytes[b] = y.bytes[b]
            BY <1>9, <2>1
        <3> QED
            BY <1>5, <2>1, <3>1 DEF Carried
    <2>2. CASE b \notin DOMAIN y.bytes
        <3>0. b \in 1 .. Len(y.bytes) + c /\ b \notin 1 .. Len(y.bytes)
            BY <1>9, <2>2
        <3>5. b - Len(y.bytes) \in 1 .. c /\ ~(b <= Len(y.bytes))
            BY <1>9, <3>0
        <3>1. b - Len(y.bytes) \in 1 .. c /\ w.bytes[b] = d[b - Len(y.bytes)]
            BY <1>9, <3>0, <3>5
        <3>2. w.bytes[b] = Len(f) + (b - Len(y.bytes))
            BY <1>3, <3>1
        <3>3. g[w.bytes[b]] = << y.section, h + (b - Len(y.bytes)) - 1 >> /\ w.bytes[b] \in DOMAIN g
            BY <1>5, <3>1, <3>2
        <3>4. h + (b - Len(y.bytes)) - 1 = y.pc + b - 1
            <4>1. b \in Int
                BY <1>9
            <4> QED
                BY <1>1, <4>1 DEF h
        <3> QED
            BY <3>3, <3>4
    <2> QED
        BY <2>1, <2>2
<1>10. Come(w).bytes = q /\ Len(g) <= Len(g)
    <2>1. Len(g) \in Nat
        BY <1>1, <1>5
    <2> QED
        BY <2>1 DEF q
<1> QED
    BY <1>7, <1>8, <1>10 DEF Carried

LEMMA Fed ==
    ASSUME NEW y, NEW f \in Seq(Places), NEW L, Stands(y, f, Len(f), L), NEW c \in Nat,
           NEW g, g = More(y, f, y.pc + Len(y.bytes), c),
           NEW w \in Objects, w.bytes = y.bytes \o [k \in 1 .. c |-> Len(f) + k],
           w.listing = y.listing, w.sections = y.sections, w.section = y.section, w.pc = y.pc,
           w.symbols = y.symbols
    PROVE  Stands(w, g, Len(g), L)
<1>0. y \in Objects /\ y.section \in DOMAIN y.sections
    BY DEF Stands
<1>1. Knowing(w) = Knowing(y) /\ Come(w) = Come(y)
    BY KnowingSame DEF Outset
<1>2. Carried(w, g, Len(g))
    BY <1>0, <1>1, CarriedMore DEF Stands
<1>3. Listed(w, g)
    <2>1. y.pc + Len(y.bytes) \in Nat
        BY <1>0, ObjectFields
    <2> DEFINE h == y.pc + Len(y.bytes)
    <2>4. g = More(y, f, h, c) /\ h \in Nat
        BY <2>1
    <2> HIDE DEF h
    <2>2. DOMAIN f \subseteq DOMAIN g /\ \A b \in DOMAIN f : g[b] = f[b]
        <3>1. Extends(f, g, c, y.section, h)
            BY <1>0, <2>4, MoreFed
        <3> QED
            BY <3>1 DEF Extends
    <2>3. Listed(y, g)
        BY <2>2, ListedFed DEF Stands
    <2> QED
        <3>1. \A n : Given(w, n) <=> Given(y, n)
            BY DEF Given
        <3> SUFFICES ASSUME NEW k \in DOMAIN y.listing PROVE ItemFits(w, g, k)
            BY DEF Listed
        <3>2. ItemFits(y, g, k)
            BY <2>3 DEF Listed
        <3> QED
            BY <1>1, <3>1, <3>2 DEF ItemFits
<1>4. Unmixed(w) /\ Sited(w)
    BY <1>1 DEF Stands, Unmixed, Labels, Sited
<1>6. Declared(w)
    <2>1. Unprinted(y, w)
        BY <1>0 DEF Unprinted, SameKinds
    <2> QED
        BY <2>1, DeclaredStays DEF Stands
<1>5. Found(w, L)
    BY <1>1 DEF Stands, Found, Forward, Traced, Labels, StillToCome, IsPrinted, IsPassed,
                PrintedAt, ComesTo, CutAt
<1> QED
    BY <1>2, <1>3, <1>4, <1>5, <1>6 DEF Stands

-----------------------------------------------------------------------------
(* A line of the bytes in hand. *)

LineItem(y, kind) == [kind |-> kind, at |-> y.pc, bytes |-> y.bytes]
LineObject(y, kind, w) ==
    /\ w \in Objects /\ LineItem(y, kind) \in ListingItem
    /\ w.listing = Append(y.listing, LineItem(y, kind)) /\ w.pc = y.pc + Len(y.bytes)
       /\ w.bytes = << >>
    /\ w.size = y.size /\ w.code = y.code /\ w.flags = y.flags /\ w.next_label = y.next_label
    /\ w.section = y.section /\ w.sections = y.sections /\ w.symbols = y.symbols

LEMMA LineFields ==
    ASSUME NEW y \in Objects, NEW kind \in Lines
    PROVE  LineObject(y, kind, PrintLine(y, kind, Len(y.bytes)))
<1> DEFINE w == PrintLine(y, kind, Len(y.bytes))
           i == LineItem(y, kind)
<1>1. /\ y.bytes \in Seq(Nat) /\ y.pc \in Nat /\ y.listing \in Seq(ListingItem)
         /\ Len(y.bytes) \in Nat
    BY ObjectFields, LenProperties
<1>2. i \in ListingItem
    BY <1>1 DEF LineItem, ListingItem, Lines
<1>3. Append(y.listing, i) \in Seq(ListingItem)
    BY <1>1, <1>2, AppendProperties
<1>4. y.pc + Len(y.bytes) \in Nat /\ << >> \in Seq(Nat)
    BY <1>1, EmptySeq
<1>5. w = [y EXCEPT !.listing = Append(y.listing, i), !.pc = y.pc + Len(y.bytes), !.bytes = << >>]
    BY DEF PrintLine, Emit, LineItem, Objects
<1> HIDE DEF i, w
<1>6. w \in Objects
    BY <1>3, <1>4, <1>5 DEF Objects
<1> QED
    BY <1>2, <1>5, <1>6 DEF LineObject, Objects, i, w

LEMMA LinePrinted ==
    ASSUME NEW y, NEW f, NEW m, NEW L, Stands(y, f, m, L), y.bytes # << >>, NEW kind \in Lines,
           NEW w, LineObject(y, kind, w),
           \/ Clear(y)
           \/ /\ kind = "expr" /\ ~y.sections[y.section].data
              /\ Len(y.listing) \in DOMAIN y.listing /\ y.listing[Len(y.listing)].kind = "db"
    PROVE  Stands(w, f, m, L) /\ Goes(y, w)
<1> DEFINE i == LineItem(y, kind)
           s == y.section
<1>1. /\ y \in Objects /\ s \in DOMAIN y.sections /\ Listed(y, f) /\ Unmixed(y) /\ Sited(y)
      /\ Carried(y, f, m) /\ Found(y, L) /\ Declared(y)
      /\ \A l \in L : l \in ObjectSymbol /\ l.section \in DOMAIN y.sections
    BY DEF Stands
<1>2. Printed(y, w, i) /\ SameKinds(y, w)
    BY <1>1 DEF Printed, SameKinds, LineObject
<1>3. /\ i.kind = kind /\ i.at = y.pc /\ i.bytes = y.bytes /\ kind \in Lines
      /\ w.pc = y.pc + Len(y.bytes) /\ w.bytes = << >> /\ w.section = y.section
         /\ w.sections = y.sections
      /\ i.kind \notin {"labels", "org", "ds", "section", "symbols"}
    BY DEF LineItem, LineObject, Lines
<1>4. /\ Come(w) = Follows(Come(y), i) /\ Come(y) \in AssemblerStates(DOMAIN y.sections)
      /\ i \in ListingItem
    BY <1>2, PrintedKnowing DEF Printed
<1> HIDE DEF i
<1>5. /\ Come(w).section = s /\ Come(y).section = s
      /\ \A n \in DOMAIN y.sections : n # s => Come(w).at[n] = Come(y).at[n]
      /\ Come(w).at[s] = Come(y).at[s] + Len(y.bytes)
      /\ Come(w).bytes = Come(y).bytes \o y.bytes
    <2>1. Come(y).section = s
        BY <1>1 DEF Sited
    <2>2. i.kind # "section" /\ i.kind # "org" /\ i.kind # "ds" /\ i.kind \in Lines
        BY <1>3
    <2>3. Come(w).section = s /\ \A n \in DOMAIN y.sections : n # s => Come(w).at[n] = Come(y).at[n]
        BY <1>4, <2>1, <2>2, FollowsTypes
    <2>4. Come(w).at[s] = Come(y).at[s] + Len(i.bytes)
        BY <1>1, <1>4, <2>1, <2>2, FollowsTypes
    <2>5. Come(w).bytes = Come(y).bytes \o i.bytes
        <3>1. Come(w).bytes = IF i.kind \in Lines THEN Come(y).bytes \o i.bytes ELSE Come(y).bytes
            <4> DEFINE D == DOMAIN y.sections
            <4> HIDE DEF D
            <4>1. Come(y) \in AssemblerStates(D)
                BY <1>4 DEF D
            <4> QED
                BY <1>4, <4>1, FollowsTypes
        <3> QED
            BY <2>2, <3>1
    <2> QED
        BY <1>3, <2>1, <2>3, <2>4, <2>5
<1>6. /\ Come(y).at[s] \in Int /\ y.bytes \in Seq(Nat) /\ Come(y).bytes \in Seq(Nat) /\ y.pc \in Nat
      /\ Len(y.bytes) \in Nat
    BY <1>1, <1>4, ObjectFields, LenProperties DEF AssemblerStates
<1>7. ~y.sections[s].ref_only => Come(y).at[s] = y.pc
    BY <1>1 DEF Sited
<1>8. Listed(w, f)
    <2>1. LineFits(y.sections, Come(w), i, f)
        <3>1. \A b \in DOMAIN y.bytes : y.bytes[b] \in DOMAIN f
              /\ f[y.bytes[b]] = << s, y.pc + b - 1 >>
            BY <1>1 DEF Carried
        <3>2. ~y.sections[s].ref_only => y.pc = Come(w).at[s] - Len(y.bytes)
            BY <1>5, <1>6, <1>7
        <3> QED
            BY <1>3, <1>5, <3>1, <3>2 DEF LineFits, Here
    <2> QED
        BY <1>1, <1>2, <1>3, <1>5, <2>1, ListedGrows
<1>9. Unmixed(w)
    BY <1>1, <1>3 DEF Unmixed, Labels
<1>10. Sited(w)
    BY <1>1, <1>3, <1>5, <1>6, <1>7 DEF Sited
<1>11. Carried(w, f, m)
    <2>1. (Come(y).bytes \o y.bytes) \o << >> = Come(y).bytes \o y.bytes
        BY <1>6, ConcatProperties, ConcatEmptySeq
    <2>2. DOMAIN << >> = {}
        OBVIOUS
    <2> QED
        BY <1>1, <1>3, <1>5, <2>1, <2>2 DEF Carried
<1>12. Found(w, L)
    <2> SUFFICES ASSUME Forward(w), NEW l \in L PROVE Traced(w, l)
        BY DEF Found
    <2>1. Forward(y) /\ Traced(y, l)
        <3>1. Forward(y)
            BY <1>2, ForwardBefore
        <3> QED
            BY <1>1, <3>1 DEF Found
    <2>2. l \in ObjectSymbol /\ l.section \in DOMAIN y.sections
          /\ Labels(w, l.section) = Labels(y, l.section)
        BY <1>1, <1>3 DEF Labels
    <2>3. l \in Labels(y, l.section) => NoStop(y, l, i)
        <3> SUFFICES ASSUME l \in Labels(y, l.section), Come(y).section = l.section,
              Here(Come(y)) = l.offset
                     PROVE  /\ Len(y.listing) \in DOMAIN y.listing
                            /\ ~y.sections[l.section].data
                            /\ y.listing[Len(y.listing)].kind = "db" /\ i.kind = "expr"
            BY DEF NoStop
        <3>1. l.section = s /\ ~y.sections[s].ref_only
            BY <1>1, <1>5 DEF Unmixed
        <3>2. l.offset = y.pc
            BY <1>5, <1>7, <3>1 DEF Here
        <3>3. ~Clear(y)
            <4>1. Clear(y) => l.offset > y.pc
                BY <3>1 DEF Clear
            <4> QED
                BY <1>6, <3>2, <4>1
        <3> QED
            BY <1>3, <3>1, <3>3
    <2>4. l \in Labels(y, l.section) => ~y.sections[l.section].ref_only
        BY <1>1, <2>2 DEF Unmixed
    <2> QED
        BY <1>2, <1>3, <2>1, <2>2, <2>3, <2>4, TraceGrows
<1>13. Declared(w)
    BY <1>1, <1>2, <1>3, DeclaredStays
<1>14. Stands(w, f, m, L)
    BY <1>1, <1>2, <1>3, <1>8, <1>9, <1>10, <1>11, <1>12, <1>13 DEF Stands, Printed
<1>15. Goes(y, w)
    <2>1. Goes(y, y)
        BY <1>1, GoesNowhere
    <2> QED
        BY <1>3, <1>5, <2>1 DEF Goes, Labels, LineObject
<1> QED
    BY <1>14, <1>15

(* What is known of a line, and of none. *)
Emptied(y, w) ==
    /\ Goes(y, w) /\ w.sections = y.sections /\ w.bytes = << >> /\ w.pc = y.pc + Len(y.bytes)
    /\ w.size = y.size /\ w.next_label = y.next_label

LEMMA EmptiedLine ==
    ASSUME NEW y, NEW w, NEW kind, Goes(y, w), LineObject(y, kind, w)
    PROVE  Emptied(y, w)
BY DEF Emptied, LineObject

LEMMA NoBytes ==
    ASSUME NEW y \in Objects, y.bytes = << >>
    PROVE  Len(y.bytes) = 0 /\ y.pc + Len(y.bytes) = y.pc /\ Emptied(y, y)
<1>1. Len(y.bytes) = 0
    BY EmptySeq
<1>2. y.pc + 0 = y.pc
    BY ObjectFields
<1> QED
    BY <1>1, <1>2, GoesNowhere DEF Emptied

LEMMA Dumped ==
    ASSUME NEW y, NEW f, NEW m, NEW L, Stands(y, f, m, L), y.bytes # << >> => Clear(y),
           NEW w, w = Dump(y)
    PROVE  /\ Stands(w, f, m, L) /\ Emptied(y, w)
           /\ y.bytes # << >> => Len(w.listing) \in DOMAIN w.listing
              /\ w.listing[Len(w.listing)].kind = "db"
<1>0. y \in Objects
    BY DEF Stands
<1>1. CASE y.bytes = << >>
    <2>1. w = y
        BY <1>1 DEF Dump
    <2> QED
        BY <1>0, <1>1, <2>1, NoBytes
<1>2. CASE y.bytes # << >>
    <2>1. w = PrintLine(y, "db", Len(y.bytes)) /\ "db" \in Lines
        BY <1>2 DEF Dump, Lines
    <2>2. LineObject(y, "db", w)
        BY <1>0, <2>1, LineFields
    <2>3. Stands(w, f, m, L) /\ Goes(y, w)
        BY <1>2, <2>1, <2>2, LinePrinted
    <2>4. Len(w.listing) \in DOMAIN w.listing /\ w.listing[Len(w.listing)].kind = "db"
        <3>1. Printed(y, w, LineItem(y, "db"))
            BY <1>0, <2>2 DEF Printed, LineObject, SameKinds
        <3>2. /\ Len(w.listing) = Len(y.listing) + 1 /\ DOMAIN w.listing = 1 .. Len(y.listing) + 1
              /\ w.listing[Len(y.listing) + 1] = LineItem(y, "db") /\ Len(y.listing) \in Nat
            BY <3>1, PrintedKnowing
        <3> QED
            BY <3>2 DEF LineItem
    <2> QED
        BY <1>2, <2>2, <2>3, <2>4, EmptiedLine
<1> QED
    BY <1>1, <1>2

-----------------------------------------------------------------------------
(* The labels of the place the object has come to. *)

LEMMA LeastOf ==
    ASSUME NEW S, S \subseteq Nat, S # {}
    PROVE  Least(S) \in S /\ \A x \in S : Least(S) <= x
<1> DEFINE L == OpToRel(<, Nat)
<1>1. \A x \in Nat : \A y \in Nat : y < x => << y, x >> \in L
    BY DEF OpToRel
<1>2. IsWellFoundedOn(L, Nat)
    BY NatLessThanWellFounded
<1> HIDE DEF L
<1>3. PICK x \in S : \A y \in S : << y, x >> \notin L
    BY <1>2, WFMin
<1>4. \A y \in S : x <= y
    <2> SUFFICES ASSUME NEW y \in S, y < x PROVE FALSE
        OBVIOUS
    <2> QED
        BY <1>1, <1>3
<1> QED
    BY <1>4 DEF Least

LeftAt(y, pc) == {l \in Labels(y, y.section) : l.offset > pc}
FoundAt(y, pc) == {l \in Labels(y, y.section) : l.offset = pc}
NextOf(S) == IF S = {} THEN -1 ELSE Least({l.offset : l \in S})

LEMMA NextType ==
    ASSUME NEW S \in SUBSET ObjectSymbol
    PROVE  /\ NextOf(S) \in Nat \cup {-1}
           /\ \A l \in S : NextOf(S) >= 0 /\ l.offset >= NextOf(S)
           /\ NextOf(S) >= 0 => \E l \in S : l.offset = NextOf(S)
<1>1. CASE S = {}
    BY <1>1 DEF NextOf
<1>2. CASE S # {}
    <2> DEFINE O == {l.offset : l \in S}
    <2>1. O \subseteq Nat /\ O # {}
        BY <1>2 DEF ObjectSymbol
    <2>2. NextOf(S) = Least(O)
        BY <1>2 DEF NextOf
    <2>3. Least(O) \in O /\ \A x \in O : Least(O) <= x
        <3> HIDE DEF O
        <3> QED
            BY <2>1, LeastOf
    <2>4. \A l \in S : l.offset \in O
        OBVIOUS
    <2>5. \A o \in O : \E l \in S : l.offset = o
        OBVIOUS
    <2> HIDE DEF O
    <2>6. NextOf(S) \in Nat /\ \E l \in S : l.offset = NextOf(S)
        BY <2>1, <2>2, <2>3, <2>5
    <2>7. \A l \in S : l.offset >= NextOf(S)
        BY <2>1, <2>2, <2>3, <2>4
    <2> QED
        BY <2>6, <2>7
<1> QED
    BY <1>1, <1>2

LabelItem(S) == [kind |-> "labels", which |-> S]
NextObject(y, pc, w) ==
    /\ w \in Objects /\ LabelItem(FoundAt(y, pc)) \in ListingItem
    /\ w.listing = IF FoundAt(y, pc) = {} THEN y.listing
       ELSE Append(y.listing, LabelItem(FoundAt(y, pc)))
    /\ w.next_label = NextOf(LeftAt(y, pc))
    /\ DOMAIN w.sections = DOMAIN y.sections
    /\ w.sections[y.section] = [y.sections[y.section] EXCEPT !.labels = LeftAt(y, pc)]
    /\ \A n \in DOMAIN y.sections : n # y.section => w.sections[n] = y.sections[n]
    /\ w.bytes = y.bytes /\ w.pc = y.pc /\ w.size = y.size /\ w.code = y.code /\ w.flags = y.flags
    /\ w.section = y.section /\ w.symbols = y.symbols

LEMMA Relabelled ==
    ASSUME NEW y \in Objects, NEW n \in DOMAIN y.sections, NEW S \in SUBSET ObjectSymbol
    PROVE  [y.sections EXCEPT ![n].labels = S] \in SectionTables
<1>1. PICK t \in 4 .. 255 : y.sections \in [0 .. t -> SectionEntry]
    BY SectionsAre
<1>2. \A e \in SectionEntry : [e EXCEPT !.labels = S] \in SectionEntry
    BY DEF SectionEntry
<1> HIDE DEF SectionEntry
<1>3. [y.sections EXCEPT ![n].labels = S] \in [0 .. t -> SectionEntry]
    <2>1. n \in 0 .. t
        BY <1>1
    <2> QED
        BY <1>1, <1>2, <2>1
<1> QED
    BY <1>3 DEF SectionTables

LEMMA NextFields ==
    ASSUME NEW y \in Objects, y.section \in DOMAIN y.sections, NEW pc \in Int
    PROVE  NextObject(y, pc, NextLabel(y, pc))
<1> DEFINE w == NextLabel(y, pc)
           s == y.section
           a == LeftAt(y, pc)
           b == FoundAt(y, pc)
           e == NextOf(a)
           t == [y.sections EXCEPT ![s].labels = a]
           moved == [y EXCEPT !.sections = t, !.next_label = e]
<1>1. s \in 0 .. 255 /\ y.sections[s] \in SectionEntry
    BY EntryFields
<1>2. a \in SUBSET ObjectSymbol /\ b \in SUBSET ObjectSymbol
    BY <1>1 DEF SectionEntry, LeftAt, FoundAt, Labels
<1>3. e \in Nat \cup {-1}
    BY <1>2, NextType
<1>4. t \in SectionTables
    BY <1>2, Relabelled
<1>5. LabelItem(b) \in ListingItem
    BY <1>2 DEF LabelItem, ListingItem
<1>6. /\ y.listing \in Seq(ListingItem) /\ Append(y.listing, LabelItem(b)) \in Seq(ListingItem)
    BY <1>5, ObjectFields, AppendProperties
<1>7. w = IF b = {} THEN moved ELSE Emit(moved, LabelItem(b))
    <2>1. ~(s < 0)
        BY <1>1
    <2>2. moved = [y EXCEPT !.sections[s].labels = a, !.next_label = e]
        BY DEF Objects
    <2>3. /\ a = {l \in y.sections[s].labels : l.offset > pc}
          /\ b = {l \in y.sections[s].labels : l.offset = pc}
          /\ e = IF a = {} THEN -1 ELSE Least({l.offset : l \in a})
        BY DEF LeftAt, FoundAt, NextOf, Labels
    <2> HIDE DEF a, b, e, t, moved
    <2> QED
        BY <2>1, <2>2, <2>3 DEF NextLabel, LabelItem
<1>8. /\ DOMAIN t = DOMAIN y.sections
      /\ t[s] = [y.sections[s] EXCEPT !.labels = a]
      /\ \A n \in DOMAIN y.sections : n # s => t[n] = y.sections[n]
    <2>1. PICK u \in 4 .. 255 : y.sections \in [0 .. u -> SectionEntry]
        BY SectionsAre
    <2> QED
        BY <2>1
<1> HIDE DEF a, b, t, e, w
<1>9. moved \in Objects
    BY <1>3, <1>4 DEF Objects
<1>10. w \in Objects
    BY <1>6, <1>7, <1>9 DEF Objects, Emit
<1>11. w.listing = IF b = {} THEN y.listing ELSE Append(y.listing, LabelItem(b))
    BY <1>7 DEF Objects, Emit
<1>12. /\ w.sections = t /\ w.next_label = e
       /\ w.bytes = y.bytes /\ w.pc = y.pc /\ w.size = y.size /\ w.code = y.code
          /\ w.flags = y.flags
       /\ w.section = y.section /\ w.symbols = y.symbols
    BY <1>7 DEF Objects, Emit
<1> QED
    BY <1>5, <1>8, <1>10, <1>11, <1>12 DEF NextObject, a, b, e, w

LEMMA NextGoes ==
    ASSUME NEW y, NEW f, NEW m, NEW L, Stands(y, f, m, L), y.bytes = << >>,
           NEW pc, pc = y.pc \/ pc = -1, NEW w, NextObject(y, pc, w)
    PROVE  Stands(w, f, m, L) /\ Goes(y, w) /\ Known(w) /\ (pc = y.pc => Clear(w))
<1> DEFINE b == FoundAt(y, pc)
           a == LeftAt(y, pc)
           i == LabelItem(b)
           s == y.section
<1>1. /\ y \in Objects /\ s \in DOMAIN y.sections /\ Listed(y, f) /\ Unmixed(y) /\ Sited(y)
      /\ Carried(y, f, m) /\ Found(y, L) /\ Declared(y)
      /\ \A l \in L : l \in ObjectSymbol /\ l.section \in DOMAIN y.sections
    BY DEF Stands
<1>2. /\ w \in Objects /\ i \in ListingItem /\ w.section = s /\ w.pc = y.pc /\ w.bytes = y.bytes
      /\ w.listing = IF b = {} THEN y.listing ELSE Append(y.listing, i)
      /\ i.kind = "labels" /\ i.which = b
      /\ w.code = y.code /\ w.flags = y.flags /\ w.symbols = y.symbols
    BY DEF NextObject, LabelItem
<1>3. /\ DOMAIN w.sections = DOMAIN y.sections
      /\ w.sections[s] = [y.sections[s] EXCEPT !.labels = a]
      /\ \A n \in DOMAIN y.sections : n # s => w.sections[n] = y.sections[n]
    BY DEF NextObject
<1>4. \A n \in DOMAIN y.sections :
          /\ w.sections[n].org = y.sections[n].org /\ w.sections[n].data = y.sections[n].data
          /\ w.sections[n].ref_only = y.sections[n].ref_only
          /\ w.sections[n].processed = y.sections[n].processed
          /\ w.sections[n].publics = y.sections[n].publics
          /\ w.sections[n].equs = y.sections[n].equs
          /\ w.sections[n].pc = y.sections[n].pc
          /\ w.sections[n].valid = y.sections[n].valid
          /\ w.sections[n].offset = y.sections[n].offset
    <2>1. y.sections[s] \in SectionEntry
        BY <1>1, EntryFields
    <2> QED
        BY <1>3, <2>1 DEF SectionEntry
<1>5. /\ Labels(w, s) = a
      /\ \A n \in DOMAIN y.sections : n # s => Labels(w, n) = Labels(y, n)
    <2>1. y.sections[s] \in SectionEntry
        BY <1>1, EntryFields
    <2> QED
        BY <1>3, <2>1 DEF SectionEntry, Labels
<1>6. /\ a \subseteq Labels(y, s) /\ b \subseteq Labels(y, s)
      /\ \A l \in Labels(y, s) : l \in ObjectSymbol /\ l.offset \in Nat
    <2>1. y.sections[s] \in SectionEntry
        BY <1>1, EntryFields
    <2>2. Labels(y, s) \subseteq ObjectSymbol
        BY <2>1 DEF SectionEntry, Labels
    <2> QED
        BY <2>2 DEF LeftAt, FoundAt, ObjectSymbol
<1>7. SameKinds(y, w)
    BY <1>2, <1>3, <1>4 DEF SameKinds
<1>8. b # {} => Printed(y, w, i)
    BY <1>1, <1>2, <1>7 DEF Printed
<1>9. b = {} => Unprinted(y, w)
    BY <1>1, <1>2, <1>7 DEF Unprinted
<1> HIDE DEF i
<1>10. /\ Come(w).section = Come(y).section /\ Come(w).bytes = Come(y).bytes
       /\ \A n \in DOMAIN y.sections : Come(w).at[n] = Come(y).at[n]
       /\ b # {} => Come(w).at = Come(y).at
    <2>1. CASE b # {}
        <3>1. Come(w) = Follows(Come(y), i)
            BY <1>8, <2>1, PrintedKnowing
        <3>2. Come(w) = Come(y)
            BY <1>2, <3>1 DEF Follows, Lines
        <3> QED
            BY <3>2
    <2>2. CASE b = {}
        <3>1. Come(w) = Come(y)
            BY <1>9, <2>2, SameBlank, KnowingSame DEF Unprinted
        <3> QED
            BY <2>2, <3>1
    <2> QED
        BY <2>1, <2>2
<1>11. \A l \in Labels(y, s) : /\ l.section = s /\ ~y.sections[s].ref_only
                               /\ Come(y).section = s /\ Come(y).at[s] = y.pc
    BY <1>1 DEF Unmixed, Sited
<1>12. y.pc \in Nat
    BY <1>1, ObjectFields
<1>13. b # {} => pc = y.pc
    <2>1. \A l \in b : l.offset = pc
        BY DEF FoundAt
    <2>2. \A l \in b : l.offset \in Nat
        BY <1>6
    <2> QED
        BY <2>1, <2>2
<1>14. Listed(w, f)
    <2>1. CASE b = {}
        BY <1>1, <1>9, <2>1, ListedStays
    <2>2. CASE b # {}
        <3>1. LabelsFit(y.sections, Come(w), i) /\ Come(w).section = s
            <4>1. \A l \in b : l.offset = y.pc
                BY <1>13, <2>2 DEF FoundAt
            <4>2. Come(w).section = s /\ Come(w).at[s] = y.pc
                BY <1>1, <1>6, <1>10, <1>11, <2>2
            <4> QED
                BY <1>2, <1>6, <1>11, <4>1, <4>2 DEF LabelsFit, Here
        <3>2. ~y.sections[s].ref_only
            BY <1>6, <1>11, <2>2
        <3> QED
            BY <1>1, <1>2, <1>8, <2>2, <3>1, <3>2, ListedGrows DEF Lines
    <2> QED
        BY <2>1, <2>2
<1>15. Unmixed(w)
    BY <1>1, <1>3, <1>4, <1>5, <1>6 DEF Unmixed
<1>16. Sited(w) /\ Carried(w, f, m)
    BY <1>1, <1>2, <1>3, <1>4, <1>10 DEF Sited, Carried
<1>17. Found(w, L)
    <2> SUFFICES ASSUME Forward(w), NEW l \in L PROVE Traced(w, l)
        BY DEF Found
    <2>1. Forward(y) /\ Traced(y, l)
        <3>1. Forward(y)
            BY <1>8, <1>9, ForwardBefore, ForwardStays
        <3> QED
            BY <1>1, <3>1 DEF Found
    <2>2. l \in ObjectSymbol /\ l.section \in DOMAIN y.sections
        BY <1>1
    <2>3. l \in Labels(w, l.section) => l \in Labels(y, l.section)
        BY <1>5, <1>6, <2>2
    <2>4. l \in Labels(y, l.section) /\ l \notin Labels(w, l.section) /\ l \notin b =>
              /\ l.section = s /\ Come(y).section = s
              /\ l.offset < Come(y).at[l.section] /\ Here(Come(y)) # l.offset
        <3> SUFFICES ASSUME l \in Labels(y, l.section), l \notin Labels(w, l.section), l \notin b
                     PROVE  /\ l.section = s /\ Come(y).section = s
                            /\ l.offset < Come(y).at[l.section] /\ Here(Come(y)) # l.offset
            OBVIOUS
        <3>1. l.section = s
            BY <1>5, <2>2
        <3>2. ~(l.offset > pc) /\ l.offset # pc
            BY <1>5, <3>1 DEF LeftAt, FoundAt
        <3>3. l.offset < y.pc
            BY <1>6, <1>12, <3>1, <3>2
        <3> QED
            BY <1>6, <1>11, <1>12, <3>1, <3>3 DEF Here
    <2>5. CASE b = {}
        <3>1. l \in Labels(y, l.section) /\ l \notin Labels(w, l.section)
              => ~ComesTo(y, l, Len(y.listing))
            <4>1. Knowing(y)[Len(y.listing)] = Come(y)
                BY DEF Come
            <4> QED
                BY <2>4, <2>5, <4>1 DEF ComesTo
        <3> QED
            BY <1>9, <1>11, <2>1, <2>2, <2>3, <2>4, <2>5, <3>1, TraceStays
    <2>6. CASE b # {}
        <3>1. l \in b => /\ l \in Labels(y, l.section) /\ l \notin Labels(w, l.section)
                         /\ Come(y).section = l.section /\ Here(Come(y)) = l.offset
            <4> SUFFICES ASSUME l \in b PROVE /\ l \in Labels(y, l.section)
                                                 /\ l \notin Labels(w, l.section)
                                              /\ Come(y).section = l.section
                                                 /\ Here(Come(y)) = l.offset
                OBVIOUS
            <4>1. l \in Labels(y, s) /\ l.section = s /\ Come(y).section = s /\ Come(y).at[s] = y.pc
                BY <1>6, <1>11
            <4>2. l.offset = y.pc /\ pc = y.pc
                BY <1>13, <2>6 DEF FoundAt
            <4>3. l \notin a
                <5>1. ~(y.pc > y.pc)
                    BY <1>12
                <5> QED
                    BY <4>2, <5>1 DEF LeftAt
            <4> QED
                BY <1>5, <4>1, <4>2, <4>3 DEF Here
        <3>2. l \in Labels(y, l.section) /\ l \notin b => NoStop(y, l, i)
            <4> SUFFICES ASSUME l \in Labels(y, l.section), l \notin b,
                                Come(y).section = l.section, Here(Come(y)) = l.offset
                         PROVE  FALSE
                BY DEF NoStop
            <4>1. l \in Labels(y, s) /\ Come(y).section = s
                BY <1>1 DEF Sited
            <4>2. l.offset = y.pc
                BY <1>11, <4>1 DEF Here
            <4> QED
                BY <1>13, <2>6, <4>1, <4>2 DEF FoundAt
        <3>3. l \in Labels(y, l.section) => ~y.sections[l.section].ref_only
            BY <1>1, <2>2 DEF Unmixed
        <3> QED
            BY <1>2, <1>8, <1>10, <2>1, <2>2, <2>3, <2>4, <2>6, <3>1, <3>2, <3>3, TraceGrows
    <2> QED
        BY <2>5, <2>6
<1>18. Declared(w)
    <2>1. (Printed(y, w, i) /\ i.kind \notin {"section", "symbols"}) \/ Unprinted(y, w)
        BY <1>2, <1>8, <1>9
    <2> QED
        BY <1>1, <1>4, <2>1, DeclaredStays
<1>19. Stands(w, f, m, L)
    BY <1>1, <1>2, <1>3, <1>14, <1>15, <1>16, <1>17, <1>18 DEF Stands
<1>20. Goes(y, w)
    BY <1>2, <1>3, <1>5, <1>6, <1>10 DEF Goes
<1>21. Known(w)
    BY <1>2, <1>5 DEF Known, NextObject, NextOf
<1>22. pc = y.pc => Clear(w)
    BY <1>2, <1>5 DEF Clear, LeftAt
<1> QED
    BY <1>19, <1>20, <1>21, <1>22

-----------------------------------------------------------------------------
(* The labels that are before the end of the bytes in hand. *)

Ready(y, f, m, L) == Stands(y, f, m, L) /\ Settled(y)
Ahead(y) == \A l \in Labels(y, y.section) : l.offset > y.pc + Len(y.bytes)

LEMMA KnownAhead ==
    ASSUME NEW y \in Objects, y.section \in DOMAIN y.sections, Known(y)
    PROVE  \A l \in Labels(y, y.section) :
               l \in ObjectSymbol /\ l.offset \in Nat /\ y.next_label >= 0
                   /\ l.offset >= y.next_label
<1> DEFINE S == Labels(y, y.section)
<1>1. y.sections[y.section] \in SectionEntry
    BY EntryFields
<1>2. S \in SUBSET ObjectSymbol
    BY <1>1 DEF SectionEntry, Labels
<1>3. y.next_label = NextOf(S)
    BY DEF Known, NextOf
<1> HIDE DEF S
<1>4. \A l \in S : NextOf(S) >= 0 /\ l.offset >= NextOf(S)
    BY <1>2, NextType
<1>5. \A l \in S : l \in ObjectSymbol /\ l.offset \in Nat
    BY <1>2 DEF ObjectSymbol
<1> QED
    BY <1>3, <1>4, <1>5 DEF S

LEMMA AheadClear ==
    ASSUME NEW y \in Objects, y.section \in DOMAIN y.sections, Ahead(y)
    PROVE  Clear(y)
<1>1. y.pc \in Nat /\ Len(y.bytes) \in Nat
    BY ObjectFields, LenProperties
<1>2. \A l \in Labels(y, y.section) : l.offset \in Nat
    <2>1. y.sections[y.section] \in SectionEntry
        BY EntryFields
    <2> QED
        BY <2>1 DEF SectionEntry, Labels, ObjectSymbol
<1> QED
    BY <1>1, <1>2 DEF Ahead, Clear

LEMMA EmptySettled ==
    ASSUME NEW y \in Objects, NEW w \in Objects, y.section \in DOMAIN y.sections,
           Goes(y, w), w.bytes = << >>, Known(w), y.code = ~y.sections[y.section].data
    PROVE  Settled(w)
<1>1. w.code = ~w.sections[w.section].data
    <2>1. SameKinds(y, w)
        BY GoesSameKinds
    <2> QED
        BY <2>1 DEF SameKinds, Goes
<1>2. Len(w.bytes) = 0 /\ w.size \in 0 .. 3
    BY EmptySeq, ObjectFields
<1>3. Len(w.bytes) <= 3 /\ Len(w.bytes) <= w.size
    BY <1>2
<1> QED
    BY <1>1, <1>3 DEF Settled, InHand

LEMMA DumpReady ==
    ASSUME NEW y, NEW f, NEW m, NEW L, Ready(y, f, m, L), NEW w, w = Dump(y)
    PROVE  Ready(w, f, m, L) /\ Emptied(y, w)
<1>1. y \in Objects /\ y.section \in DOMAIN y.sections /\ Stands(y, f, m, L) /\ Settled(y)
    BY DEF Ready, Stands
<1>2. Stands(w, f, m, L) /\ Emptied(y, w) /\ w \in Objects
    <2>1. y.bytes # << >> => Clear(y)
        BY <1>1 DEF Settled, InHand
    <2>2. Stands(w, f, m, L) /\ Emptied(y, w)
        BY <1>1, <2>1, Dumped
    <2> QED
        BY <2>2 DEF Stands
<1>3. Known(w)
    BY <1>1, <1>2 DEF Settled, Known, Emptied, Goes, Labels
<1>4. Settled(w)
    BY <1>1, <1>2, <1>3, EmptySettled DEF Emptied, Settled
<1> QED
    BY <1>2, <1>4 DEF Ready

LEMMA Rested ==
    ASSUME NEW y, NEW f, NEW m, NEW L, Ready(y, f, m, L), NEW w, w = CheckLabels(y)
    PROVE  /\ Ready(w, f, m, L) /\ Goes(y, w) /\ Ahead(w) /\ w.size = y.size
           /\ w.pc + Len(w.bytes) = y.pc + Len(y.bytes)
           /\ w = y \/ w.bytes = << >>
<1>1. y \in Objects /\ y.section \in DOMAIN y.sections /\ Stands(y, f, m, L) /\ Settled(y)
      /\ Known(y)
    BY DEF Ready, Stands, Settled
<1>2. y.pc \in Nat /\ Len(y.bytes) \in Nat
    BY <1>1, ObjectFields, LenProperties
<1>3. CASE y.next_label >= 0 /\ y.pc + Len(y.bytes) >= y.next_label
    <2> DEFINE d == Dump(y)
    <2>1. Ready(d, f, m, L) /\ Emptied(y, d)
        BY DumpReady
    <2>2. w = NextLabel(d, d.pc)
        BY <1>3 DEF CheckLabels
    <2> HIDE DEF d
    <2>3. d \in Objects /\ d.section \in DOMAIN d.sections /\ Stands(d, f, m, L)
        BY <2>1 DEF Ready, Stands
    <2>4. NextObject(d, d.pc, w)
        <3>1. d.pc \in Int
            BY <2>3, ObjectFields
        <3> QED
            BY <2>2, <2>3, <3>1, NextFields
    <2>5. Stands(w, f, m, L) /\ Goes(d, w) /\ Known(w) /\ Clear(w)
        BY <2>1, <2>3, <2>4, NextGoes DEF Emptied
    <2>6. Goes(y, w)
        BY <1>1, <2>1, <2>5, GoesOn DEF Emptied
    <2>7. w \in Objects /\ w.bytes = << >> /\ w.pc = d.pc /\ w.size = d.size
        BY <2>1, <2>4 DEF NextObject, Emptied
    <2>8. Settled(w)
        BY <1>1, <2>5, <2>6, <2>7, EmptySettled DEF Settled
    <2>9. w.pc + Len(w.bytes) = y.pc + Len(y.bytes) /\ w.pc + Len(w.bytes) = w.pc
        <3>1. w.pc + Len(w.bytes) = w.pc
            BY <2>7, NoBytes
        <3> QED
            BY <2>1, <2>7, <3>1 DEF Emptied
    <2>10. Ahead(w)
        BY <2>5, <2>9 DEF Ahead, Clear
    <2> QED
        BY <2>1, <2>5, <2>6, <2>7, <2>8, <2>9, <2>10 DEF Ready, Emptied
<1>4. CASE ~(y.next_label >= 0 /\ y.pc + Len(y.bytes) >= y.next_label)
    <2>1. w = y
        BY <1>4 DEF CheckLabels
    <2>2. Ahead(y)
        <3> SUFFICES ASSUME NEW l \in Labels(y, y.section) PROVE l.offset > y.pc + Len(y.bytes)
            BY DEF Ahead
        <3>1. l.offset \in Nat /\ y.next_label >= 0 /\ l.offset >= y.next_label
            BY <1>1, KnownAhead
        <3>2. y.next_label \in Int
            BY <1>1, ObjectFields
        <3> QED
            BY <1>2, <1>4, <3>1, <3>2
    <2> QED
        BY <1>1, <2>1, <2>2, GoesNowhere
<1> QED
    BY <1>3, <1>4

LEMMA Flushed ==
    ASSUME NEW y, NEW f, NEW m, NEW L, Ready(y, f, m, L), NEW w, w = Flush(y)
    PROVE  /\ Ready(w, f, m, L) /\ Goes(y, w) /\ Clear(w) /\ w.size = y.size
           /\ w.bytes = << >> /\ w.pc = y.pc + Len(y.bytes)
<1> DEFINE d == Dump(y)
<1>1. Ready(d, f, m, L) /\ Emptied(y, d)
    BY DumpReady
<1>2. w = CheckLabels(d)
    BY DEF Flush
<1> HIDE DEF d
<1>3. /\ Ready(w, f, m, L) /\ Goes(d, w) /\ Ahead(w) /\ w.size = d.size
      /\ w.pc + Len(w.bytes) = d.pc + Len(d.bytes)
      /\ w = d \/ w.bytes = << >>
    BY <1>1, <1>2, Rested
<1>4. /\ y \in Objects /\ y.section \in DOMAIN y.sections /\ d \in Objects
      /\ w \in Objects /\ w.section \in DOMAIN w.sections
    BY <1>1, <1>3 DEF Ready, Stands
<1>5. w.bytes = << >> /\ d.bytes = << >>
    BY <1>1, <1>3 DEF Emptied
<1>6. w.pc + Len(w.bytes) = w.pc /\ d.pc + Len(d.bytes) = d.pc
    BY <1>4, <1>5, NoBytes
<1>7. Goes(y, w)
    BY <1>1, <1>3, <1>4, GoesOn DEF Emptied
<1>8. Clear(w)
    BY <1>3, <1>4, AheadClear
<1> QED
    BY <1>1, <1>3, <1>5, <1>6, <1>7, <1>8 DEF Emptied

LEMMA QuietFlush ==
    ASSUME NEW y, y.bytes = << >>, y.pc + Len(y.bytes) = y.pc, y.pc \in Int, y.next_label \in Int,
           y.next_label < 0 \/ y.pc < y.next_label
    PROVE  Flush(y) = y
BY DEF Flush, Dump, CheckLabels

LEMMA CheckedReady ==
    ASSUME NEW y, NEW f, NEW m, NEW L, Ready(y, f, m, L), NEW w, w = Checked(y)
    PROVE  /\ Ready(w, f, m, L) /\ Goes(y, w) /\ Clear(w) /\ w.size = y.size
           /\ w.pc + Len(w.bytes) = y.pc + Len(y.bytes)
           /\ w.bytes = << >> \/ ~w.code => Ahead(w)
<1>1. y \in Objects /\ y.section \in DOMAIN y.sections /\ Settled(y)
    BY DEF Ready, Stands
<1>2. CASE y.bytes = << >> \/ ~y.code
    <2>1. w = CheckLabels(y)
        BY <1>2 DEF Checked
    <2>2. /\ Ready(w, f, m, L) /\ Goes(y, w) /\ Ahead(w) /\ w.size = y.size
          /\ w.pc + Len(w.bytes) = y.pc + Len(y.bytes)
        BY <2>1, Rested
    <2>3. Clear(w)
        BY <2>2, AheadClear DEF Ready, Stands
    <2> QED
        BY <2>2, <2>3
<1>3. CASE y.bytes # << >> /\ y.code
    <2>1. w = y
        BY <1>3 DEF Checked
    <2>2. Clear(y)
        BY <1>1, <1>3 DEF Settled, InHand
    <2> QED
        BY <1>1, <1>3, <2>1, <2>2, GoesNowhere
<1> QED
    BY <1>1, <1>2, <1>3, ObjectFields

-----------------------------------------------------------------------------
(* Bytes and expressions. *)

Numbers(f, c) == [k \in 1 .. c |-> Len(f) + k]
TakenObject(y, v, ids, size) ==
    /\ v \in Objects /\ v.bytes = y.bytes \o ids /\ Len(v.bytes) = Len(y.bytes) + Len(ids)
    /\ v.size = size /\ v.listing = y.listing /\ v.sections = y.sections /\ v.section = y.section
    /\ v.pc = y.pc /\ v.code = y.code /\ v.flags = y.flags /\ v.next_label = y.next_label
    /\ v.symbols = y.symbols

LEMMA TakenFields ==
    ASSUME NEW y \in Objects, NEW ids \in Seq(Nat), NEW size \in 0 .. 3,
           NEW v, v = [y EXCEPT !.bytes = y.bytes \o ids, !.size = size]
    PROVE  TakenObject(y, v, ids, size)
<1>1. y.bytes \in Seq(Nat)
    BY ObjectFields
<1>2. y.bytes \o ids \in Seq(Nat) /\ Len(y.bytes \o ids) = Len(y.bytes) + Len(ids)
    BY <1>1, ConcatProperties
<1>3. v \in Objects
    BY <1>2 DEF Objects
<1> QED
    BY <1>2, <1>3 DEF TakenObject, Objects

LEMMA NumbersType ==
    ASSUME NEW f \in Seq(Places), NEW c \in Nat
    PROVE  Numbers(f, c) \in Seq(Nat) /\ Len(Numbers(f, c)) = c
<1>1. Len(f) \in Nat
    BY LenProperties
<1>2. Numbers(f, c) \in [1 .. c -> Nat]
    BY <1>1 DEF Numbers
<1> QED
    BY <1>2, Counted

LEMMA Taken ==
    ASSUME NEW y, NEW f \in Seq(Places), NEW L, Stands(y, f, Len(f), L), NEW c \in Nat,
           NEW size \in 0 .. 3,
           NEW g, g = More(y, f, y.pc + Len(y.bytes), c),
           NEW v, TakenObject(y, v, Numbers(f, c), size)
    PROVE  Stands(v, g, Len(g), L) /\ Goes(y, v) /\ Len(v.bytes) = Len(y.bytes) + c
<1>1. y \in Objects /\ v \in Objects
    BY DEF Stands, TakenObject
<1>2. Stands(v, g, Len(g), L)
    BY <1>1, Fed DEF TakenObject, Numbers
<1>3. Goes(y, v)
    BY <1>1, SameGoes DEF TakenObject
<1> QED
    BY <1>2, <1>3, NumbersType DEF TakenObject

LEMMA Lined ==
    ASSUME NEW v, NEW g, NEW m, NEW L, Stands(v, g, m, L), Len(v.bytes) > 0, NEW kind \in Lines,
           \/ Clear(v)
           \/ /\ kind = "expr" /\ ~v.sections[v.section].data
              /\ Len(v.listing) \in DOMAIN v.listing /\ v.listing[Len(v.listing)].kind = "db",
           Known(v), v.code = ~v.sections[v.section].data,
           NEW w, w = PrintLine(v, kind, Len(v.bytes))
    PROVE  Ready(w, g, m, L) /\ Goes(v, w) /\ w.bytes = << >>
           /\ w.pc + Len(w.bytes) = v.pc + Len(v.bytes)
<1>1. v \in Objects /\ v.section \in DOMAIN v.sections
    BY DEF Stands
<1>2. LineObject(v, kind, w) /\ w \in Objects
    BY <1>1, LineFields DEF LineObject
<1>3. v.bytes # << >>
    BY EmptySeq
<1>4. Stands(w, g, m, L) /\ Goes(v, w)
    BY <1>2, <1>3, LinePrinted
<1>5. w.bytes = << >> /\ w.pc = v.pc + Len(v.bytes) /\ Known(w)
    BY <1>2 DEF LineObject, Known, Labels
<1>6. Settled(w)
    BY <1>1, <1>2, <1>4, <1>5, EmptySettled
<1>7. w.pc + Len(w.bytes) = w.pc
    BY <1>2, <1>5, NoBytes
<1> QED
    BY <1>4, <1>5, <1>6, <1>7 DEF Ready

LEMMA OperandType ==
    ASSUME NEW y, NEW op \in Op
    PROVE  OperandSize(y, op) \in 0 .. 3
BY DEF OperandSize, Op

LEMMA ByteFed ==
    ASSUME NEW y, NEW f \in Seq(Places), NEW L, Ready(y, f, Len(f), L), NEW op \in Op,
           NEW g, g = More(y, f, y.pc + Len(y.bytes), 1),
           NEW w, w = Byte(y, op, Len(f) + 1)
    PROVE  /\ Ready(w, g, Len(g), L) /\ Goes(y, w)
           /\ w.pc + Len(w.bytes) = y.pc + Len(y.bytes) + 1
<1> DEFINE c == Checked(y)
           ids == Numbers(f, 1)
<1>1. /\ Ready(c, f, Len(f), L) /\ Goes(y, c) /\ Clear(c)
      /\ c.pc + Len(c.bytes) = y.pc + Len(y.bytes)
    BY CheckedReady
<1>2. w = IF c.code THEN ByteCode(c, op, Len(f) + 1) ELSE ByteData(c, Len(f) + 1)
    BY DEF Byte
<1> HIDE DEF c
<1>3. /\ y \in Objects /\ y.section \in DOMAIN y.sections /\ c \in Objects
         /\ Stands(c, f, Len(f), L)
      /\ c.section \in DOMAIN c.sections /\ Known(c) /\ InHand(c)
         /\ c.code = ~c.sections[c.section].data
      /\ c.section = y.section
    BY <1>1 DEF Ready, Stands, Settled, Goes
<1>4. g = More(c, f, c.pc + Len(c.bytes), 1)
    BY <1>1, <1>3 DEF More
<1>5. /\ c.bytes \in Seq(Nat) /\ c.pc \in Nat /\ Len(c.bytes) \in Nat /\ c.size \in 0 .. 3
         /\ Len(f) \in Nat
      /\ c.code \in BOOLEAN
    BY <1>3, ObjectFields, LenProperties
<1>6. ids \in Seq(Nat) /\ Len(ids) = 1 /\ Append(c.bytes, Len(f) + 1) = c.bytes \o ids
    <2>1. ids \in Seq(Nat) /\ Len(ids) = 1
        BY NumbersType
    <2>2. ids = << Len(f) + 1 >>
        BY <1>5 DEF Numbers
    <2>3. Append(c.bytes, Len(f) + 1) = c.bytes \o << Len(f) + 1 >>
        BY <1>5, AppendIsConcat, SMTT(30)
    <2> QED
        BY <2>1, <2>2, <2>3
<1> HIDE DEF ids
<1>7. ASSUME NEW size \in 0 .. 3, NEW v, v = [c EXCEPT !.bytes = c.bytes \o ids, !.size = size]
      PROVE  /\ TakenObject(c, v, ids, size) /\ Stands(v, g, Len(g), L) /\ Goes(y, v)
             /\ Len(v.bytes) = Len(c.bytes) + 1 /\ Clear(v) /\ Known(v)
             /\ v.code = ~v.sections[v.section].data
             /\ v.pc + Len(v.bytes) = y.pc + Len(y.bytes) + 1
    <2>1. TakenObject(c, v, ids, size)
        BY <1>3, <1>6, <1>7, TakenFields
    <2>2. Stands(v, g, Len(g), L) /\ Goes(c, v) /\ Len(v.bytes) = Len(c.bytes) + 1
        BY <1>3, <1>4, <2>1, Taken DEF ids
    <2>3. Goes(y, v)
        BY <1>1, <1>3, <2>2, GoesOn
    <2>4. Clear(v) /\ Known(v) /\ v.code = ~v.sections[v.section].data /\ v.pc = c.pc
        BY <1>1, <1>3, <2>1 DEF TakenObject, Clear, Known, Labels
    <2>5. v.pc + Len(v.bytes) = (c.pc + Len(c.bytes)) + 1
        BY <1>5, <2>2, <2>4
    <2> QED
        BY <1>1, <2>1, <2>2, <2>3, <2>4, <2>5
<1>8. ASSUME NEW v, NEW kind \in Lines, Stands(v, g, Len(g), L), Goes(y, v),
             Len(v.bytes) > 0, Clear(v), Known(v), v.code = ~v.sections[v.section].data,
             v.pc + Len(v.bytes) = y.pc + Len(y.bytes) + 1,
             w = PrintLine(v, kind, Len(v.bytes))
      PROVE  /\ Ready(w, g, Len(g), L) /\ Goes(y, w)
             /\ w.pc + Len(w.bytes) = y.pc + Len(y.bytes) + 1
    <2>1. Ready(w, g, Len(g), L) /\ Goes(v, w) /\ w.pc + Len(w.bytes) = v.pc + Len(v.bytes)
        BY <1>8, Lined
    <2> QED
        BY <1>3, <1>8, <2>1, GoesOn
<1>9. CASE c.code
    <2> DEFINE size == IF c.bytes = << >> THEN OperandSize(c, op) ELSE c.size
               v == [c EXCEPT !.bytes = c.bytes \o ids, !.size = size]
    <2>1. size \in 0 .. 3
        BY <1>5, OperandType
    <2>2. Len(c.bytes) <= size
        <3>1. CASE c.bytes = << >>
            BY <2>1, <3>1, EmptySeq
        <3>2. CASE c.bytes # << >>
            BY <1>3, <1>9, <3>2 DEF InHand
        <3> QED
            BY <3>1, <3>2
    <2>3. w = IF Len(v.bytes) > v.size THEN PrintOp(v) ELSE v
        BY <1>2, <1>6, <1>9 DEF ByteCode
    <2> HIDE DEF v, size
    <2>4. /\ TakenObject(c, v, ids, size) /\ Stands(v, g, Len(g), L) /\ Goes(y, v)
          /\ Len(v.bytes) = Len(c.bytes) + 1 /\ Clear(v) /\ Known(v)
          /\ v.code = ~v.sections[v.section].data
          /\ v.pc + Len(v.bytes) = y.pc + Len(y.bytes) + 1
        BY <1>7, <2>1 DEF v
    <2>5. v.size = size
        BY <2>4 DEF TakenObject
    <2>6. CASE Len(v.bytes) > v.size
        <3>1. Len(v.bytes) = v.size + 1 /\ Len(v.bytes) > 0
            BY <1>5, <2>1, <2>2, <2>4, <2>5, <2>6
        <3>2. w = PrintLine(v, "op", Len(v.bytes)) /\ "op" \in Lines
            BY <2>3, <2>6, <3>1 DEF PrintOp, Lines
        <3> QED
            BY <1>8, <2>4, <3>1, <3>2
    <2>7. CASE ~(Len(v.bytes) > v.size)
        <3>1. w = v
            BY <2>3, <2>7
        <3>2. Len(v.bytes) <= v.size /\ Len(v.bytes) <= 3
            BY <1>5, <2>1, <2>4, <2>5, <2>7
        <3>3. Settled(v)
            BY <2>4, <3>2 DEF Settled, InHand
        <3> QED
            BY <2>4, <3>1, <3>3 DEF Ready
    <2> QED
        BY <2>6, <2>7
<1>10. CASE ~c.code
    <2> DEFINE v == [c EXCEPT !.bytes = c.bytes \o ids, !.size = c.size]
    <2>1. v = [c EXCEPT !.bytes = c.bytes \o ids]
        BY <1>3 DEF Objects
    <2>2. w = IF Len(v.bytes) = 4 THEN Dump(v) ELSE v
        BY <1>2, <1>6, <1>10, <2>1 DEF ByteData
    <2> HIDE DEF v
    <2>4. /\ TakenObject(c, v, ids, c.size) /\ Stands(v, g, Len(g), L) /\ Goes(y, v)
          /\ Len(v.bytes) = Len(c.bytes) + 1 /\ Clear(v) /\ Known(v)
          /\ v.code = ~v.sections[v.section].data
          /\ v.pc + Len(v.bytes) = y.pc + Len(y.bytes) + 1
        BY <1>5, <1>7 DEF v
    <2>5. CASE Len(v.bytes) = 4
        <3>0. Len(v.bytes) > 0
            BY <2>5
        <3>1. v.bytes # << >>
            BY <3>0, EmptySeq
        <3>2. w = PrintLine(v, "db", Len(v.bytes)) /\ "db" \in Lines
            BY <2>2, <2>5, <3>1 DEF Dump, Lines
        <3> QED
            BY <1>8, <2>4, <3>0, <3>2
    <2>6. CASE Len(v.bytes) # 4
        <3>1. w = v /\ ~v.code
            BY <1>10, <2>2, <2>4, <2>6 DEF TakenObject
        <3>2. Len(c.bytes) <= 3
            BY <1>3 DEF InHand
        <3>3. Len(v.bytes) <= 3
            BY <1>5, <2>4, <2>6, <3>2
        <3>4. Settled(v)
            BY <2>4, <3>1, <3>3 DEF Settled, InHand
        <3> QED
            BY <2>4, <3>1, <3>4 DEF Ready
    <2> QED
        BY <2>5, <2>6
<1> QED
    BY <1>5, <1>9, <1>10

LEMMA ExprFed ==
    ASSUME NEW y, NEW f \in Seq(Places), NEW L, Ready(y, f, Len(f), L), NEW n \in 1 .. 4,
           NEW g, g = More(y, f, y.pc + Len(y.bytes), n),
           NEW w, w = Expr(y, Numbers(f, n))
    PROVE  /\ Ready(w, g, Len(g), L) /\ Goes(y, w)
           /\ w.pc + Len(w.bytes) = y.pc + Len(y.bytes) + n
<1> DEFINE c == Checked(y)
           ids == Numbers(f, n)
<1>1. /\ Ready(c, f, Len(f), L) /\ Goes(y, c) /\ Clear(c)
      /\ c.pc + Len(c.bytes) = y.pc + Len(y.bytes)
      /\ c.bytes = << >> \/ ~c.code => Ahead(c)
    BY CheckedReady
<1>2. w = IF Operand(c, ids) THEN PrintOp([c EXCEPT !.bytes = c.bytes \o ids]) ELSE DumpExpr(c, ids)
    BY DEF Expr
<1> HIDE DEF c
<1>3. /\ y \in Objects /\ y.section \in DOMAIN y.sections /\ c \in Objects
         /\ Stands(c, f, Len(f), L)
      /\ c.section \in DOMAIN c.sections /\ Known(c) /\ InHand(c)
         /\ c.code = ~c.sections[c.section].data
      /\ c.section = y.section
    BY <1>1 DEF Ready, Stands, Settled, Goes
<1>4. g = More(c, f, c.pc + Len(c.bytes), n)
    BY <1>1, <1>3 DEF More
<1>5. /\ c.bytes \in Seq(Nat) /\ c.pc \in Nat /\ Len(c.bytes) \in Nat /\ c.size \in 0 .. 3
      /\ c.code \in BOOLEAN /\ y.pc \in Nat /\ Len(y.bytes) \in Nat
    BY <1>3, ObjectFields, LenProperties
<1>6. ids \in Seq(Nat) /\ Len(ids) = n
    BY NumbersType
<1> HIDE DEF ids
<1>9. CASE Operand(c, ids)
    <2> DEFINE v == [c EXCEPT !.bytes = c.bytes \o ids, !.size = c.size]
    <2>1. v = [c EXCEPT !.bytes = c.bytes \o ids]
        BY <1>3 DEF Objects
    <2>2. w = PrintOp(v)
        BY <1>2, <1>9, <2>1
    <2>3. TakenObject(c, v, ids, c.size)
        BY <1>3, <1>5, <1>6, TakenFields
    <2> HIDE DEF v
    <2>4. Stands(v, g, Len(g), L) /\ Goes(c, v) /\ Len(v.bytes) = Len(c.bytes) + n
        BY <1>3, <1>4, <1>5, <2>3, Taken DEF ids
    <2>5. Len(v.bytes) = v.size + 1 /\ Len(v.bytes) > 0
          /\ v.pc + Len(v.bytes) = y.pc + Len(y.bytes) + n
        <3>1. Len(c.bytes) = 1 /\ n = c.size /\ v.size = c.size /\ v.pc = c.pc
            BY <1>6, <1>9, <2>3 DEF Operand, TakenObject
        <3>2. Len(v.bytes) = v.size + 1 /\ Len(v.bytes) > 0
            BY <1>5, <2>4, <3>1
        <3>3. v.pc + Len(v.bytes) = (c.pc + Len(c.bytes)) + n
            BY <1>5, <2>4, <3>1, SMTT(30)
        <3> QED
            BY <1>1, <3>2, <3>3
    <2>6. Clear(v) /\ Known(v) /\ v.code = ~v.sections[v.section].data
        BY <1>1, <1>3, <2>3 DEF TakenObject, Clear, Known, Labels
    <2>7. w = PrintLine(v, "op", Len(v.bytes)) /\ "op" \in Lines
        BY <2>2, <2>5 DEF PrintOp, Lines
    <2>8. Ready(w, g, Len(g), L) /\ Goes(v, w) /\ w.pc + Len(w.bytes) = v.pc + Len(v.bytes)
        BY <2>4, <2>5, <2>6, <2>7, Lined
    <2>9. Goes(y, w)
        <3>1. Goes(y, v)
            BY <1>1, <1>3, <2>4, GoesOn
        <3> QED
            BY <1>3, <2>8, <3>1, GoesOn
    <2> QED
        BY <2>5, <2>8, <2>9
<1>10. CASE ~Operand(c, ids)
    <2> DEFINE d == Dump(c)
               v == [d EXCEPT !.bytes = d.bytes \o ids, !.size = d.size]
    <2>1. /\ Stands(d, f, Len(f), L) /\ Emptied(c, d) /\ Ready(d, f, Len(f), L)
          /\ c.bytes # << >> => Len(d.listing) \in DOMAIN d.listing
             /\ d.listing[Len(d.listing)].kind = "db"
        BY <1>1, <1>3, DumpReady, Dumped
    <2>2. d \in Objects /\ d.section \in DOMAIN d.sections /\ d.bytes = << >>
          /\ d.pc = c.pc + Len(c.bytes)
        BY <2>1 DEF Stands, Emptied
    <2>3. d.pc + Len(d.bytes) = y.pc + Len(y.bytes) /\ d.size \in 0 .. 3 /\ d.bytes \in Seq(Nat)
          /\ Len(d.bytes) = 0
        BY <1>1, <2>2, NoBytes, ObjectFields
    <2>4. w = PrintLine(v, "expr", n)
        <3>1. w = PrintLine([d EXCEPT !.bytes = ids], "expr", Len(ids))
            BY <1>2, <1>10 DEF DumpExpr
        <3>2. d.bytes \o ids = ids
            BY <1>6, <2>2, ConcatEmptySeq
        <3>3. v = [d EXCEPT !.bytes = ids]
            BY <2>2, <3>2 DEF Objects
        <3> HIDE DEF v
        <3> QED
            BY <1>6, <3>1, <3>3
    <2>5. TakenObject(d, v, ids, d.size)
        BY <1>6, <2>2, <2>3, TakenFields
    <2> HIDE DEF d, v
    <2>6. g = More(d, f, d.pc + Len(d.bytes), n)
        <3>1. d.section = c.section /\ c.section = y.section
            BY <1>3, <2>1 DEF Emptied, Goes
        <3>2. d.pc + Len(d.bytes) = y.pc + Len(y.bytes)
            BY <2>3
        <3> QED
            BY <3>1, <3>2 DEF More
    <2>7. Stands(v, g, Len(g), L) /\ Goes(d, v) /\ Len(v.bytes) = n
        <3>1. Stands(v, g, Len(g), L) /\ Goes(d, v) /\ Len(v.bytes) = Len(d.bytes) + n
            BY <2>1, <2>3, <2>5, <2>6, Taken DEF ids
        <3> QED
            BY <2>3, <3>1
    <2>8. Len(v.bytes) > 0 /\ v.pc + Len(v.bytes) = y.pc + Len(y.bytes) + n
        <3>1. v.pc = d.pc /\ d.pc = y.pc + Len(y.bytes)
            BY <1>1, <2>2, <2>5 DEF TakenObject
        <3> QED
            BY <1>5, <2>7, <3>1
    <2>9. Known(v) /\ v.code = ~v.sections[v.section].data
        <3>1. Known(d) /\ d.code = ~d.sections[d.section].data
            BY <2>1 DEF Ready, Settled
        <3> QED
            BY <2>5, <3>1 DEF TakenObject, Known, Labels
    <2>10. \/ Clear(v)
           \/ /\ ~v.sections[v.section].data
              /\ Len(v.listing) \in DOMAIN v.listing /\ v.listing[Len(v.listing)].kind = "db"
        <3>1. CASE c.bytes = << >> \/ ~c.code
            <4>1. Ahead(c)
                BY <1>1, <3>1
            <4>2. Clear(v)
                BY <2>1, <2>2, <2>5, <4>1 DEF Ahead, Clear, TakenObject, Labels, Emptied, Goes
            <4> QED
                BY <4>2
        <3>2. CASE c.bytes # << >> /\ c.code
            <4>1. ~c.sections[c.section].data
                BY <1>3, <1>5, <3>2
            <4> QED
                BY <2>1, <2>5, <3>2, <4>1 DEF TakenObject, Emptied, Goes
        <3> QED
            BY <1>5, <3>1, <3>2
    <2>11. "expr" \in Lines /\ w = PrintLine(v, "expr", Len(v.bytes))
        BY <2>4, <2>7 DEF Lines
    <2>12. Ready(w, g, Len(g), L) /\ Goes(v, w) /\ w.pc + Len(w.bytes) = v.pc + Len(v.bytes)
        BY <2>7, <2>8, <2>9, <2>10, <2>11, Lined
    <2>13. Goes(y, w)
        <3>1. Goes(y, d)
            BY <1>1, <1>3, <2>1, GoesOn DEF Emptied
        <3>2. Goes(y, v)
            BY <1>3, <2>7, <3>1, GoesOn
        <3> QED
            BY <1>3, <2>12, <3>2, GoesOn
    <2> QED
        BY <2>8, <2>12, <2>13
<1> QED
    BY <1>9, <1>10

-----------------------------------------------------------------------------
(* Origins and spaces. *)

LEMMA ClearQuiet ==
    ASSUME NEW y \in Objects, y.section \in DOMAIN y.sections, Known(y)
    PROVE  /\ y.next_label \in Int /\ y.pc \in Nat
           /\ Clear(y) => y.next_label < 0 \/ y.pc < y.next_label
           /\ (\A l \in Labels(y, y.section) : l.offset > y.pc) <=> y.next_label < 0
              \/ y.pc < y.next_label
<1> DEFINE S == Labels(y, y.section)
<1>1. y.sections[y.section] \in SectionEntry
    BY EntryFields
<1>2. S \in SUBSET ObjectSymbol
    BY <1>1 DEF SectionEntry, Labels
<1>3. y.next_label = NextOf(S)
    BY DEF Known, NextOf
<1>4. y.pc \in Nat /\ y.next_label \in Nat \cup {-1}
    BY ObjectFields
<1> HIDE DEF S
<1>5. /\ \A l \in S : NextOf(S) >= 0 /\ l.offset >= NextOf(S)
      /\ NextOf(S) >= 0 => \E l \in S : l.offset = NextOf(S)
    BY <1>2, NextType
<1>6. \A l \in S : l.offset \in Nat
    BY <1>2 DEF ObjectSymbol
<1>7. (\A l \in S : l.offset > y.pc) => y.next_label < 0 \/ y.pc < y.next_label
    BY <1>3, <1>4, <1>5
<1>8. y.next_label < 0 \/ y.pc < y.next_label => \A l \in S : l.offset > y.pc
    BY <1>3, <1>4, <1>5, <1>6
<1> QED
    BY <1>4, <1>7, <1>8 DEF Clear, S

(* The object moves on in its section, and nothing is in hand.             *)
MovedObject(y, w, i) ==
    /\ w \in Objects /\ i \in ListingItem /\ i.kind \in {"org", "ds"}
    /\ w.listing = Append(y.listing, i) /\ w.bytes = << >>
    /\ w.pc = IF i.kind = "org" THEN i.to ELSE y.pc + i.size
    /\ w.section = y.section /\ w.sections = y.sections /\ w.size = y.size /\ w.code = y.code
    /\ w.flags = y.flags /\ w.next_label = y.next_label /\ w.symbols = y.symbols

LEMMA Moved ==
    ASSUME NEW y, NEW f, NEW m, NEW L, Ready(y, f, m, L), y.bytes = << >>, Clear(y),
           NEW w, NEW i, MovedObject(y, w, i)
    PROVE  Ready(w, f, m, L) /\ Goes(y, w)
<1> DEFINE s == y.section
<1>1. /\ y \in Objects /\ s \in DOMAIN y.sections /\ Listed(y, f) /\ Unmixed(y) /\ Sited(y)
      /\ Carried(y, f, m) /\ Found(y, L) /\ Declared(y) /\ Settled(y)
      /\ \A l \in L : l \in ObjectSymbol /\ l.section \in DOMAIN y.sections
    BY DEF Ready, Stands
<1>2. Printed(y, w, i) /\ SameKinds(y, w)
    BY <1>1 DEF Printed, SameKinds, MovedObject
<1>3. /\ w \in Objects /\ w.pc = (IF i.kind = "org" THEN i.to ELSE y.pc + i.size) /\ w.bytes = << >>
      /\ w.section = y.section /\ w.sections = y.sections
      /\ i.kind # "section" /\ i.kind # "labels" /\ i.kind \notin Lines /\ i.kind \in {"org", "ds"}
      /\ i.kind \notin {"section", "symbols"}
    BY DEF MovedObject, Lines
<1>4. /\ Come(w) = Follows(Come(y), i) /\ Come(y) \in AssemblerStates(DOMAIN y.sections)
      /\ i \in ListingItem
    BY <1>2, PrintedKnowing DEF Printed
<1>5. /\ Come(w).section = s /\ Come(y).section = s
      /\ \A n \in DOMAIN y.sections : n # s => Come(w).at[n] = Come(y).at[n]
      /\ Come(w).at[s] = IF i.kind = "org" THEN i.to ELSE Come(y).at[s] + i.size
      /\ Come(w).bytes = Come(y).bytes
    <2>1. Come(y).section = s
        BY <1>1 DEF Sited
    <2>2. Come(w).section = s /\ \A n \in DOMAIN y.sections : n # s => Come(w).at[n] = Come(y).at[n]
        BY <1>3, <1>4, <2>1, FollowsTypes
    <2>3. Come(w).at[s] = IF i.kind = "org" THEN i.to ELSE Come(y).at[s] + i.size
        <3> DEFINE D == DOMAIN y.sections
        <3> HIDE DEF D
        <3>3. Come(y) \in AssemblerStates(D) /\ s \in D
            BY <1>1, <1>4 DEF D
        <3>4. Come(w).at[s] = CASE i.kind = "org"  -> i.to
                                [] i.kind = "ds"   -> Come(y).at[s] + i.size
                                [] i.kind \in Lines -> Come(y).at[s] + Len(i.bytes)
                                [] OTHER           -> Come(y).at[s]
            BY <1>4, <2>1, <3>3, FollowsTypes
        <3>1. CASE i.kind = "org"
            BY <3>1, <3>4 DEF Lines
        <3>2. CASE i.kind = "ds"
            BY <3>2, <3>4 DEF Lines
        <3> QED
            BY <1>3, <3>1, <3>2
    <2>4. Come(w).bytes = Come(y).bytes
        <3> DEFINE D == DOMAIN y.sections
        <3> HIDE DEF D
        <3>1. Come(y) \in AssemblerStates(D)
            BY <1>4 DEF D
        <3>2. Come(w).bytes = IF i.kind \in Lines THEN Come(y).bytes \o i.bytes ELSE Come(y).bytes
            BY <1>4, <3>1, FollowsTypes
        <3> QED
            BY <1>3, <3>2
    <2> QED
        BY <2>1, <2>2, <2>3, <2>4
<1>7. ~y.sections[s].ref_only => Come(y).at[s] = y.pc
    BY <1>1 DEF Sited
<1>8. Listed(w, f)
    BY <1>1, <1>2, <1>3, ListedGrows
<1>9. Unmixed(w)
    BY <1>1, <1>3 DEF Unmixed, Labels
<1>10. Sited(w) /\ Carried(w, f, m)
    BY <1>1, <1>3, <1>5, <1>7 DEF Sited, Carried
<1>11. y.pc \in Nat
    BY <1>1, ObjectFields
<1>12. Found(w, L)
    <2> SUFFICES ASSUME Forward(w), NEW l \in L PROVE Traced(w, l)
        BY DEF Found
    <2>1. Forward(y) /\ Traced(y, l)
        <3>1. Forward(y)
            BY <1>2, ForwardBefore
        <3> QED
            BY <1>1, <3>1 DEF Found
    <2>2. l \in ObjectSymbol /\ l.section \in DOMAIN y.sections
          /\ Labels(w, l.section) = Labels(y, l.section)
        BY <1>1, <1>3 DEF Labels
    <2>3. l \in Labels(y, l.section) => NoStop(y, l, i)
        <3> SUFFICES ASSUME l \in Labels(y, l.section), Come(y).section = l.section,
              Here(Come(y)) = l.offset
                     PROVE  FALSE
            BY DEF NoStop
        <3>1. l.section = s /\ ~y.sections[s].ref_only
            BY <1>1, <1>5 DEF Unmixed
        <3>2. l.offset = y.pc
            BY <1>5, <1>7, <3>1 DEF Here
        <3>3. l.offset > y.pc
            BY <3>1 DEF Clear
        <3> QED
            BY <1>11, <3>2, <3>3
    <2>4. l \in Labels(y, l.section) => ~y.sections[l.section].ref_only
        BY <1>1, <2>2 DEF Unmixed
    <2> QED
        BY <1>2, <1>3, <2>1, <2>2, <2>3, <2>4, TraceGrows
<1>13. Declared(w)
    BY <1>1, <1>2, <1>3, DeclaredStays
<1>14. Stands(w, f, m, L)
    BY <1>1, <1>3, <1>8, <1>9, <1>10, <1>12, <1>13 DEF Stands
<1>15. Goes(y, w)
    <2>1. Goes(y, y)
        BY <1>1, GoesNowhere
    <2> QED
        BY <1>3, <1>5, <2>1 DEF Goes, Labels, MovedObject
<1>16. Settled(w)
    <2>1. Known(w)
        BY <1>1, <1>3 DEF Settled, Known, Labels, MovedObject
    <2> QED
        BY <1>1, <1>3, <1>15, <2>1, EmptySettled DEF Settled
<1> QED
    BY <1>14, <1>15, <1>16 DEF Ready

OrgObject(y, to) == SetPc(Emit(Flush(y), [kind |-> "org", to |-> to]), to)

LEMMA OrgMoves ==
    ASSUME NEW y, NEW f, NEW m, NEW L, Ready(y, f, m, L), NEW to \in Nat, NEW w,
           w = OrgObject(y, to)
    PROVE  /\ Ready(w, f, m, L) /\ Goes(y, w) /\ w.bytes = << >> /\ w.pc = to
<1> DEFINE d == Flush(y)
           i == [kind |-> "org", to |-> to]
           v == Emit(d, i)
<1>1. /\ Ready(d, f, m, L) /\ Goes(y, d) /\ Clear(d) /\ d.bytes = << >>
    BY Flushed
<1>2. w = IF v.pc = to THEN v ELSE [Flush(v) EXCEPT !.pc = to]
    BY DEF OrgObject, SetPc
<1> HIDE DEF d
<1>3. y \in Objects /\ y.section \in DOMAIN y.sections /\ d \in Objects
      /\ d.section \in DOMAIN d.sections /\ Known(d)
    BY <1>1 DEF Ready, Stands, Settled
<1>4. i \in ListingItem /\ Append(d.listing, i) \in Seq(ListingItem)
    <2>1. i \in ListingItem
        BY DEF ListingItem
    <2> HIDE DEF i
    <2> QED
        BY <1>3, <2>1, ObjectFields, AppendProperties
<1>5. i.kind = "org" /\ i.to = to
    OBVIOUS
<1>6. v = [d EXCEPT !.listing = Append(d.listing, i)]
    BY <1>3 DEF Emit, Objects
<1> HIDE DEF i, v
<1>7. v.bytes = << >> /\ v.pc = d.pc /\ v.next_label = d.next_label
    BY <1>1, <1>3, <1>6 DEF Objects
<1>8. Flush(v) = v
    <2>1. d.next_label \in Int /\ d.pc \in Nat /\ (d.next_label < 0 \/ d.pc < d.next_label)
        BY <1>1, <1>3, ClearQuiet
    <2>2. d.pc + Len(d.bytes) = d.pc
        BY <1>1, <1>3, NoBytes
    <2> QED
        BY <1>1, <1>7, <2>1, <2>2, QuietFlush
<1>9. w = [d EXCEPT !.listing = Append(d.listing, i), !.pc = to]
    BY <1>2, <1>3, <1>6, <1>7, <1>8 DEF Objects
<1>10. w \in Objects
    BY <1>3, <1>4, <1>9 DEF Objects
<1>11. MovedObject(d, w, i)
    BY <1>1, <1>3, <1>4, <1>5, <1>9, <1>10 DEF MovedObject, Objects
<1>12. Ready(w, f, m, L) /\ Goes(d, w)
    BY <1>1, <1>11, Moved
<1>13. Goes(y, w)
    BY <1>1, <1>3, <1>12, GoesOn
<1> QED
    BY <1>5, <1>11, <1>12, <1>13 DEF MovedObject

LEMMA ChunkIs ==
    ASSUME NEW y, y.next_label \in Nat \cup {-1}, y.pc \in Nat, NEW size \in Nat, size > 0,
           y.next_label < 0 \/ y.pc < y.next_label
    PROVE  /\ Chunk(y, size) \in 1 .. size
           /\ y.next_label < 0 \/ y.pc + Chunk(y, size) <= y.next_label
BY DEF Chunk

LEMMA SpaceMoves ==
    ASSUME NEW y, NEW f, NEW m, NEW L, Ready(y, f, m, L), y.bytes = << >>, Clear(y),
           NEW size \in Nat, size > 0, NEW w, w = Spaced(y, size)
    PROVE  /\ Ready(w, f, m, L) /\ Goes(y, w) /\ w.bytes = << >> /\ Clear(w)
           /\ Chunk(y, size) \in 1 .. size /\ w.pc = y.pc + Chunk(y, size)
<1> DEFINE c == Chunk(y, size)
           i == [kind |-> "ds", at |-> y.pc, size |-> c]
           v == [y EXCEPT !.listing = Append(y.listing, i), !.pc = y.pc + c]
<1>1. y \in Objects /\ y.section \in DOMAIN y.sections /\ Known(y)
    BY DEF Ready, Stands, Settled
<1>2. y.next_label \in Nat \cup {-1} /\ y.pc \in Nat /\ (y.next_label < 0 \/ y.pc < y.next_label)
    BY <1>1, ClearQuiet, ObjectFields
<1>3. c \in 1 .. size /\ (y.next_label < 0 \/ y.pc + c <= y.next_label)
    BY <1>2, ChunkIs
<1>4. w = IF v.next_label = v.pc THEN NextLabel(v, v.pc) ELSE v
    <2>1. v = [Emit(y, i) EXCEPT !.pc = @ + c]
        BY <1>1 DEF Emit, Objects
    <2> HIDE DEF v
    <2> QED
        BY <2>1 DEF Spaced
<1> HIDE DEF c
<1>5. i \in ListingItem
    BY <1>2, <1>3 DEF ListingItem, Lines
<1>6. Append(y.listing, i) \in Seq(ListingItem)
    <2> HIDE DEF i
    <2> QED
        BY <1>1, <1>5, ObjectFields, AppendProperties
<1>7. y.pc + c \in Nat
    BY <1>2, <1>3
<1>8. i.kind = "ds" /\ i.size = c
    OBVIOUS
<1> HIDE DEF i
<1>9. v \in Objects
    BY <1>1, <1>6, <1>7 DEF Objects
<1>10. /\ v.listing = Append(y.listing, i) /\ v.pc = y.pc + c /\ v.bytes = << >>
       /\ v.section = y.section /\ v.sections = y.sections /\ v.size = y.size /\ v.code = y.code
       /\ v.flags = y.flags /\ v.next_label = y.next_label /\ v.symbols = y.symbols
    BY <1>1 DEF Objects
<1> HIDE DEF v
<1>11. MovedObject(y, v, i)
    BY <1>5, <1>8, <1>9, <1>10 DEF MovedObject
<1>12. Ready(v, f, m, L) /\ Goes(y, v)
    BY <1>11, Moved
<1>13. CASE v.next_label = v.pc
    <2>1. NextObject(v, v.pc, w)
        BY <1>1, <1>4, <1>7, <1>9, <1>10, <1>13, NextFields
    <2>2. Stands(w, f, m, L) /\ Goes(v, w) /\ Known(w) /\ Clear(w)
        BY <1>10, <1>12, <2>1, NextGoes DEF Ready
    <2>3. Goes(y, w) /\ w \in Objects /\ w.bytes = << >> /\ w.pc = y.pc + c
        BY <1>1, <1>10, <1>12, <2>1, <2>2, GoesOn DEF NextObject
    <2>4. Settled(w)
        <3>1. y.code = ~y.sections[y.section].data
            BY DEF Ready, Settled
        <3> QED
            BY <1>1, <2>2, <2>3, <3>1, EmptySettled
    <2> QED
        BY <1>3, <2>2, <2>3, <2>4 DEF Ready, c
<1>14. CASE v.next_label # v.pc
    <2>1. w = v
        BY <1>4, <1>14
    <2>2. v.next_label < 0 \/ v.pc < v.next_label
        BY <1>2, <1>3, <1>7, <1>10, <1>14
    <2>3. Clear(v)
        BY <1>1, <1>9, <1>10, <1>12, <2>2, ClearQuiet DEF Ready, Settled, Clear
    <2> QED
        BY <1>3, <1>10, <1>12, <2>1, <2>3 DEF c
<1> QED
    BY <1>13, <1>14

-----------------------------------------------------------------------------
(* From one section to another. *)

LEMMA Reentered ==
    ASSUME NEW y \in Objects, NEW n \in DOMAIN y.sections, NEW e \in SectionEntry
    PROVE  /\ [y.sections EXCEPT ![n] = e] \in SectionTables
           /\ DOMAIN [y.sections EXCEPT ![n] = e] = DOMAIN y.sections
           /\ \A k \in DOMAIN y.sections :
                  [y.sections EXCEPT ![n] = e][k] = IF k = n THEN e ELSE y.sections[k]
<1>1. PICK t \in 4 .. 255 : y.sections \in [0 .. t -> SectionEntry]
    BY SectionsAre
<1>2. n \in 0 .. t
    BY <1>1
<1> HIDE DEF SectionEntry
<1>3. [y.sections EXCEPT ![n] = e] \in [0 .. t -> SectionEntry]
    BY <1>1, <1>2
<1> QED
    BY <1>1, <1>3 DEF SectionTables

(* Nothing is in hand, every section has its address, and no label is      *)
(* waiting where the object is.                                            *)
Between(v, f, m, L) ==
    /\ v \in Objects /\ v.bytes = << >>
    /\ \A l \in L : l \in ObjectSymbol /\ l.section \in DOMAIN v.sections
    /\ Listed(v, f) /\ Unmixed(v) /\ Found(v, L) /\ Declared(v)
    /\ \A n \in DOMAIN v.sections : ~v.sections[n].ref_only => Come(v).at[n] = v.sections[n].pc
    /\ Come(v).bytes = Count(m) /\ m <= Len(f)
    /\ v.next_label < 0 \/ v.pc < v.next_label
    /\ \A l \in L : l \in Labels(v, l.section) =>
           ~(Come(v).section = l.section /\ Here(Come(v)) = l.offset)

NamedEntry(v, n) == [v.sections[n] EXCEPT !.processed = TRUE]
NamedObject(v, n, u) ==
    /\ u \in Objects /\ Heading(v, n) \in ListingItem
       /\ u.listing = Append(v.listing, Heading(v, n))
    /\ u.sections = [v.sections EXCEPT ![n] = NamedEntry(v, n)]
    /\ u.section = n /\ u.pc = v.sections[n].pc /\ u.bytes = << >> /\ u.size = v.size
       /\ u.code = v.code
    /\ u.flags = v.flags /\ u.next_label = v.next_label /\ u.symbols = v.symbols

LEMMA HeadingType ==
    ASSUME NEW v \in Objects, NEW n \in DOMAIN v.sections
    PROVE  /\ Heading(v, n) \in ListingItem /\ NamedEntry(v, n) \in SectionEntry
           /\ Append(v.listing, Heading(v, n)) \in Seq(ListingItem)
<1>1. v.sections[n] \in SectionEntry /\ n \in 0 .. 255
    BY EntryFields
<1> DEFINE p == IF v.sections[n].processed THEN {} ELSE v.sections[n].publics
           q == IF v.sections[n].processed THEN {} ELSE v.sections[n].equs
           line == Heading(v, n).line
           origin == Heading(v, n).origin
<1>2. p \in SUBSET ObjectSymbol /\ q \in SUBSET ObjectSymbol
    BY <1>1 DEF SectionEntry
<1>6. line \in {"section", "name", "blank"} /\ origin \in {0, v.sections[n].org}
    BY DEF Heading
<1>7. origin \in Nat
    BY <1>1, <1>6 DEF SectionEntry
<1>3. Heading(v, n) = [kind |-> "section", number |-> n, line |-> line, origin |-> origin,
                       publics |-> p, equs |-> q]
    BY DEF Heading
<1> HIDE DEF p, q, line, origin
<1>4. Heading(v, n) \in ListingItem
    BY <1>1, <1>2, <1>3, <1>6, <1>7 DEF ListingItem
<1>5. NamedEntry(v, n) \in SectionEntry
    BY <1>1 DEF SectionEntry, NamedEntry
<1> QED
    BY <1>4, <1>5, ObjectFields, AppendProperties

LEMMA NamedStands ==
    ASSUME NEW v, NEW f, NEW m, NEW L, Between(v, f, m, L), NEW n \in DOMAIN v.sections,
           NEW u, NamedObject(v, n, u)
    PROVE  Stands(u, f, m, L) /\ Come(u).at = Come(v).at
<1> DEFINE i == Heading(v, n)
<1>1. /\ v \in Objects /\ u \in Objects /\ v.bytes = << >>
      /\ Listed(v, f) /\ Unmixed(v) /\ Found(v, L) /\ Declared(v)
      /\ \A l \in L : l \in ObjectSymbol /\ l.section \in DOMAIN v.sections
    BY DEF Between, NamedObject
<1>2. v.sections[n] \in SectionEntry /\ NamedEntry(v, n) \in SectionEntry
    BY <1>1, EntryFields, HeadingType
<1>3. /\ DOMAIN u.sections = DOMAIN v.sections
      /\ \A k \in DOMAIN v.sections : u.sections[k] = IF k = n THEN NamedEntry(v, n)
         ELSE v.sections[k]
    BY <1>1, <1>2, Reentered DEF NamedObject
<1>4. \A k \in DOMAIN v.sections :
          /\ u.sections[k].org = v.sections[k].org /\ u.sections[k].data = v.sections[k].data
          /\ u.sections[k].ref_only = v.sections[k].ref_only /\ u.sections[k].pc = v.sections[k].pc
          /\ u.sections[k].publics = v.sections[k].publics
             /\ u.sections[k].equs = v.sections[k].equs
          /\ Labels(u, k) = Labels(v, k)
          /\ k # n => u.sections[k].processed = v.sections[k].processed
          /\ u.sections[k].valid = v.sections[k].valid
          /\ u.sections[k].offset = v.sections[k].offset
    BY <1>2, <1>3 DEF NamedEntry, SectionEntry, Labels
<1>5. u.sections[n].processed
    BY <1>2, <1>3 DEF NamedEntry, SectionEntry
<1>6. Printed(v, u, i)
    BY <1>1, <1>3, <1>4 DEF Printed, SameKinds, NamedObject
<1>7. i.kind = "section" /\ i.number = n
    BY DEF Heading
<1>8. Come(u) = [Come(v) EXCEPT !.section = n] /\ Come(v) \in AssemblerStates(DOMAIN v.sections)
    <2>1. Come(u) = Follows(Come(v), i) /\ Come(v) \in AssemblerStates(DOMAIN v.sections)
        BY <1>6, PrintedKnowing
    <2> HIDE DEF i
    <2>2. Follows(Come(v), i) = [Come(v) EXCEPT !.section = n]
        BY <1>7 DEF Follows, Lines
    <2> QED
        BY <2>1, <2>2
<1> HIDE DEF i
<1>9. Come(u).section = n /\ Come(u).at = Come(v).at /\ Come(u).bytes = Come(v).bytes
    BY <1>8 DEF AssemblerStates
<1>10. Listed(u, f)
    BY <1>1, <1>6, <1>7, ListedGrows DEF Lines
<1>11. Unmixed(u)
    BY <1>1, <1>3, <1>4 DEF Unmixed
<1>12. u.section = n /\ u.bytes = << >> /\ u.pc = v.sections[n].pc
    BY DEF NamedObject
<1>13. Sited(u)
    BY <1>3, <1>4, <1>9, <1>12 DEF Sited, Between
<1>14. Carried(u, f, m)
    <2>1. Come(v).bytes \in Seq(Nat)
        BY <1>8 DEF AssemblerStates
    <2>2. Come(v).bytes \o << >> = Come(v).bytes
        BY <2>1, ConcatEmptySeq
    <2> QED
        BY <1>9, <1>12, <2>2 DEF Carried, Between
<1>15. Found(u, L)
    <2> SUFFICES ASSUME Forward(u), NEW l \in L PROVE Traced(u, l)
        BY DEF Found
    <2>1. Forward(v) /\ Traced(v, l)
        <3>1. Forward(v)
            BY <1>6, ForwardBefore
        <3> QED
            BY <1>1, <3>1 DEF Found
    <2>2. l \in ObjectSymbol /\ l.section \in DOMAIN v.sections
          /\ Labels(u, l.section) = Labels(v, l.section)
        BY <1>1, <1>4
    <2>3. l \in Labels(v, l.section) => NoStop(v, l, i)
        BY DEF NoStop, Between
    <2>4. l \in Labels(v, l.section) => ~v.sections[l.section].ref_only
        BY <1>1, <2>2 DEF Unmixed
    <2> QED
        BY <1>6, <1>7, <2>1, <2>2, <2>3, <2>4, TraceGrows
<1>16. Declared(u)
    BY <1>1, <1>4, <1>5, <1>6, DeclaredGrows DEF i
<1>17. \A l \in L : l \in ObjectSymbol /\ l.section \in DOMAIN u.sections
    BY <1>1, <1>3
<1> QED
    BY <1>1, <1>3, <1>9, <1>10, <1>11, <1>12, <1>13, <1>14, <1>15, <1>16, <1>17 DEF Stands

Enter(v, n) ==
    LET y == [PrintSection(v, n) EXCEPT !.section = n]
        e == y.sections[n]
    IN  RecalcNextLabel(SetCode(SetPc(y, e.pc), ~e.data))
Enters(v, w, n) ==
    /\ w.symbols = v.symbols /\ DOMAIN w.sections = DOMAIN v.sections
    /\ \A k \in DOMAIN v.sections :
           /\ w.sections[k] = [v.sections[k] EXCEPT !.labels = Labels(w, k),
                                                    !.processed = w.sections[k].processed]
           /\ w.sections[k].processed = (v.sections[k].processed \/ k = n)
           /\ k # n => Labels(w, k) = Labels(v, k)
           /\ k # n => Come(w).at[k] = Come(v).at[k]

(* Without labels to look for, no more than the address is set.            *)
LEMMA SetsPc ==
    ASSUME NEW v, NEW f, NEW m, NEW L, Between(v, f, m, L), NEW n \in DOMAIN v.sections,
           NEW y, y = [PrintSection(v, n) EXCEPT !.section = n],
           NEW u, u = SetPc(y, y.sections[n].pc)
    PROVE  /\ NamedObject(v, n, u)
           /\ y.sections[n].data = v.sections[n].data
<1>1. v \in Objects /\ v.bytes = << >> /\ (v.next_label < 0 \/ v.pc < v.next_label)
    BY DEF Between
<1>2. /\ v.sections[n] \in SectionEntry /\ NamedEntry(v, n) \in SectionEntry /\ n \in 0 .. 255
      /\ Heading(v, n) \in ListingItem /\ Append(v.listing, Heading(v, n)) \in Seq(ListingItem)
    BY <1>1, EntryFields, HeadingType
<1> DEFINE t == [v.sections EXCEPT ![n] = NamedEntry(v, n)]
           a == Append(v.listing, Heading(v, n))
<1>3. t \in SectionTables /\ t[n] = NamedEntry(v, n)
    BY <1>1, <1>2, Reentered
<1>4. y = [v EXCEPT !.listing = a, !.sections = t, !.section = n]
    <2>1. PrintSection(v, n) = [v EXCEPT !.listing = a, !.sections = t]
        BY <1>1 DEF PrintSection, Emit, Objects, NamedEntry
    <2> HIDE DEF a, t
    <2> QED
        BY <1>1, <2>1 DEF Objects
<1> HIDE DEF a, t
<1>5. y.sections[n].pc = v.sections[n].pc /\ y.sections[n].data = v.sections[n].data
    <2>1. y.sections = t
        BY <1>1, <1>4 DEF Objects
    <2>2. NamedEntry(v, n).pc = v.sections[n].pc /\ NamedEntry(v, n).data = v.sections[n].data
        BY <1>2 DEF NamedEntry, SectionEntry
    <2> QED
        BY <1>3, <2>1, <2>2
<1>6. y.bytes = << >> /\ y.pc = v.pc /\ y.next_label = v.next_label
    BY <1>1, <1>4 DEF Objects
<1>7. Flush(y) = y
    <2>1. v.pc \in Int /\ v.next_label \in Int /\ v.pc + Len(v.bytes) = v.pc
        BY <1>1, NoBytes, ObjectFields
    <2> QED
        BY <1>1, <1>6, <2>1, QuietFlush
<1>8. u = [v EXCEPT !.listing = a, !.sections = t, !.section = n, !.pc = v.sections[n].pc]
    BY <1>1, <1>4, <1>5, <1>6, <1>7 DEF SetPc, Objects
<1>9. v.sections[n].pc \in Nat
    BY <1>2 DEF SectionEntry
<1>10. u \in Objects
    BY <1>1, <1>2, <1>3, <1>8, <1>9, ZenonT(40) DEF Objects, a
<1>11. /\ u.listing = a /\ u.sections = t /\ u.section = n /\ u.pc = v.sections[n].pc
       /\ u.bytes = v.bytes /\ u.size = v.size /\ u.code = v.code
       /\ u.flags = v.flags /\ u.next_label = v.next_label /\ u.symbols = v.symbols
    BY <1>1, <1>8 DEF Objects
<1> QED
    BY <1>1, <1>2, <1>5, <1>10, <1>11 DEF NamedObject, a, t

LEMMA SetsCode ==
    ASSUME NEW u, NEW f, NEW m, NEW L, Stands(u, f, m, L), u.bytes = << >>,
           NEW w, w = RecalcNextLabel(SetCode(u, ~u.sections[u.section].data))
    PROVE  /\ Ready(w, f, m, L) /\ w.bytes = << >> /\ w.pc = u.pc /\ w.section = u.section
           /\ w.size = u.size
           /\ Goes(u, [w EXCEPT !.code = u.code]) /\ Come(w) = Come([w EXCEPT !.code = u.code])
<1>1. u \in Objects /\ u.section \in DOMAIN u.sections
    BY DEF Stands
<1> DEFINE code == ~u.sections[u.section].data
           x == IF u.code = code THEN u ELSE Flush(u)
           y == [x EXCEPT !.code = code]
<1>20. code \in BOOLEAN
    OBVIOUS
<1>2. SetCode(u, code) = y
    BY <1>1 DEF SetCode, Objects
<1>3. Stands(x, f, m, L) /\ Goes(u, x) /\ x.bytes = << >> /\ x.pc = u.pc /\ x.size = u.size
    <2>1. CASE x = u
        BY <1>1, <2>1, GoesNowhere
    <2>2. CASE x # u
        <3>1. x = CheckLabels(u)
            BY <2>2 DEF Flush, Dump
        <3>2. x = NextLabel(Dump(u), Dump(u).pc) /\ Dump(u) = u
            BY <2>2, <3>1 DEF CheckLabels, Dump
        <3> HIDE DEF x
        <3>3. NextObject(u, u.pc, x)
            BY <1>1, <3>2, NextFields, ObjectFields
        <3>4. Stands(x, f, m, L) /\ Goes(u, x)
            BY <3>3, NextGoes
        <3> QED
            BY <3>3, <3>4 DEF NextObject
    <2> QED
        BY <2>1, <2>2
<1> HIDE DEF x
<1>4. x \in Objects /\ x.section = u.section
    BY <1>3 DEF Stands, Goes
<1>5. y \in Objects /\ Alike(x, y)
    BY <1>4, <1>20, ZenonT(40) DEF Objects, Alike
<1>6. y.code = code /\ y.flags = x.flags /\ y.size = x.size /\ y.bytes = x.bytes
    BY <1>4 DEF Objects
<1> HIDE DEF y
<1>7. Stands(y, f, m, L)
    BY <1>3, <1>5, AlikeStands
<1>8. y.section \in DOMAIN y.sections /\ y.bytes = << >>
    BY <1>3, <1>6, <1>7 DEF Stands
<1>9. NextObject(y, -1, w)
    BY <1>2, <1>5, <1>8, NextFields DEF RecalcNextLabel
<1>10. Stands(w, f, m, L) /\ Goes(y, w) /\ Known(w) /\ w \in Objects
    BY <1>7, <1>8, <1>9, NextGoes DEF Stands
<1>11. /\ w.bytes = << >> /\ w.pc = u.pc /\ w.section = u.section /\ w.size = u.size
       /\ w.code = code
    BY <1>3, <1>4, <1>5, <1>6, <1>9 DEF NextObject, Alike, Goes
<1> DEFINE c == [w EXCEPT !.code = u.code]
           b == [y EXCEPT !.code = u.code]
<1>12. c \in Objects /\ b \in Objects
    <2>1. u.code \in BOOLEAN
        BY <1>1, ObjectFields
    <2>2. \A a \in Objects : [a EXCEPT !.code = u.code] \in Objects
        BY <2>1 DEF Objects
    <2> QED
        BY <1>5, <1>10, <2>2
<1>13. /\ c.listing = w.listing /\ c.sections = w.sections /\ c.section = w.section
       /\ c.flags = w.flags /\ c.code = u.code /\ c.symbols = w.symbols
       /\ b.listing = y.listing /\ b.sections = y.sections /\ b.section = y.section
       /\ b.flags = y.flags /\ b.code = u.code /\ b.symbols = y.symbols
    BY <1>5, <1>10 DEF Objects
<1> HIDE DEF c, b
<1>14. Come(c) = Come(w) /\ Come(b) = Come(y) /\ Come(y) = Come(x)
    BY <1>5, <1>13, KnowingSame DEF Outset, Alike
<1>15. Goes(b, c)
    <2>1. \A n : Labels(c, n) = Labels(w, n) /\ Labels(b, n) = Labels(y, n)
        BY <1>13 DEF Labels
    <2>2. \A n \in DOMAIN b.sections : n # b.section => Come(c).at[n] = Come(b).at[n]
        BY <1>10, <1>13, <1>14, SMTT(30) DEF Goes
    <2>3. \A n \in DOMAIN b.sections :
              c.sections[n] = IF n = b.section THEN [b.sections[n] EXCEPT !.labels = Labels(c, n)]
                              ELSE b.sections[n]
        BY <1>10, <1>13, <2>1, SMTT(30) DEF Goes
    <2>4. c.section = b.section /\ DOMAIN c.sections = DOMAIN b.sections
          /\ Labels(c, b.section) \subseteq Labels(b, b.section) /\ c.symbols = b.symbols
        BY <1>10, <1>13, <2>1, SMTT(30) DEF Goes
    <2> QED
        BY <1>13, <2>2, <2>3, <2>4 DEF Goes
<1>16. Goes(u, b)
    BY <1>3, <1>5, <1>6, <1>13, <1>14 DEF Goes, Labels, Alike
<1>17. Goes(u, c)
    BY <1>1, <1>15, <1>16, GoesOn
<1>18. Settled(w)
    <2>1. SameKinds(u, c)
        BY <1>1, <1>17, GoesSameKinds
    <2>2. w.code = ~w.sections[w.section].data
        BY <1>1, <1>11, <1>13, <2>1 DEF SameKinds
    <2>3. Len(w.bytes) <= 3 /\ Len(w.bytes) <= w.size
        BY <1>10, <1>11, NoBytes, ObjectFields
    <2> QED
        BY <1>10, <1>11, <2>2, <2>3 DEF Settled, InHand
<1> QED
    BY <1>10, <1>11, <1>14, <1>17, <1>18 DEF Ready, c

LEMMA Entered ==
    ASSUME NEW v, NEW f, NEW m, NEW L, Between(v, f, m, L), NEW n \in DOMAIN v.sections,
           NEW w, w = Enter(v, n)
    PROVE  /\ Ready(w, f, m, L) /\ Enters(v, w, n)
           /\ w.section = n /\ w.bytes = << >> /\ w.pc = v.sections[n].pc
<1> DEFINE y == [PrintSection(v, n) EXCEPT !.section = n]
           u == SetPc(y, y.sections[n].pc)
<1>1. v \in Objects
    BY DEF Between
<1>2. w = RecalcNextLabel(SetCode(u, ~y.sections[n].data))
    BY DEF Enter
<1>3. NamedObject(v, n, u) /\ y.sections[n].data = v.sections[n].data
    BY SetsPc
<1> HIDE DEF u, y
<1>4. Stands(u, f, m, L) /\ Come(u).at = Come(v).at
    BY <1>3, NamedStands
<1>5. v.sections[n] \in SectionEntry /\ NamedEntry(v, n) \in SectionEntry
    BY <1>1, EntryFields, HeadingType
<1>6. /\ u.section = n /\ u.bytes = << >> /\ u.pc = v.sections[n].pc
      /\ DOMAIN u.sections = DOMAIN v.sections
      /\ \A k \in DOMAIN v.sections : u.sections[k] = IF k = n THEN NamedEntry(v, n)
         ELSE v.sections[k]
    BY <1>1, <1>3, <1>5, Reentered DEF NamedObject
<1>7. w = RecalcNextLabel(SetCode(u, ~u.sections[u.section].data))
    <2>1. u.sections[u.section].data = y.sections[n].data
        BY <1>3, <1>5, <1>6 DEF NamedEntry, SectionEntry
    <2> QED
        BY <1>2, <2>1
<1> DEFINE c == [w EXCEPT !.code = u.code]
<1>8. /\ Ready(w, f, m, L) /\ w.bytes = << >> /\ w.pc = u.pc /\ w.section = u.section
      /\ Goes(u, c) /\ Come(w) = Come(c)
    BY <1>4, <1>6, <1>7, SetsCode
<1>9. c.sections = w.sections /\ c.symbols = w.symbols
    BY <1>8 DEF Ready, Stands, Objects
<1> HIDE DEF c
<1>10. ASSUME NEW k \in DOMAIN v.sections
       PROVE  /\ w.sections[k] = [v.sections[k] EXCEPT !.labels = Labels(w, k),
                                                       !.processed = w.sections[k].processed]
              /\ w.sections[k].processed = (v.sections[k].processed \/ k = n)
              /\ k # n => Labels(w, k) = Labels(v, k)
              /\ k # n => Come(w).at[k] = Come(v).at[k]
    <2>1. v.sections[k] \in SectionEntry
        BY <1>1, EntryFields
    <2>2. w.sections[k] = IF k = n THEN [NamedEntry(v, n) EXCEPT !.labels = Labels(w, k)]
                          ELSE v.sections[k]
        BY <1>6, <1>8, <1>9, ZenonT(60) DEF Goes, Labels
    <2>3. k # n => Come(w).at[k] = Come(v).at[k]
        BY <1>4, <1>6, <1>8 DEF Goes
    <2>4. CASE k = n
        <3>1. w.sections[k] = [[v.sections[k] EXCEPT !.processed = TRUE]
                               EXCEPT !.labels = Labels(w, k)]
            BY <2>2, <2>4 DEF NamedEntry
        <3>2. w.sections[k].processed = TRUE
            BY <2>1, <3>1 DEF SectionEntry
        <3>3. w.sections[k] = [v.sections[k] EXCEPT !.labels = Labels(w, k), !.processed = TRUE]
            BY <2>1, <3>1 DEF SectionEntry
        <3> QED
            BY <2>4, <3>2, <3>3
    <2>5. CASE k # n
        <3>1. w.sections[k] = v.sections[k]
            BY <2>2, <2>5
        <3>2. w.sections[k] = [v.sections[k] EXCEPT !.labels = Labels(w, k),
                                                    !.processed = w.sections[k].processed]
            BY <2>1, <3>1 DEF SectionEntry, Labels
        <3>3. w.sections[k].processed = (v.sections[k].processed \/ k = n)
            BY <2>1, <2>5, <3>1 DEF SectionEntry
        <3> QED
            BY <2>3, <2>5, <3>1, <3>2, <3>3 DEF Labels
    <2> QED
        BY <2>4, <2>5
<1>11. DOMAIN w.sections = DOMAIN v.sections /\ w.symbols = v.symbols
    BY <1>3, <1>6, <1>8, <1>9 DEF Goes, NamedObject
<1> QED
    BY <1>6, <1>8, <1>10, <1>11 DEF Enters

Leaves(y, v) ==
    /\ v.section = y.section /\ v.symbols = y.symbols /\ DOMAIN v.sections = DOMAIN y.sections
    /\ \A k \in DOMAIN y.sections :
           /\ v.sections[k] = [y.sections[k] EXCEPT !.labels = Labels(v, k),
                               !.pc = v.sections[k].pc]
           /\ v.sections[k].pc = IF k = y.section THEN y.pc + Len(y.bytes) ELSE y.sections[k].pc
           /\ k # y.section => Labels(v, k) = Labels(y, k)
           /\ k # y.section => Come(v).at[k] = Come(y).at[k]

LEMMA LeftBetween ==
    ASSUME NEW y, NEW f, NEW m, NEW L, Ready(y, f, m, L), NEW v, v = Left(y)
    PROVE  Between(v, f, m, L) /\ Leaves(y, v)
<1> DEFINE d == Flush(y)
           s == y.section
           i == [kind |-> "ends"]
           e == [d.sections[s] EXCEPT !.pc = d.pc]
           t == [d.sections EXCEPT ![s] = e]
           a == Append(d.listing, i)
<1>1. /\ Ready(d, f, m, L) /\ Goes(y, d) /\ Clear(d) /\ d.bytes = << >>
         /\ d.pc = y.pc + Len(y.bytes)
    BY Flushed
<1>2. /\ y \in Objects /\ s \in DOMAIN y.sections /\ s \in 0 .. 255
      /\ d \in Objects /\ d.section = s /\ s \in DOMAIN d.sections
      /\ Listed(d, f) /\ Unmixed(d) /\ Sited(d) /\ Carried(d, f, m) /\ Found(d, L) /\ Declared(d)
         /\ Known(d)
      /\ \A l \in L : l \in ObjectSymbol /\ l.section \in DOMAIN d.sections
    <2>1. y \in Objects /\ s \in DOMAIN y.sections
        BY DEF Ready, Stands
    <2> HIDE DEF d
    <2>2. s \in 0 .. 255
        BY <2>1, EntryFields
    <2> QED
        BY <1>1, <2>1, <2>2 DEF Ready, Stands, Goes, Settled
<1>3. v = [d EXCEPT !.listing = a, !.sections = t]
    <2>1. v = Ends([d EXCEPT !.sections[s].pc = d.pc])
        <3>1. ~(s < 0) /\ d.section = s
            BY <1>2
        <3> QED
            BY <3>1 DEF Left
    <2> HIDE DEF d
    <2>2. [d EXCEPT !.sections[s].pc = d.pc] = [d EXCEPT !.sections = t]
        BY <1>2 DEF Objects
    <2> HIDE DEF t
    <2> QED
        BY <1>2, <2>1, <2>2 DEF Ends, Emit, Objects
<1> HIDE DEF d
<1>4. d.sections[s] \in SectionEntry /\ d.pc \in Nat
    BY <1>2, EntryFields, ObjectFields
<1>5. e \in SectionEntry /\ e.pc = d.pc
    BY <1>4 DEF SectionEntry
<1>6. \A x \in SectionEntry : [x EXCEPT !.pc = d.pc].labels = x.labels
    BY DEF SectionEntry
<1>7. /\ e.labels = d.sections[s].labels /\ e.processed = d.sections[s].processed
      /\ e.publics = d.sections[s].publics /\ e.equs = d.sections[s].equs
         /\ e.org = d.sections[s].org
      /\ e.data = d.sections[s].data /\ e.ref_only = d.sections[s].ref_only
      /\ e.valid = d.sections[s].valid /\ e.offset = d.sections[s].offset
    BY <1>4 DEF SectionEntry
<1> HIDE DEF e
<1>8. /\ t \in SectionTables /\ DOMAIN t = DOMAIN d.sections
      /\ \A k \in DOMAIN d.sections : t[k] = IF k = s THEN e ELSE d.sections[k]
    BY <1>2, <1>5, Reentered
<1>9. i \in ListingItem /\ i.kind = "ends"
    BY DEF ListingItem
<1> HIDE DEF i, t
<1>10. a \in Seq(ListingItem)
    BY <1>2, <1>9, ObjectFields, AppendProperties
<1>11. v \in Objects
    BY <1>2, <1>3, <1>8, <1>10, ZenonT(40) DEF Objects
<1>12. /\ v.listing = Append(d.listing, i) /\ v.sections = t /\ v.section = s /\ v.bytes = << >>
       /\ v.pc = d.pc /\ v.next_label = d.next_label /\ v.symbols = d.symbols
    BY <1>1, <1>2, <1>3 DEF Objects
<1>13. \A k \in DOMAIN d.sections :
          /\ v.sections[k].org = d.sections[k].org /\ v.sections[k].data = d.sections[k].data
          /\ v.sections[k].ref_only = d.sections[k].ref_only
          /\ v.sections[k].publics = d.sections[k].publics
             /\ v.sections[k].equs = d.sections[k].equs
          /\ Labels(v, k) = Labels(d, k)
          /\ v.sections[k].processed = d.sections[k].processed
          /\ v.sections[k].pc = IF k = s THEN d.pc ELSE d.sections[k].pc
          /\ v.sections[k].valid = d.sections[k].valid
          /\ v.sections[k].offset = d.sections[k].offset
    BY <1>5, <1>7, <1>8, <1>12 DEF Labels
<1>14. Printed(d, v, i)
    BY <1>2, <1>8, <1>9, <1>11, <1>12, <1>13 DEF Printed, SameKinds
<1>15. Come(v) = Come(d)
    <2>1. Come(v) = Follows(Come(d), i)
        BY <1>14, PrintedKnowing
    <2> QED
        BY <1>9, <2>1 DEF Follows, Lines
<1>16. Listed(v, f)
    BY <1>2, <1>9, <1>14, ListedGrows DEF Lines
<1>17. Unmixed(v)
    BY <1>2, <1>8, <1>12, <1>13 DEF Unmixed
<1>18. \A l \in Labels(d, s) : /\ l.section = s /\ Come(d).at[s] = d.pc /\ l.offset > d.pc
                               /\ l.offset \in Nat
    <2>1. \A l \in Labels(d, s) : l.offset \in Nat
        BY <1>4 DEF SectionEntry, Labels, ObjectSymbol
    <2> QED
        BY <1>1, <1>2, <2>1 DEF Clear, Unmixed, Sited
<1>19. \A l \in L : l \in Labels(d, l.section)
      => ~(Come(d).section = l.section /\ Here(Come(d)) = l.offset)
    <2> SUFFICES ASSUME NEW l \in L, l \in Labels(d, l.section), Come(d).section = l.section,
                        Here(Come(d)) = l.offset
                 PROVE  FALSE
        OBVIOUS
    <2>1. l.section = s
        BY <1>2 DEF Sited
    <2>2. l.offset = d.pc /\ l.offset > d.pc
        BY <1>18, <2>1 DEF Here
    <2> QED
        BY <1>4, <2>2
<1>20. Found(v, L)
    <2> SUFFICES ASSUME Forward(v), NEW l \in L PROVE Traced(v, l)
        BY DEF Found
    <2>1. Forward(d) /\ Traced(d, l)
        <3>1. Forward(d)
            BY <1>14, ForwardBefore
        <3> QED
            BY <1>2, <3>1 DEF Found
    <2>2. l \in ObjectSymbol /\ l.section \in DOMAIN d.sections
          /\ Labels(v, l.section) = Labels(d, l.section)
        BY <1>2, <1>13
    <2>3. l \in Labels(d, l.section) => NoStop(d, l, i)
        BY <1>19 DEF NoStop
    <2>4. l \in Labels(d, l.section) => ~d.sections[l.section].ref_only
        BY <1>2, <2>2 DEF Unmixed
    <2> QED
        BY <1>9, <1>14, <2>1, <2>2, <2>3, <2>4, TraceGrows
<1>21. Declared(v)
    BY <1>2, <1>9, <1>13, <1>14, DeclaredStays
<1>22. \A n \in DOMAIN v.sections : ~v.sections[n].ref_only => Come(v).at[n] = v.sections[n].pc
    BY <1>2, <1>8, <1>12, <1>13, <1>15 DEF Sited
<1>23. Come(v).bytes = Count(m) /\ m <= Len(f)
    <2>1. Come(d) \in AssemblerStates(DOMAIN d.sections)
        BY <1>2, ComesType
    <2>2. Come(d).bytes \in Seq(Nat)
        BY <2>1 DEF AssemblerStates
    <2>3. Come(d).bytes \o << >> = Come(d).bytes
        BY <2>2, ConcatEmptySeq
    <2> QED
        BY <1>1, <1>2, <1>15, <2>3 DEF Carried
<1>24. v.next_label < 0 \/ v.pc < v.next_label
    BY <1>1, <1>2, <1>12, ClearQuiet
<1>25. Between(v, f, m, L)
    BY <1>2, <1>8, <1>11, <1>12, <1>13, <1>15, <1>16, <1>17, <1>19, <1>20, <1>21, <1>22, <1>23,
        <1>24
       DEF Between
<1>26. ASSUME NEW k \in DOMAIN y.sections
       PROVE  /\ v.sections[k]
                 = [y.sections[k] EXCEPT !.labels = Labels(v, k), !.pc = v.sections[k].pc]
              /\ v.sections[k].pc = IF k = y.section THEN y.pc + Len(y.bytes) ELSE y.sections[k].pc
              /\ k # y.section => Labels(v, k) = Labels(y, k)
              /\ k # y.section => Come(v).at[k] = Come(y).at[k]
    <2>1. y.sections[k] \in SectionEntry /\ k \in DOMAIN d.sections
        BY <1>1, <1>2, EntryFields DEF Goes
    <2>2. CASE k = s
        <3>1. d.sections[k] = [y.sections[k] EXCEPT !.labels = Labels(d, k)]
            BY <1>1, <2>2 DEF Goes
        <3>2. v.sections[k] = [d.sections[k] EXCEPT !.pc = d.pc]
            BY <1>8, <1>12, <2>1, <2>2 DEF e
        <3>3. v.sections[k] = [y.sections[k] EXCEPT !.labels = Labels(d, k), !.pc = d.pc]
            BY <2>1, <3>1, <3>2 DEF SectionEntry
        <3> QED
            BY <1>1, <1>13, <2>1, <2>2, <3>3
    <2>3. CASE k # s
        <3>1. v.sections[k] = y.sections[k]
            BY <1>1, <1>8, <1>12, <2>1, <2>3 DEF Goes
        <3>2. y.sections[k] = [y.sections[k] EXCEPT !.labels = y.sections[k].labels,
                               !.pc = y.sections[k].pc]
            BY <2>1 DEF SectionEntry
        <3> QED
            BY <1>1, <1>15, <2>3, <3>1, <3>2 DEF Goes, Labels
    <2> QED
        BY <2>2, <2>3
<1> QED
    BY <1>1, <1>8, <1>12, <1>25, <1>26 DEF Leaves, Goes

(* From y to w, sections keep what the module says of them.                *)
Keeps(y, w) ==
    /\ w.symbols = y.symbols /\ DOMAIN w.sections = DOMAIN y.sections
    /\ \A k \in DOMAIN y.sections :
           /\ SameSection(w.sections[k], y.sections[k])
           /\ y.sections[k].processed => w.sections[k].processed
Apartness(y, w, E) ==
    \A k \in DOMAIN y.sections : k \notin E =>
        /\ Labels(w, k) = Labels(y, k) /\ Come(w).at[k] = Come(y).at[k]
        /\ w.sections[k].processed => y.sections[k].processed \/ y.sections[k].valid

LEMMA GoesKeeps ==
    ASSUME NEW y \in Objects, NEW w, Goes(y, w), NEW E, y.section \in E
    PROVE  Keeps(y, w) /\ Apartness(y, w, E)
<1>1. ASSUME NEW k \in DOMAIN y.sections
      PROVE  SameSection(w.sections[k], y.sections[k])
             /\ w.sections[k].processed = y.sections[k].processed
    <2>1. y.sections[k] \in SectionEntry
        BY EntryFields
    <2>2. CASE k = y.section
        <3>1. w.sections[k] = [y.sections[k] EXCEPT !.labels = Labels(w, k)]
            BY <2>2 DEF Goes
        <3> HIDE DEF Labels
        <3> QED
            BY <2>1, <3>1 DEF SectionEntry, SameSection
    <2>3. CASE k # y.section
        <3>1. w.sections[k] = y.sections[k]
            BY <2>3 DEF Goes
        <3> QED
            BY <2>1, <3>1 DEF SectionEntry, SameSection
    <2> QED
        BY <2>2, <2>3
<1>2. Apartness(y, w, E)
    BY GoesSameKinds DEF Apartness, Goes
<1> QED
    BY <1>1, <1>2 DEF Keeps, Goes

SetTo(y, w, f, m, L) ==
    /\ Ready(w, f, m, L) /\ Keeps(y, w) /\ Apartness(y, w, {y.section, w.section})
    /\ \A k \in DOMAIN y.sections : Place(w, k) = Place(y, k)
    /\ w.section = y.section \/ w.sections[w.section].processed

LEMMA SectionSet ==
    ASSUME NEW y, NEW f, NEW m, NEW L, Ready(y, f, m, L), NEW n, NEW w, w = SetSection(y, n)
    PROVE  SetTo(y, w, f, m, L)
<1> USE DEF SetTo
<1>1. y \in Objects /\ y.section \in DOMAIN y.sections
    BY DEF Ready, Stands
<1>2. CASE n = y.section \/ Invalid(y, n)
    <2>1. w = y
        BY <1>2 DEF SetSection
    <2>2. Keeps(y, w) /\ Apartness(y, w, {y.section, w.section})
        BY <1>1, <2>1, GoesNowhere, GoesKeeps
    <2> QED
        BY <2>1, <2>2
<1>3. CASE ~(n = y.section \/ Invalid(y, n))
    <2> DEFINE v == Left(y)
    <2>1. w = Enter(v, n)
        BY <1>3 DEF SetSection, Enter
    <2>2. Between(v, f, m, L) /\ Leaves(y, v)
        BY LeftBetween
    <2> HIDE DEF v
    <2>3. n \in DOMAIN v.sections /\ n # y.section
        BY <1>3, <2>2 DEF Invalid, Leaves
    <2>4. Ready(w, f, m, L) /\ Enters(v, w, n) /\ w.section = n /\ w.bytes = << >>
          /\ w.pc = v.sections[n].pc
        BY <2>1, <2>2, <2>3, Entered
    <2>5. v \in Objects /\ w \in Objects
        BY <2>2, <2>4 DEF Between, Ready, Stands
    <2>6. ASSUME NEW k \in DOMAIN y.sections
          PROVE  /\ SameSection(w.sections[k], y.sections[k])
                 /\ y.sections[k].processed => w.sections[k].processed
                 /\ Place(w, k) = Place(y, k)
                 /\ k \notin {y.section, w.section} =>
                        /\ Labels(w, k) = Labels(y, k) /\ Come(w).at[k] = Come(y).at[k]
                        /\ w.sections[k].processed => y.sections[k].processed
        <3>1. y.sections[k] \in SectionEntry /\ k \in DOMAIN v.sections
            BY <1>1, <2>2, EntryFields DEF Leaves
        <3>2. v.sections[k] \in SectionEntry /\ v.sections[k].pc \in Nat
            BY <2>5, <3>1, EntryFields DEF SectionEntry
        <3>3. /\ v.sections[k]
                 = [y.sections[k] EXCEPT !.labels = Labels(v, k), !.pc = v.sections[k].pc]
              /\ v.sections[k].pc = IF k = y.section THEN y.pc + Len(y.bytes) ELSE y.sections[k].pc
            BY <2>2 DEF Leaves
        <3>4. /\ w.sections[k] = [v.sections[k] EXCEPT !.labels = Labels(w, k),
                                                       !.processed = w.sections[k].processed]
              /\ w.sections[k].processed = (v.sections[k].processed \/ k = n)
            BY <2>4, <3>1 DEF Enters
        <3>5. /\ w.sections[k]
                 = [y.sections[k] EXCEPT !.labels = Labels(w, k), !.pc = v.sections[k].pc,
                                                       !.processed = w.sections[k].processed]
              /\ v.sections[k].processed = y.sections[k].processed
            BY <3>1, <3>3, <3>4, ZenonT(60) DEF SectionEntry
        <3>6. SameSection(w.sections[k], y.sections[k]) /\ w.sections[k].pc = v.sections[k].pc
            BY <3>1, <3>5 DEF SameSection, SectionEntry, Labels
        <3>7. Place(w, k) = Place(y, k)
            <4>1. w.pc + Len(w.bytes) = w.pc
                BY <2>4, <2>5, NoBytes
            <4> QED
                BY <2>4, <3>3, <3>6, <4>1 DEF Place
        <3>8. k \notin {y.section, n}
              => Labels(w, k) = Labels(y, k) /\ Come(w).at[k] = Come(y).at[k]
            <4> SUFFICES ASSUME k # y.section, k # n
                         PROVE  Labels(w, k) = Labels(y, k) /\ Come(w).at[k] = Come(y).at[k]
                OBVIOUS
            <4>1. Labels(v, k) = Labels(y, k) /\ Come(v).at[k] = Come(y).at[k]
                BY <2>2 DEF Leaves
            <4>2. Labels(w, k) = Labels(v, k) /\ Come(w).at[k] = Come(v).at[k]
                BY <2>4, <3>1 DEF Enters
            <4> QED
                BY <4>1, <4>2
        <3> QED
            BY <2>4, <3>4, <3>5, <3>6, <3>7, <3>8
    <2>7. DOMAIN w.sections = DOMAIN y.sections /\ w.sections[w.section].processed
          /\ w.symbols = y.symbols
        BY <2>2, <2>3, <2>4 DEF Leaves, Enters
    <2> QED
        BY <2>4, <2>6, <2>7 DEF Keeps, Apartness
<1> QED
    BY <1>2, <1>3

-----------------------------------------------------------------------------
(* What a module says of its sections.                                     *)

LEMMA GreatestOf ==
    ASSUME NEW N \in Nat, NEW S, S \subseteq 0 .. N, S # {}
    PROVE  \E m \in S : \A n \in S : n <= m
<1> DEFINE T == {N - n : n \in S}
<1>0. \A n \in S : N - n \in Nat
    <2>1. \A n \in 0 .. N : N - n \in Nat
        OBVIOUS
    <2> QED
        BY <2>1
<1>1. T \subseteq Nat /\ T # {}
    BY <1>0
<1>2. \A t \in T : N - t \in S
    OBVIOUS
<1>3. \A n \in S : N - n \in T
    OBVIOUS
<1> HIDE DEF T
<1>4. PICK x \in T : \A t \in T : x <= t
    BY <1>1, LeastOf
<1>5. ASSUME NEW n \in S PROVE n <= N - x
    <2>1. n \in Nat /\ x \in Nat /\ x <= N - n
        BY <1>1, <1>3, <1>4
    <2> QED
        BY <2>1
<1> QED
    BY <1>2, <1>4, <1>5

LEMMA EntryType ==
    ASSUME NEW mod, IsModule(mod), NEW n \in 0 .. 255
    PROVE  /\ Entry(mod, n) \in SectionEntry
           /\ Entry(mod, n).pc = Entry(mod, n).org /\ Entry(mod, n).processed = FALSE
           /\ Entry(mod, n).labels = IF n \in DOMAIN mod.sections THEN ModuleLabels(mod, n) ELSE {}
           /\ Entry(mod, n).valid = (n \in DOMAIN mod.sections)
           /\ Entry(mod, n).equs = {k \in mod.symbols : k.kind = "equ" /\ k.section = n}
           /\ Entry(mod, n).publics = {k \in mod.symbols : k.global /\ k.section = n}
           /\ Entry(mod, n).offset => Entry(mod, n).valid
           /\ n \in DOMAIN mod.sections =>
                  /\ Entry(mod, n).ref_only = mod.sections[n].ref_only
                  /\ Entry(mod, n).data = mod.sections[n].data
                  /\ Entry(mod, n).org = mod.sections[n].org
                  /\ Entry(mod, n).size = mod.sections[n].size
<1>1. n \in DOMAIN mod.sections => mod.sections[n] \in ObjectSection
    BY DEF IsModule
<1>2. mod.symbols \subseteq ObjectSymbol
    BY DEF IsModule
<1> DEFINE a == {k \in {k \in mod.symbols : k.section = n} : IsLabel(k)}
           b == {k \in {k \in mod.symbols : k.section = n} : k.kind = "equ"}
           b1 == {k \in mod.symbols : k.kind = "equ" /\ k.section = n}
           c == {k \in {k \in mod.symbols : k.section = n} : k.global}
           c1 == {k \in mod.symbols : k.global /\ k.section = n}
           e == Entry(mod, n)
           named == n < 5 \/ (n \in DOMAIN mod.sections /\ mod.sections[n].named)
           offset == n \in DOMAIN mod.sections /\ mod.sections[n].offset
<1>3. a \in SUBSET ObjectSymbol /\ b \in SUBSET ObjectSymbol /\ c \in SUBSET ObjectSymbol
      /\ {} \in SUBSET ObjectSymbol
    BY <1>2
<1>4. ModuleLabels(mod, n) = a /\ b = b1 /\ c = c1
    BY DEF ModuleLabels
<1>7. named \in BOOLEAN /\ offset \in BOOLEAN /\ (offset => n \in DOMAIN mod.sections)
    BY <1>1 DEF ObjectSection
<1>5. CASE n \in DOMAIN mod.sections
    <2> DEFINE s == mod.sections[n]
    <2>1. s.size \in Nat /\ s.org \in Nat /\ s.ref_only \in BOOLEAN /\ s.data \in BOOLEAN
        BY <1>1, <1>5 DEF ObjectSection
    <2>2. e = [valid |-> TRUE, processed |-> FALSE, named |-> named, offset |-> offset,
               data |-> s.data, ref_only |-> s.ref_only,
               size |-> s.size, org |-> s.org, pc |-> s.org, labels |-> a, equs |-> b,
                   publics |-> c]
        BY <1>5, <2>1 DEF Entry
    <2> HIDE DEF s, a, b, b1, c, c1, e, named, offset
    <2>3. e \in SectionEntry
        BY <1>3, <1>7, <2>1, <2>2 DEF SectionEntry
    <2>4. e.pc = e.org /\ e.processed = FALSE /\ e.labels = a /\ e.valid = TRUE /\ e.equs = b
          /\ e.publics = c /\ (e.offset => e.valid)
        BY <2>2
    <2>5. e.ref_only = s.ref_only /\ e.data = s.data /\ e.org = s.org /\ e.size = s.size
        BY <2>2
    <2>6. (n \in DOMAIN mod.sections) = TRUE
        BY <1>5
    <2> QED
        BY <1>4, <1>5, <2>3, <2>4, <2>5, <2>6 DEF s, b1, c1, e
<1>6. CASE n \notin DOMAIN mod.sections
    <2>1. /\ (n \in DOMAIN mod.sections) = FALSE
          /\ (n \in DOMAIN mod.sections /\ mod.sections[n].data) = FALSE
          /\ (n \in DOMAIN mod.sections /\ mod.sections[n].ref_only) = FALSE
          /\ offset = FALSE
        BY <1>6
    <2>2. e = [valid |-> FALSE, processed |-> FALSE, named |-> named, offset |-> FALSE,
               data |-> FALSE, ref_only |-> FALSE,
               size |-> 0, org |-> 0, pc |-> 0, labels |-> {}, equs |-> b, publics |-> c]
        BY <1>6, <2>1 DEF Entry
    <2> HIDE DEF a, b, b1, c, c1, e, named, offset
    <2>3. e \in SectionEntry
        BY <1>3, <1>7, <2>2 DEF SectionEntry
    <2>4. e.pc = e.org /\ e.processed = FALSE /\ e.labels = {} /\ e.valid = FALSE /\ e.equs = b
          /\ e.publics = c /\ (e.offset => e.valid)
        BY <2>2
    <2> QED
        BY <1>4, <1>6, <2>1, <2>3, <2>4 DEF b1, c1, e
<1> QED
    BY <1>5, <1>6

LEMMA ConstructedType ==
    ASSUME NEW mod, IsModule(mod), NEW y, y = Constructed(mod)
    PROVE  /\ y \in Objects /\ y.bytes = << >> /\ y.size = 0 /\ y.pc = 0 /\ y.code = TRUE
           /\ y.next_label = -1 /\ y.section = -1 /\ y.listing = << >>
           /\ y.symbols = mod.symbols
           /\ \E t \in 4 .. 255 : DOMAIN y.sections = 0 .. t
           /\ DOMAIN mod.sections \subseteq DOMAIN y.sections
           /\ \A n \in DOMAIN y.sections : n \in 0 .. 255 /\ y.sections[n] = Entry(mod, n)
<1> DEFINE D == DOMAIN mod.sections \cup {4}
           top == CHOOSE m \in D : \A n \in D : n <= m
           t == [n \in 0 .. top |-> Entry(mod, n)]
<1>1. D \subseteq 0 .. 255 /\ D # {}
    <2>1. DOMAIN mod.sections \subseteq 0 .. 255
        BY DEF IsModule
    <2> QED
        BY <2>1
<1>2. top \in D /\ \A n \in D : n <= top
    <2> HIDE DEF D
    <2>1. \E m \in D : \A n \in D : n <= m
        BY <1>1, GreatestOf, ZenonT(60)
    <2> QED
        BY <2>1
<1>3. top \in 4 .. 255 /\ \A n \in DOMAIN mod.sections : n \in 0 .. top
    <2> HIDE DEF top
    <2>1. top \in 0 .. 255 /\ 4 <= top
        BY <1>1, <1>2
    <2>2. \A n \in DOMAIN mod.sections : n \in 0 .. 255 /\ n <= top
        BY <1>1, <1>2
    <2> QED
        BY <2>1, <2>2
<1>4. y = [bytes |-> << >>, size |-> 0, pc |-> 0, code |-> TRUE, flags |-> {"m", "x"},
           next_label |-> -1, section |-> -1, listing |-> << >>, symbols |-> mod.symbols,
           sections |-> t]
    BY DEF Constructed
<1> HIDE DEF top
<1>5. \A n \in 0 .. top : n \in 0 .. 255 /\ Entry(mod, n) \in SectionEntry
    <2>1. \A n \in 0 .. top : n \in 0 .. 255
        BY <1>3
    <2> QED
        BY <2>1, EntryType
<1>6. t \in [0 .. top -> SectionEntry]
    BY <1>5
<1>7. t \in SectionTables
    BY <1>3, <1>6 DEF SectionTables
<1>8. DOMAIN t = 0 .. top /\ \A n \in 0 .. top : t[n] = Entry(mod, n)
    OBVIOUS
<1> HIDE DEF t
<1>9. y \in Objects
    <2>1. << >> \in Seq(Nat) /\ << >> \in Seq(ListingItem) /\ mod.symbols \subseteq ObjectSymbol
        BY EmptySeq DEF IsModule
    <2> QED
        BY <1>4, <1>7, <2>1 DEF Objects
<1>10. /\ y.bytes = << >> /\ y.size = 0 /\ y.pc = 0 /\ y.code = TRUE
       /\ y.next_label = -1 /\ y.section = -1 /\ y.listing = << >> /\ y.sections = t
       /\ y.symbols = mod.symbols
    BY <1>4
<1>11. DOMAIN mod.sections \subseteq 0 .. top
    BY <1>3
<1> QED
    BY <1>3, <1>5, <1>8, <1>9, <1>10, <1>11

LEMMA KeepsKept ==
    ASSUME NEW y \in Objects, NEW w, Keeps(y, w), NEW mod, IsModule(mod), Kept(y, mod)
    PROVE  Kept(w, mod) /\ AllLabels(w, mod) = AllLabels(y, mod)
<1>1. ASSUME NEW k \in DOMAIN y.sections
      PROVE  /\ SameSection(w.sections[k], Entry(mod, k))
             /\ w.sections[k].ref_only = y.sections[k].ref_only
                /\ w.sections[k].org = y.sections[k].org
    <2>1. y.sections[k] \in SectionEntry
        BY EntryFields
    <2>2. SameSection(w.sections[k], y.sections[k]) /\ SameSection(y.sections[k], Entry(mod, k))
        BY DEF Keeps, Kept
    <2> DEFINE e == Entry(mod, k)
               d == y.sections[k]
               g == w.sections[k]
    <2> HIDE DEF e, d, g
    <2>3. /\ g = [d EXCEPT !.labels = g.labels, !.processed = g.processed, !.pc = g.pc]
          /\ d = [e EXCEPT !.labels = d.labels, !.processed = d.processed, !.pc = d.pc]
        BY <2>2 DEF SameSection, e, d, g
    <2>4. d \in SectionEntry
        BY <2>1 DEF d
    <2>5. g = [e EXCEPT !.labels = g.labels, !.processed = g.processed, !.pc = g.pc]
        BY <2>3, <2>4 DEF SectionEntry
    <2>6. g.ref_only = d.ref_only /\ g.org = d.org
        BY <2>3, <2>4 DEF SectionEntry
    <2> QED
        BY <2>5, <2>6 DEF SameSection, e, d, g
<1>2. Kept(w, mod)
    BY <1>1 DEF Kept, Keeps
<1>3. \A l : l \in AllLabels(w, mod) <=> l \in AllLabels(y, mod)
    <2> SUFFICES ASSUME NEW l, l.section \in DOMAIN mod.sections
                 PROVE  w.sections[l.section].ref_only /\ l.offset < w.sections[l.section].org
                        <=> y.sections[l.section].ref_only /\ l.offset < y.sections[l.section].org
        BY DEF AllLabels
    <2>1. l.section \in DOMAIN y.sections
        BY ConstructedType, ZenonT(60) DEF Kept
    <2> QED
        BY <1>1, <2>1
<1> QED
    BY <1>2, <1>3

LEMMA DeclaredTitled ==
    ASSUME NEW y, Declared(y)
    PROVE  Titled(y)
<1>1. ASSUME NEW n \in DOMAIN y.sections, HeadingsOf(y, n) # {}
      PROVE  \E k \in HeadingsOf(y, n) : Titles(y, n, k)
    <2>1. PICK k \in HeadingsOf(y, n) :
              Declares(y, k) /\ \A j \in HeadingsOf(y, n) \ {k} : k < j /\ Silent(y, j)
        BY <1>1 DEF Declared
    <2>2. y.listing[k].number = n
        BY DEF HeadingsOf
    <2> QED
        BY <2>1, <2>2 DEF Titles, Declares, Silent
<1> QED
    BY <1>1 DEF Titled, Declared

LEMMA NothingTitled ==
    ASSUME NEW y, y.listing = << >>, \A n \in DOMAIN y.sections : ~y.sections[n].processed
    PROVE  Titled(y)
<1>1. DOMAIN y.listing = {}
    OBVIOUS
<1> QED
    BY <1>1 DEF Titled, HeadingsOf

LEMMA ReadyLasts ==
    ASSUME NEW y, NEW f \in Seq(Places), NEW L, Ready(y, f, Len(f), L), NEW mod, Kept(y, mod),
           NEW E, E \subseteq DOMAIN y.sections, NEW h, NEW p \in Nat, Homes(y, h, p)
    PROVE  Lasts(y, f, h, mod, E, p)
<1>1. /\ y \in Objects /\ y.section \in DOMAIN y.sections /\ Listed(y, f) /\ Carried(y, f, Len(f))
      /\ Sited(y) /\ Known(y) /\ InHand(y) /\ Titled(y)
    BY DeclaredTitled DEF Ready, Stands, Settled
<1>2. ASSUME NEW n \in DOMAIN y.sections, ~y.sections[n].ref_only
      PROVE  h[n] = Come(y).at[n] + IF n = y.section THEN Len(y.bytes) + p ELSE 0
    <2>1. h[n] = Place(y, n) + IF n = y.section THEN p ELSE 0
        BY DEF Homes
    <2>2. Come(y).at[n] = IF n = y.section THEN y.pc ELSE y.sections[n].pc
        BY <1>1, <1>2 DEF Sited
    <2>3. y.pc \in Nat /\ Len(y.bytes) \in Nat /\ y.sections[n].pc \in Nat
        BY <1>1, ObjectFields, LenProperties, EntryFields DEF SectionEntry
    <2> QED
        BY <2>1, <2>2, <2>3 DEF Place
<1>3. y.section # -1
    <2>1. y.section \in 0 .. 255
        BY <1>1, EntryFields
    <2>2. \A k \in 0 .. 255 : k # -1
        OBVIOUS
    <2> QED
        BY <2>1, <2>2
<1> QED
    BY <1>1, <1>2, <1>3 DEF Lasts

LEMMA ApartStays ==
    ASSUME NEW y \in Objects, NEW w, Keeps(y, w), NEW mod, IsModule(mod), Kept(y, mod),
           NEW E, NEW F, E \subseteq F, Apart(y, mod, E), Apartness(y, w, F),
           \A k \in F : k \in E \/ w.sections[k].processed
    PROVE  Apart(w, mod, F)
<1>6. ASSUME NEW n \in DOMAIN w.sections \ DOMAIN mod.sections
      PROVE  n \in F <=> w.sections[n].processed
    <2>1. n \in DOMAIN y.sections /\ (y.sections[n].processed => w.sections[n].processed)
          /\ (n \in E <=> y.sections[n].processed)
        BY <1>6 DEF Keeps, Apart
    <2>2. ~y.sections[n].valid
        <3> DEFINE d == y.sections[n]
                   g == Entry(mod, n)
        <3>1. n \in 0 .. 255 /\ d \in SectionEntry
            BY <2>1, EntryFields
        <3>5. (n \in DOMAIN mod.sections) = FALSE
            BY <1>6
        <3>6. g \in SectionEntry /\ g.valid = (n \in DOMAIN mod.sections)
            BY <3>1, EntryType
        <3>2. g \in SectionEntry /\ g.valid = FALSE
            BY <3>5, <3>6
        <3>3. d = [g EXCEPT !.labels = d.labels, !.processed = d.processed, !.pc = d.pc]
            BY <2>1 DEF Kept, SameSection
        <3> HIDE DEF d, g
        <3>4. d.valid = FALSE
            BY <3>2, <3>3 DEF SectionEntry
        <3> QED
            BY <3>4 DEF d
    <2>3. n \notin F => (w.sections[n].processed => y.sections[n].processed)
        BY <2>1, <2>2 DEF Apartness
    <2> QED
        BY <2>1, <2>3
<1> SUFFICES ASSUME NEW n \in DOMAIN mod.sections
             PROVE  IF n \in F THEN w.sections[n].processed
                    ELSE IF w.sections[n].ref_only THEN w.sections[n].org = 0 => IsEnd(w, mod, n)
                    ELSE Labels(w, n) = ModuleLabels(mod, n)
    BY <1>6 DEF Apart
<1>1. n \in DOMAIN y.sections
    BY ConstructedType, ZenonT(60) DEF Kept
<1>2. y.sections[n] \in SectionEntry
    BY <1>1, EntryFields
<1>3. CASE n \in E
    <2>1. y.sections[n].processed
        BY <1>3 DEF Apart
    <2> QED
        BY <1>1, <1>3, <2>1 DEF Keeps
<1>4. CASE n \in F /\ n \notin E
    BY <1>4
<1>5. CASE n \notin F
    <2>1. w.sections[n].ref_only = y.sections[n].ref_only /\ w.sections[n].org = y.sections[n].org
        <3> DEFINE d == y.sections[n]
                   g == w.sections[n]
        <3>1. g = [d EXCEPT !.labels = g.labels, !.processed = g.processed, !.pc = g.pc]
            BY <1>1 DEF Keeps, SameSection
        <3>2. d \in SectionEntry
            BY <1>2
        <3> HIDE DEF d, g
        <3>3. g.ref_only = d.ref_only /\ g.org = d.org
            BY <3>1, <3>2 DEF SectionEntry
        <3> QED
            BY <3>3 DEF d, g
    <2>2. Labels(w, n) = Labels(y, n) /\ Come(w).at[n] = Come(y).at[n]
        BY <1>1, <1>5 DEF Apartness
    <2>3. IF y.sections[n].ref_only THEN y.sections[n].org = 0 => IsEnd(y, mod, n)
          ELSE Labels(y, n) = ModuleLabels(mod, n)
        BY <1>5 DEF Apart
    <2> QED
        BY <1>5, <2>1, <2>2, <2>3 DEF IsEnd
<1> QED
    BY <1>3, <1>4, <1>5

-----------------------------------------------------------------------------
(* The steps of a module's records. *)

Live == phase \in {"records", "space"}

LEMMA LiveFacts ==
    ASSUME ListingInv, Live
    PROVE  /\ z \in Objects /\ z.section \in DOMAIN z.sections
              /\ Ready(z, fed, Len(fed), AllLabels(z, module))
           /\ fed \in Seq(Places) /\ IsModule(module) /\ Kept(z, module)
              /\ Apart(z, module, entered)
           /\ z.section \in entered /\ entered \subseteq DOMAIN z.sections
           /\ home \in [DOMAIN z.sections -> Nat] /\ Homes(z, home, Pending)
           /\ phase = "space" => z.bytes = << >> /\ Clear(z)
BY DEF ListingInv, LiveInv, HomeInv, AlwaysInv, InputInv, Live, Ready, Stands, Lasts

LEMMA LiveStep ==
    ASSUME ListingInv, Live, Live', module' = module, InputInv',
           Ready(z', fed', Len(fed'), AllLabels(z, module)), fed' \in Seq(Places),
           Keeps(z, z'), Apartness(z, z', entered'), entered \subseteq entered',
           \A k \in entered' : k \in entered \/ z'.sections[k].processed,
           z'.section \in entered', entered' \subseteq DOMAIN z.sections,
           home' \in [DOMAIN z.sections -> Nat], Homes(z', home', Pending'), Pending' \in Nat,
           phase' = "space" => z'.bytes = << >> /\ Clear(z')
    PROVE  ListingInv'
<1>1. z \in Objects /\ IsModule(module) /\ Kept(z, module) /\ Apart(z, module, entered)
    BY LiveFacts
<1>2. Kept(z', module') /\ AllLabels(z', module') = AllLabels(z, module)
    <2>1. Kept(z', module) /\ AllLabels(z', module) = AllLabels(z, module)
        BY <1>1, KeepsKept
    <2> QED
        BY <2>1
<1>3. Apart(z', module', entered')
    BY <1>1, ApartStays
<1>4. DOMAIN z'.sections = DOMAIN z.sections
    BY DEF Keeps
<1>5. Lasts(z', fed', home', module', entered', Pending')
    BY <1>2, <1>4, ReadyLasts
<1>6. HomeInv'
    BY <1>4 DEF HomeInv
<1>7. LiveInv'
    BY <1>2, <1>3 DEF LiveInv, Ready
<1>8. OverInv'
    BY DEF OverInv, Live
<1>9. AlwaysInv'
    BY <1>3, <1>5 DEF AlwaysInv, Live
<1> QED
    BY <1>6, <1>7, <1>8, <1>9 DEF ListingInv

(* A step that stays in its section.                                       *)
LEMMA StayStep ==
    ASSUME ListingInv, Live, Live', module' = module, InputInv', entered' = entered,
           Ready(z', fed', Len(fed'), AllLabels(z, module)), fed' \in Seq(Places), Goes(z, z'),
           home' \in [DOMAIN z.sections -> Nat], Pending' \in Nat,
           home'[z.section] = z'.pc + Len(z'.bytes) + Pending',
           \A n \in DOMAIN z.sections : n # z.section => home'[n] = home[n],
           phase' = "space" => z'.bytes = << >> /\ Clear(z')
    PROVE  ListingInv'
<1>1. /\ z \in Objects /\ z.section \in DOMAIN z.sections /\ z.section \in entered
      /\ entered \subseteq DOMAIN z.sections /\ Homes(z, home, Pending)
    BY LiveFacts
<1>2. Keeps(z, z') /\ Apartness(z, z', entered')
    BY <1>1, GoesKeeps
<1>3. z'.section = z.section /\ DOMAIN z'.sections = DOMAIN z.sections
    BY DEF Goes
<1>4. \A n \in DOMAIN z.sections : n # z.section => z'.sections[n].pc = z.sections[n].pc
    BY <1>1 DEF Goes
<1>5. ASSUME NEW n \in DOMAIN z'.sections
      PROVE  home'[n] = Place(z', n) + IF n = z'.section THEN Pending' ELSE 0
    <2>1. CASE n = z.section
        BY <1>3, <2>1 DEF Place
    <2>2. CASE n # z.section
        <3>1. home[n] = z.sections[n].pc + 0
            BY <1>1, <1>3, <2>2 DEF Homes, Place
        <3> QED
            BY <1>3, <1>4, <2>2, <3>1 DEF Place
    <2> QED
        BY <2>1, <2>2
<1>6. Homes(z', home', Pending')
    BY <1>5 DEF Homes
<1> QED
    BY <1>1, <1>2, <1>3, <1>6, LiveStep

LEMMA RecordFacts ==
    ASSUME ListingInv, phase = "records", next \in DOMAIN module.records
    PROVE  /\ Live /\ Record \in ObjectRecord /\ Pending = 0 /\ next \in Nat
           /\ next + 1 \in 1 .. Len(module.records) + 1
           /\ Record.kind # "DATA" => rest = 0
           /\ home[z.section] = z.pc + Len(z.bytes) /\ home[z.section] \in Nat
           /\ z.section \in DOMAIN home
<1>1. IsModule(module) /\ z.section \in DOMAIN z.sections /\ Homes(z, home, Pending)
    BY LiveFacts DEF Live
<1>2. module.records \in Seq(ObjectRecord)
    BY <1>1 DEF IsModule
<1>3. Record \in ObjectRecord /\ next \in 1 .. Len(module.records) /\ Len(module.records) \in Nat
    BY <1>2, LenProperties DEF Record
<1>4. Record.kind # "DATA" => rest = 0
    BY DEF ListingInv, InputInv, At
<1>5. home[z.section] = z.pc + Len(z.bytes) + 0
    BY <1>1 DEF Homes, Place, Pending
<1>6. home \in [DOMAIN z.sections -> Nat]
    BY LiveFacts DEF Live
<1>7. z.pc \in Nat /\ Len(z.bytes) \in Nat
    BY LiveFacts, ObjectFields, LenProperties DEF Live
<1> QED
    BY <1>1, <1>3, <1>4, <1>5, <1>6, <1>7 DEF Live, Pending

(* The next record is at hand.                                             *)
LEMMA AdvanceInput ==
    ASSUME ListingInv, phase = "records", next \in DOMAIN module.records, Record.kind # "DATA",
           Advance
    PROVE  InputInv' /\ Live' /\ module' = module /\ Pending' = 0 /\ phase' = "records"
<1>1. next + 1 \in 1 .. Len(module.records) + 1 /\ rest = 0
    BY RecordFacts
<1> QED
    BY <1>1 DEF ListingInv, InputInv, Advance, Live, Pending, inputs

LEMMA DataByteStep ==
    ASSUME ListingInv, DataByte
    PROVE  ListingInv'
<1>1. phase = "records" /\ next \in DOMAIN module.records /\ Record.kind = "DATA"
    BY DEF DataByte, At
<1>2. /\ Live /\ Record \in ObjectRecord /\ Pending = 0 /\ next + 1 \in 1 .. Len(module.records) + 1
      /\ home[z.section] = z.pc + Len(z.bytes) /\ home[z.section] \in Nat
      /\ z.section \in DOMAIN home
    BY <1>1, RecordFacts
<1>3. /\ z \in Objects /\ z.section \in DOMAIN z.sections
         /\ Ready(z, fed, Len(fed), AllLabels(z, module))
      /\ fed \in Seq(Places) /\ home \in [DOMAIN z.sections -> Nat]
    BY <1>2, LiveFacts
<1>4. Record.bytes \in Seq(Op) /\ Record.bytes # << >>
    BY <1>1, <1>2 DEF ObjectRecord
<1>5. rest \in Nat /\ rest + 1 \in 1 .. Len(Record.bytes) /\ Len(Record.bytes) \in Nat
    <2>1. Len(Record.bytes) > 0 /\ Len(Record.bytes) \in Nat
        BY <1>4, EmptySeq, LenProperties
    <2>2. rest \in Nat /\ (rest > 0 => rest < Len(Record.bytes))
        BY <1>1 DEF ListingInv, InputInv
    <2> QED
        BY <2>1, <2>2
<1>6. Record.bytes[rest + 1] \in Op
    BY <1>4, <1>5, ElementOfSeq
<1>7. fed' = More(z, fed, z.pc + Len(z.bytes), 1)
    BY <1>2 DEF DataByte, Feed, More
<1>8. fed' \in Seq(Places)
    BY <1>2, <1>3, <1>7, MoreFed DEF Extends
<1>9. /\ Ready(z', fed', Len(fed'), AllLabels(z, module)) /\ Goes(z, z')
      /\ z'.pc + Len(z'.bytes) = z.pc + Len(z.bytes) + 1
    BY <1>3, <1>6, <1>7, ByteFed DEF DataByte
<1>10. module' = module /\ Live' /\ InputInv' /\ Pending' = 0 /\ entered' = entered
    <2>1. /\ rest' = IF rest + 1 = Len(Record.bytes) THEN 0 ELSE rest + 1
          /\ next' = IF rest + 1 = Len(Record.bytes) THEN next + 1 ELSE next
          /\ phase' = phase /\ module' = module /\ inputs' = inputs /\ entered' = entered
        BY DEF DataByte, Feed
    <2>2. rest' \in Nat /\ (rest' > 0 => next' = next /\ rest' < Len(Record.bytes))
        BY <1>5, <2>1
    <2>3. next' \in 1 .. Len(module.records) + 1
        BY <1>2, <2>1 DEF ListingInv, InputInv
    <2> QED
        BY <1>1, <2>1, <2>2, <2>3 DEF ListingInv, InputInv, At, Record, Live, Pending, inputs
<1>11. home' = [home EXCEPT ![z.section] = home[z.section] + 1]
    BY DEF DataByte, Feed
<1>12. /\ home' \in [DOMAIN z.sections -> Nat]
       /\ home'[z.section] = z'.pc + Len(z'.bytes) + 0
       /\ \A n \in DOMAIN z.sections : n # z.section => home'[n] = home[n]
    <2>1. z'.pc \in Nat /\ Len(z'.bytes) \in Nat
        BY <1>9, ObjectFields, LenProperties DEF Ready, Stands
    <2> QED
        BY <1>2, <1>3, <1>9, <1>11, <2>1
<1>13. phase' # "space"
    BY <1>1 DEF DataByte
<1> QED
    BY <1>2, <1>8, <1>9, <1>10, <1>12, <1>13, StayStep

LEMMA ExpressionStep ==
    ASSUME ListingInv, Expression
    PROVE  ListingInv'
<1>1. phase = "records" /\ next \in DOMAIN module.records /\ Record.kind = "EXPR"
    BY DEF Expression, At
<1>2. /\ Live /\ Record \in ObjectRecord /\ home[z.section] = z.pc + Len(z.bytes)
         /\ home[z.section] \in Nat
      /\ z.section \in DOMAIN home
    BY <1>1, RecordFacts
<1>3. /\ z \in Objects /\ z.section \in DOMAIN z.sections
         /\ Ready(z, fed, Len(fed), AllLabels(z, module))
      /\ fed \in Seq(Places) /\ home \in [DOMAIN z.sections -> Nat]
    BY <1>2, LiveFacts
<1>4. Record.size \in 1 .. 4
    BY <1>1, <1>2 DEF ObjectRecord
<1>5. fed' = More(z, fed, z.pc + Len(z.bytes), Record.size)
    BY <1>2 DEF Expression, Feed, More
<1>6. fed' \in Seq(Places)
    <2> DEFINE g == fed'
               h == z.pc + Len(z.bytes)
               c == Record.size
    <2>1. c \in Nat /\ h \in Nat /\ g = More(z, fed, h, c)
        BY <1>2, <1>4, <1>5
    <2> HIDE DEF g, h, c
    <2>2. Extends(fed, g, c, z.section, h)
        BY <1>3, <2>1, MoreFed
    <2> QED
        BY <2>2 DEF Extends, g
<1>7. z' = Expr(z, Numbers(fed, Record.size))
    BY DEF Expression, Ids, Numbers
<1>8. /\ Ready(z', fed', Len(fed'), AllLabels(z, module)) /\ Goes(z, z')
      /\ z'.pc + Len(z'.bytes) = z.pc + Len(z.bytes) + Record.size
    BY <1>3, <1>4, <1>5, <1>7, ExprFed
<1>9. module' = module /\ Live' /\ InputInv' /\ Pending' = 0 /\ entered' = entered
      /\ phase' = "records"
    BY <1>1, AdvanceInput DEF Expression, Feed
<1>10. home' = [home EXCEPT ![z.section] = home[z.section] + Record.size]
    BY DEF Expression, Feed
<1>11. /\ home' \in [DOMAIN z.sections -> Nat]
       /\ home'[z.section] = z'.pc + Len(z'.bytes) + 0
       /\ \A n \in DOMAIN z.sections : n # z.section => home'[n] = home[n]
    <2>1. z'.pc \in Nat /\ Len(z'.bytes) \in Nat
        BY <1>8, ObjectFields, LenProperties DEF Ready, Stands
    <2> QED
        BY <1>2, <1>3, <1>4, <1>8, <1>10, <2>1
<1> QED
    BY <1>2, <1>6, <1>8, <1>9, <1>11, StayStep

(* The registers are another matter.                                       *)
LEMMA FlagsSet ==
    ASSUME NEW y, NEW f, NEW m, NEW L, Ready(y, f, m, L), NEW F \in SUBSET {"m", "x"},
           NEW w, w = SetFlags(y, F)
    PROVE  Ready(w, f, m, L) /\ Goes(y, w) /\ w.pc = y.pc /\ w.bytes = y.bytes
<1>1. y \in Objects /\ Stands(y, f, m, L) /\ Settled(y)
    BY DEF Ready, Stands
<1>2. /\ w \in Objects /\ w.listing = y.listing /\ w.sections = y.sections /\ w.section = y.section
      /\ w.code = y.code /\ w.pc = y.pc /\ w.bytes = y.bytes /\ w.size = y.size
      /\ w.next_label = y.next_label /\ w.symbols = y.symbols
    BY <1>1 DEF Objects, SetFlags
<1>3. Stands(w, f, m, L) /\ Goes(y, w)
    BY <1>1, <1>2, AlikeStands, SameGoes DEF Alike
<1>4. Settled(w)
    BY <1>1, <1>2 DEF Settled, Known, InHand, Clear, Labels
<1> QED
    BY <1>2, <1>3, <1>4 DEF Ready

(* A step that prints what is in hand, and no more is to come.             *)
LEMMA EmptyStep ==
    ASSUME ListingInv, phase = "records", next \in DOMAIN module.records, Record.kind # "DATA",
           Advance, Unfed, Ready(z', fed, Len(fed), AllLabels(z, module)), Goes(z, z'),
           z'.bytes = << >>, z'.pc = z.pc + Len(z.bytes)
    PROVE  ListingInv'
<1>1. module' = module /\ Live' /\ InputInv' /\ Pending' = 0 /\ phase' = "records"
    BY AdvanceInput
<1>2. fed' = fed /\ home' = home /\ entered' = entered
    BY DEF Unfed
<1>3. Live /\ home[z.section] = z.pc + Len(z.bytes)
    BY RecordFacts
<1>4. fed \in Seq(Places) /\ home \in [DOMAIN z.sections -> Nat]
    BY <1>3, LiveFacts
<1>5. home'[z.section] = z'.pc + Len(z'.bytes) + 0
    <2>1. Len(z'.bytes) = 0 /\ z'.pc \in Nat
        BY NoBytes, ObjectFields DEF Ready, Stands
    <2> QED
        BY <1>2, <1>3, <2>1
<1> QED
    BY <1>1, <1>2, <1>3, <1>4, <1>5, StayStep

LEMMA LineStep ==
    ASSUME ListingInv, Line
    PROVE  ListingInv'
<1>1. phase = "records" /\ next \in DOMAIN module.records /\ Record.kind # "DATA" /\ z' = Flush(z)
    BY DEF Line, At
<1>2. Ready(z, fed, Len(fed), AllLabels(z, module))
    BY <1>1, LiveFacts DEF Live
<1>3. /\ Ready(z', fed, Len(fed), AllLabels(z, module)) /\ Goes(z, z')
      /\ z'.bytes = << >> /\ z'.pc = z.pc + Len(z.bytes)
    BY <1>1, <1>2, Flushed
<1> QED
    BY <1>1, <1>3, EmptyStep DEF Line

LEMMA DebugStep ==
    ASSUME ListingInv, Debug
    PROVE  ListingInv'
<1> DEFINE y == Flush(z)
<1>1. phase = "records" /\ next \in DOMAIN module.records /\ Record.kind # "DATA"
    BY DEF Debug, At
<1>2. Ready(z, fed, Len(fed), AllLabels(z, module)) /\ z.section \in DOMAIN z.sections
    BY <1>1, LiveFacts DEF Live
<1>3. /\ Ready(y, fed, Len(fed), AllLabels(z, module)) /\ Goes(z, y)
      /\ y.bytes = << >> /\ y.pc = z.pc + Len(z.bytes)
    BY <1>2, Flushed
<1>4. z' = y \/ \E F \in SUBSET {"m", "x"} : z' = SetFlags(y, F)
    <2>1. \/ z' = y \/ z' = SetFlags(y, y.flags \cup {"m"}) \/ z' = SetFlags(y, y.flags \ {"m"})
          \/ z' = SetFlags(y, y.flags \cup {"x"}) \/ z' = SetFlags(y, y.flags \ {"x"})
        BY DEF Debug
    <2>2. y.flags \in SUBSET {"m", "x"}
        BY <1>3, ObjectFields DEF Ready, Stands
    <2> HIDE DEF y
    <2> QED
        BY <2>1, <2>2
<1> HIDE DEF y
<1>5. /\ Ready(z', fed, Len(fed), AllLabels(z, module)) /\ Goes(y, z')
      /\ z'.pc = y.pc /\ z'.bytes = y.bytes
    <2>1. CASE z' = y
        BY <1>3, <2>1, GoesNowhere DEF Ready, Stands
    <2>2. CASE \E F \in SUBSET {"m", "x"} : z' = SetFlags(y, F)
        <3>1. PICK F \in SUBSET {"m", "x"} : z' = SetFlags(y, F)
            BY <2>2
        <3> QED
            BY <1>3, <3>1, FlagsSet
    <2> QED
        BY <1>4, <2>1, <2>2
<1>6. Goes(z, z')
    BY <1>2, <1>3, <1>5, GoesOn
<1> QED
    BY <1>1, <1>3, <1>5, <1>6, EmptyStep DEF Debug

LEMMA SectionStep ==
    ASSUME ListingInv, Section
    PROVE  ListingInv'
<1>1. phase = "records" /\ next \in DOMAIN module.records /\ Record.kind # "DATA"
      /\ z' = SetSection(z, Record.section) /\ entered' = entered \cup {z'.section}
    BY DEF Section, At
<1>2. /\ z \in Objects /\ Ready(z, fed, Len(fed), AllLabels(z, module)) /\ Live
      /\ fed \in Seq(Places) /\ home \in [DOMAIN z.sections -> Nat]
      /\ z.section \in entered /\ entered \subseteq DOMAIN z.sections /\ Homes(z, home, Pending)
    BY <1>1, LiveFacts DEF Live
<1>3. /\ Ready(z', fed, Len(fed), AllLabels(z, module)) /\ Keeps(z, z')
      /\ Apartness(z, z', {z.section, z'.section})
      /\ \A k \in DOMAIN z.sections : Place(z', k) = Place(z, k)
      /\ z'.section = z.section \/ z'.sections[z'.section].processed
    <2> DEFINE w == z'
               n == Record.section
               m == Len(fed)
               L == AllLabels(z, module)
    <2>1. Ready(z, fed, m, L) /\ w = SetSection(z, n)
        BY <1>1, <1>2
    <2> HIDE DEF w, n, m, L
    <2>2. /\ Ready(w, fed, m, L) /\ Keeps(z, w) /\ Apartness(z, w, {z.section, w.section})
          /\ \A k \in DOMAIN z.sections : Place(w, k) = Place(z, k)
          /\ w.section = z.section \/ w.sections[w.section].processed
        <3>1. SetTo(z, w, fed, m, L)
            BY <2>1, SectionSet
        <3> QED
            BY <3>1 DEF SetTo
    <2> QED
        BY <2>2 DEF w, m, L
<1>4. module' = module /\ Live' /\ InputInv' /\ Pending' = 0 /\ phase' = "records"
    BY <1>1, AdvanceInput DEF Section
<1>5. fed' = fed /\ home' = home
    BY DEF Section
<1>6. z'.section \in DOMAIN z.sections /\ DOMAIN z'.sections = DOMAIN z.sections
    BY <1>3 DEF Ready, Stands, Keeps
<1>7. Apartness(z, z', entered') /\ entered' \subseteq DOMAIN z.sections
      /\ entered \subseteq entered' /\ z'.section \in entered'
      /\ \A k \in entered' : k \in entered \/ z'.sections[k].processed
    BY <1>1, <1>2, <1>3, <1>6 DEF Apartness
<1>8. Homes(z', home', Pending')
    <2>1. Pending = 0
        BY <1>1 DEF Pending
    <2>2. \A n \in DOMAIN z'.sections : home[n] = Place(z, n) + 0
        BY <1>2, <1>6, <2>1 DEF Homes
    <2> QED
        BY <1>3, <1>4, <1>5, <1>6, <2>2 DEF Homes
<1> QED
    BY <1>2, <1>3, <1>4, <1>5, <1>7, <1>8, LiveStep

LEMMA SetOrgStep ==
    ASSUME ListingInv, SetOrg
    PROVE  ListingInv'
<1>1. phase = "records" /\ next \in DOMAIN module.records /\ Record.kind = "ORG"
      /\ z' = OrgObject(z, Record.to)
    BY DEF SetOrg, At, OrgObject
<1>2. Live /\ Record \in ObjectRecord /\ z.section \in DOMAIN home
    BY <1>1, RecordFacts
<1>3. /\ Ready(z, fed, Len(fed), AllLabels(z, module)) /\ fed \in Seq(Places)
      /\ home \in [DOMAIN z.sections -> Nat]
    BY <1>2, LiveFacts
<1>4. Record.to \in Nat
    BY <1>1, <1>2 DEF ObjectRecord
<1>5. Ready(z', fed, Len(fed), AllLabels(z, module)) /\ Goes(z, z') /\ z'.bytes = << >>
      /\ z'.pc = Record.to
    <2> DEFINE w == z'
               to == Record.to
               m == Len(fed)
               L == AllLabels(z, module)
    <2>1. Ready(z, fed, m, L) /\ w = OrgObject(z, to) /\ to \in Nat
        BY <1>1, <1>3, <1>4
    <2> HIDE DEF w, to, m, L
    <2>2. Ready(w, fed, m, L) /\ Goes(z, w) /\ w.bytes = << >> /\ w.pc = to
        BY <2>1, OrgMoves
    <2> QED
        BY <2>2 DEF w, to, m, L
<1>6. module' = module /\ Live' /\ InputInv' /\ Pending' = 0 /\ phase' = "records"
    BY <1>1, AdvanceInput DEF SetOrg
<1>7. fed' = fed /\ entered' = entered /\ home' = [home EXCEPT ![z.section] = Record.to]
    BY DEF SetOrg
<1>8. /\ home' \in [DOMAIN z.sections -> Nat]
      /\ home'[z.section] = z'.pc + Len(z'.bytes) + 0
      /\ \A n \in DOMAIN z.sections : n # z.section => home'[n] = home[n]
    <2>1. Len(z'.bytes) = 0
        BY <1>5, NoBytes DEF Ready, Stands
    <2> QED
        BY <1>2, <1>3, <1>4, <1>5, <1>7, <2>1
<1> QED
    BY <1>2, <1>3, <1>5, <1>6, <1>7, <1>8, StayStep

LEMMA SpaceStep ==
    ASSUME ListingInv, Space
    PROVE  ListingInv'
<1>1. phase = "records" /\ next \in DOMAIN module.records /\ Record.kind = "SPACE" /\ z' = Flush(z)
    BY DEF Space, At
<1>2. Live /\ Record \in ObjectRecord /\ home[z.section] = z.pc + Len(z.bytes)
      /\ home[z.section] \in Nat /\ z.section \in DOMAIN home
    BY <1>1, RecordFacts
<1>3. /\ Ready(z, fed, Len(fed), AllLabels(z, module)) /\ fed \in Seq(Places)
      /\ home \in [DOMAIN z.sections -> Nat]
    BY <1>2, LiveFacts
<1>4. Record.count \in Nat
    BY <1>1, <1>2 DEF ObjectRecord
<1>5. /\ Ready(z', fed, Len(fed), AllLabels(z, module)) /\ Goes(z, z') /\ Clear(z')
      /\ z'.bytes = << >> /\ z'.pc = z.pc + Len(z.bytes)
    BY <1>1, <1>3, Flushed
<1>6. /\ module' = module /\ Live' /\ fed' = fed /\ entered' = entered /\ next' = next
      /\ Pending' = Record.count
      /\ home' = [home EXCEPT ![z.section] = home[z.section] + Record.count]
    BY DEF Space, Live, Pending
<1>7. InputInv'
    BY <1>1, <1>4 DEF ListingInv, InputInv, Space, Record, inputs
<1>8. /\ home' \in [DOMAIN z.sections -> Nat]
      /\ home'[z.section] = z'.pc + Len(z'.bytes) + Pending'
      /\ \A n \in DOMAIN z.sections : n # z.section => home'[n] = home[n]
    <2>1. Len(z'.bytes) = 0 /\ z'.pc \in Nat
        BY <1>5, NoBytes, ObjectFields DEF Ready, Stands
    <2> QED
        BY <1>2, <1>3, <1>4, <1>5, <1>6, <2>1
<1> QED
    BY <1>2, <1>3, <1>4, <1>5, <1>6, <1>7, <1>8, StayStep

LEMMA SpaceChunkStep ==
    ASSUME ListingInv, SpaceChunk
    PROVE  ListingInv' /\ Chunk(z, rest) \in 1 .. rest
<1>1. phase = "space" /\ rest > 0 /\ z' = Spaced(z, rest) /\ rest' = rest - Chunk(z, rest) /\ Live
    BY DEF SpaceChunk, Live
<1>2. /\ Ready(z, fed, Len(fed), AllLabels(z, module)) /\ fed \in Seq(Places)
      /\ home \in [DOMAIN z.sections -> Nat] /\ Homes(z, home, Pending) /\ z.bytes = << >>
         /\ Clear(z)
      /\ z \in Objects /\ z.section \in DOMAIN z.sections
    BY <1>1, LiveFacts
<1>3. rest \in Nat
    BY DEF ListingInv, InputInv
<1>4. /\ Ready(z', fed, Len(fed), AllLabels(z, module)) /\ Goes(z, z') /\ z'.bytes = << >>
         /\ Clear(z')
      /\ Chunk(z, rest) \in 1 .. rest /\ z'.pc = z.pc + Chunk(z, rest)
    <2> DEFINE w == z'
               m == Len(fed)
               L == AllLabels(z, module)
    <2>1. /\ Ready(z, fed, m, L) /\ w = Spaced(z, rest)
          /\ rest \in Nat /\ rest > 0 /\ z.bytes = << >> /\ Clear(z)
        BY <1>1, <1>2, <1>3
    <2> HIDE DEF w, m, L
    <2>2. /\ Ready(w, fed, m, L) /\ Goes(z, w) /\ w.bytes = << >> /\ Clear(w)
          /\ Chunk(z, rest) \in 1 .. rest /\ w.pc = z.pc + Chunk(z, rest)
        BY <2>1, SpaceMoves
    <2> QED
        BY <2>2 DEF w, m, L
<1>5. rest' \in Nat
    BY <1>1, <1>3, <1>4
<1>6. module' = module /\ Live' /\ fed' = fed /\ entered' = entered /\ home' = home
      /\ Pending' = rest'
    BY <1>1 DEF SpaceChunk, Live, Pending
<1>7. InputInv'
    BY <1>1, <1>5 DEF ListingInv, InputInv, SpaceChunk, Record, inputs
<1>8. home'[z.section] = z'.pc + Len(z'.bytes) + Pending'
    <2>1. Len(z.bytes) = 0 /\ Len(z'.bytes) = 0 /\ z.pc \in Nat
        BY <1>2, <1>4, NoBytes, ObjectFields DEF Ready, Stands
    <2>2. home[z.section] = z.pc + Len(z.bytes) + rest
        BY <1>1, <1>2 DEF Homes, Place, Pending
    <2> QED
        BY <1>1, <1>3, <1>4, <1>6, <2>1, <2>2
<1> QED
    BY <1>1, <1>2, <1>4, <1>5, <1>6, <1>7, <1>8, StayStep

LEMMA SpaceDoneStep ==
    ASSUME ListingInv, SpaceDone
    PROVE  ListingInv'
<1>1. phase = "space" /\ rest = 0 /\ phase' = "records" /\ next' = next + 1 /\ Live
    BY DEF SpaceDone, Live
<1>2. /\ Ready(z, fed, Len(fed), AllLabels(z, module)) /\ fed \in Seq(Places) /\ z \in Objects
      /\ home \in [DOMAIN z.sections -> Nat] /\ Homes(z, home, Pending)
         /\ z.section \in DOMAIN z.sections
    BY <1>1, LiveFacts
<1>3. /\ module' = module /\ Live' /\ fed' = fed /\ entered' = entered /\ home' = home
      /\ Pending' = 0 /\ Pending = 0 /\ z' = z
    BY <1>1 DEF SpaceDone, Live, Pending
<1>4. InputInv'
    <2>1. next \in 1 .. Len(module.records) /\ Len(module.records) \in Nat
        BY <1>1, LenProperties DEF ListingInv, InputInv, IsModule
    <2>2. next + 1 \in 1 .. Len(module.records) + 1
        BY <2>1
    <2> QED
        BY <1>1, <2>2 DEF ListingInv, InputInv, SpaceDone, inputs
<1>5. home[z.section] = z.pc + Len(z.bytes) + 0 /\ Goes(z, z)
    BY <1>2, <1>3, GoesNowhere DEF Homes, Place
<1> QED
    BY <1>1, <1>2, <1>3, <1>4, <1>5, StayStep

-----------------------------------------------------------------------------
(* The steps that begin and end. *)

LEMMA TailIs ==
    ASSUME NEW s, s \in Seq(Range(s)), s # << >>
    PROVE  /\ 1 \in DOMAIN s /\ Head(s) = s[1]
           /\ Tail(s) \in Seq(Range(Tail(s))) /\ Len(Tail(s)) = Len(s) - 1 /\ Len(s) \in Nat \ {0}
           /\ \A k \in DOMAIN Tail(s) : k + 1 \in DOMAIN s /\ Tail(s)[k] = s[k + 1]
<1> DEFINE S == Range(s)
           t == Tail(s)
<1>1. s \in Seq(S) /\ s # << >>
    OBVIOUS
<1> HIDE DEF S
<1>2. /\ Head(s) = s[1] /\ t \in Seq(S) /\ Len(t) = Len(s) - 1 /\ Len(s) \in Nat /\ Len(s) > 0
      /\ \A i \in 1 .. Len(t) : t[i] = s[i + 1]
    BY <1>1, HeadTailProperties, EmptySeq, LenProperties
<1> HIDE DEF t
<1>3. DOMAIN t = 1 .. Len(t) /\ DOMAIN s = 1 .. Len(s) /\ Len(t) \in Nat
    BY <1>1, <1>2, LenProperties
<1>4. t \in [1 .. Len(t) -> S]
    BY <1>2, LenProperties
<1>5. t \in [1 .. Len(t) -> Range(t)]
    BY <1>3, <1>4 DEF Range
<1>6. t \in Seq(Range(t))
    BY <1>3, <1>5, Counted
<1> QED
    BY <1>2, <1>3, <1>6 DEF t

LEMMA NoModuleIs ==
    IsModule(NoModule)
<1>1. /\ NoModule.sections = << >> /\ NoModule.symbols = {} /\ NoModule.records = << >>
      /\ NoModule.intact = FALSE
    BY DEF NoModule
<1>2. << >> \in Seq(ObjectRecord) /\ DOMAIN << >> = {}
    BY EmptySeq
<1>3. IsFiniteSet({})
    BY FS_EmptySet
<1> QED
    BY <1>1, <1>2, <1>3 DEF IsModule

LEMMA NoModuleApart ==
    ASSUME NEW y, y = Constructed(NoModule)
    PROVE  Apart(y, NoModule, {})
<1>1. DOMAIN NoModule.sections = {}
    BY EmptySeq DEF NoModule
<1>2. \A n \in DOMAIN y.sections : y.sections[n].processed = FALSE
    <2>1. \A n \in DOMAIN y.sections : n \in 0 .. 255 /\ y.sections[n] = Entry(NoModule, n)
        BY NoModuleIs, ConstructedType, ZenonT(40)
    <2>2. \A n \in 0 .. 255 : Entry(NoModule, n).processed = FALSE
        BY NoModuleIs, EntryType
    <2> QED
        BY <2>1, <2>2
<1> QED
    BY <1>1, <1>2 DEF Apart

LEMMA ConstructedLasts ==
    ASSUME NEW mod, IsModule(mod), NEW y, y = Constructed(mod), NEW h,
           \A n \in DOMAIN y.sections : h[n] = y.sections[n].org
    PROVE  Lasts(y, << >>, h, mod, {}, 0)
<1>1. /\ y \in Objects /\ y.bytes = << >> /\ y.section = -1 /\ y.listing = << >>
      /\ \A n \in DOMAIN y.sections : n \in 0 .. 255 /\ y.sections[n] = Entry(mod, n)
    BY ConstructedType, ZenonT(40)
<1>2. Len(y.listing) = 0 /\ DOMAIN y.listing = {} /\ Knowing(y)[0] = Outset(y)
    BY <1>1, KnowingRuns, EmptySeq
<1>3. Come(y) = Outset(y)
    BY <1>2 DEF Come
<1>4. Come(y).bytes = << >> /\ \A n \in DOMAIN y.sections : Come(y).at[n] = y.sections[n].org
    BY <1>3 DEF Outset
<1>5. << >> \in Seq(Places) /\ Len(<< >>) = 0 /\ << >> \o << >> = << >> /\ Count(0) = << >>
    <2>1. << >> \in Seq(Places) /\ Len(<< >>) = 0
        BY EmptySeq
    <2>2. << >> \o << >> = << >>
        BY <2>1, ConcatEmptySeq
    <2> QED
        BY <2>1, <2>2 DEF Count
<1>6. Carried(y, << >>, Len(<< >>)) /\ Listed(y, << >>)
    BY <1>1, <1>2, <1>4, <1>5 DEF Carried, Listed
<1>7. Kept(y, mod)
    <2>1. ASSUME NEW n \in DOMAIN y.sections
          PROVE  SameSection(y.sections[n], Entry(mod, n))
        <3> DEFINE e == Entry(mod, n)
        <3>1. e \in SectionEntry /\ y.sections[n] = e
            BY <1>1, EntryType
        <3> HIDE DEF e
        <3>2. SameSection(e, e)
            BY <3>1 DEF SameSection, SectionEntry
        <3> QED
            BY <3>1, <3>2 DEF e
    <2>2. y.symbols = mod.symbols
        BY ConstructedType
    <2> QED
        BY <2>1, <2>2 DEF Kept
<1>10. Titled(y)
    <2>1. \A n \in 0 .. 255 : Entry(mod, n).processed = FALSE
        BY EntryType
    <2>2. \A n \in DOMAIN y.sections : ~y.sections[n].processed
        BY <1>1, <2>1
    <2> QED
        BY <1>1, <2>2, NothingTitled
<1>8. \A n \in DOMAIN y.sections : n # y.section /\ y.sections[n].org \in Nat
    <2>1. ASSUME NEW n \in DOMAIN y.sections
          PROVE  n # y.section
        <3>1. n \in 0 .. 255 /\ y.section = -1
            BY <1>1
        <3> QED
            BY <3>1
    <2>2. ASSUME NEW n \in DOMAIN y.sections
          PROVE  y.sections[n].org \in Nat
        <3>1. y.sections[n] \in SectionEntry
            BY <1>1, EntryFields
        <3> QED
            BY <3>1 DEF SectionEntry
    <2> QED
        BY <2>1, <2>2
<1>9. \A n \in DOMAIN y.sections :
          h[n] = Come(y).at[n] + IF n = y.section THEN Len(y.bytes) + 0 ELSE 0
    BY <1>4, <1>8
<1> QED
    BY <1>1, <1>5, <1>6, <1>7, <1>9, <1>10 DEF Lasts

LEMMA InitHolds ==
    ASSUME Init
    PROVE  ListingInv
<1>1. /\ files \in Seq(Range(files)) /\ (\A f \in DOMAIN files : IsFile(files[f]))
         /\ modules = << >>
      /\ phase = "files" /\ next = 1 /\ rest = 0 /\ module = NoModule /\ z = Constructed(NoModule)
      /\ fed = << >> /\ entered = {} /\ home = [n \in DOMAIN z.sections |-> 0]
    BY FilesAssumption DEF Init
<1>2. IsModule(NoModule)
    BY NoModuleIs
<1>3. InputInv
    <2>1. << >> \in Seq(Range(<< >>)) /\ DOMAIN << >> = {}
        BY EmptySeq
    <2>2. Len(NoModule.records) + 1 = 1
        BY EmptySeq DEF NoModule
    <2> QED
        BY <1>1, <1>2, <2>1, <2>2 DEF InputInv
<1>4. \A n \in DOMAIN z.sections : z.sections[n].org = 0
    <2>1. \A n \in DOMAIN z.sections : n \in 0 .. 255 /\ z.sections[n] = Entry(NoModule, n)
        BY <1>1, <1>2, ConstructedType, ZenonT(40)
    <2>2. \A n : Entry(NoModule, n).org = 0
        BY EmptySeq DEF Entry, NoModule
    <2> QED
        BY <2>1, <2>2
<1>5. Lasts(z, fed, home, module, entered, Pending)
    <2>1. Pending = 0
        BY <1>1 DEF Pending
    <2>2. \A n \in DOMAIN z.sections : home[n] = z.sections[n].org
        BY <1>1, <1>4
    <2> DEFINE h == home
    <2> HIDE DEF h
    <2>3. Lasts(z, << >>, home, NoModule, {}, 0)
        BY <1>1, <1>2, <2>2, ConstructedLasts
    <2> QED
        BY <1>1, <2>1, <2>3
<1>6. HomeInv /\ LiveInv /\ OverInv /\ AlwaysInv
    BY <1>1, <1>5, NoModuleApart DEF HomeInv, LiveInv, OverInv, AlwaysInv
<1> QED
    BY <1>3, <1>6 DEF ListingInv

LEMMA FileDoneStep ==
    ASSUME ListingInv, FileDone
    PROVE  ListingInv'
<1>1. /\ phase' = "files" /\ inputs' = inputs /\ module' = NoModule /\ z' = Constructed(NoModule)
      /\ entered' = {} /\ home' = [n \in DOMAIN Constructed(NoModule).sections |->
                                       Constructed(NoModule).sections[n].org]
      /\ next' = 1 /\ rest' = 0 /\ fed' = << >>
    BY DEF FileDone, Reads
<1> DEFINE y == Constructed(NoModule)
<1>2. IsModule(NoModule) /\ y \in Objects
    BY NoModuleIs, ConstructedType
<1>3. InputInv'
    <2>1. Len(NoModule.records) + 1 = 1
        BY EmptySeq DEF NoModule
    <2> QED
        BY <1>1, <1>2, <2>1 DEF ListingInv, InputInv, inputs
<1>4. Lasts(y, << >>, home', NoModule, {}, 0)
    BY <1>1, <1>2, ConstructedLasts
<1>5. home' \in [DOMAIN y.sections -> Nat]
    <2>1. \A n \in DOMAIN y.sections : y.sections[n].org \in Nat
        BY <1>2, EntryFields DEF SectionEntry
    <2> QED
        BY <1>1, <2>1
<1>6. HomeInv' /\ LiveInv' /\ OverInv'
    BY <1>1, <1>5 DEF HomeInv, LiveInv, OverInv
<1>7. AlwaysInv'
    <2>1. Pending' = 0
        BY <1>1 DEF Pending
    <2> HIDE DEF y
    <2> QED
        BY <1>1, <1>4, <2>1, NoModuleApart DEF AlwaysInv, y
<1> QED
    BY <1>3, <1>6, <1>7 DEF ListingInv

(* The program stops, or goes on with a file.                              *)
LEMMA StoppedStep ==
    ASSUME ListingInv, phase # "space", z' = z, NEW end \in {"failed", "exited"}, Stop(end),
           end = "exited" => phase = "files"
    PROVE  ListingInv'
<1>1. phase' = end /\ UNCHANGED << files, modules, module, next, rest, fed, home, entered >>
    BY DEF Stop, inputs
<1>2. Pending = 0 /\ Pending' = 0
    BY <1>1 DEF Pending
<1>3. InputInv'
    BY <1>1 DEF ListingInv, InputInv
<1>4. HomeInv' /\ LiveInv' /\ OverInv'
    BY <1>1 DEF ListingInv, HomeInv, LiveInv, OverInv
<1>5. AlwaysInv'
    BY <1>1, <1>2 DEF ListingInv, AlwaysInv
<1> QED
    BY <1>3, <1>4, <1>5 DEF ListingInv

LEMMA OpenFileStep ==
    ASSUME ListingInv, OpenFile
    PROVE  ListingInv'
<1>1. /\ phase = "files" /\ files # << >> /\ modules' = Head(files).modules /\ files' = Tail(files)
      /\ phase' = "opened" /\ UNCHANGED << module, z, next, rest, fed, home, entered >>
    BY DEF OpenFile
<1>2. /\ files \in Seq(Range(files)) /\ \A f \in DOMAIN files : IsFile(files[f])
    BY DEF ListingInv, InputInv
<1>3. /\ 1 \in DOMAIN files /\ Head(files) = files[1] /\ files' \in Seq(Range(files'))
      /\ \A k \in DOMAIN files' : IsFile(files'[k])
    BY <1>1, <1>2, TailIs
<1>4. modules' \in Seq(Range(modules')) /\ \A m \in DOMAIN modules' : IsModule(modules'[m])
    BY <1>1, <1>2, <1>3 DEF IsFile
<1>5. Pending = 0 /\ Pending' = 0
    BY <1>1 DEF Pending
<1>6. InputInv'
    BY <1>1, <1>3, <1>4 DEF ListingInv, InputInv
<1>7. HomeInv' /\ LiveInv' /\ OverInv' /\ AlwaysInv'
    BY <1>1, <1>5 DEF ListingInv, HomeInv, LiveInv, OverInv, AlwaysInv
<1> QED
    BY <1>6, <1>7 DEF ListingInv

LEMMA BadRecordStep ==
    ASSUME ListingInv, phase = "records", next \in DOMAIN module.records, Record.kind # "DATA",
           z' = Flush(z), Stop("failed")
    PROVE  ListingInv'
<1>1. Live /\ home[z.section] = z.pc + Len(z.bytes)
    BY RecordFacts
<1>2. /\ z \in Objects /\ z.section \in DOMAIN z.sections
         /\ Ready(z, fed, Len(fed), AllLabels(z, module))
      /\ fed \in Seq(Places) /\ IsModule(module) /\ Kept(z, module)
      /\ z.section \in entered /\ entered \subseteq DOMAIN z.sections
      /\ home \in [DOMAIN z.sections -> Nat] /\ Homes(z, home, Pending)
    BY <1>1, LiveFacts
<1>3. /\ Ready(z', fed, Len(fed), AllLabels(z, module)) /\ Goes(z, z')
      /\ z'.bytes = << >> /\ z'.pc = z.pc + Len(z.bytes)
    BY <1>2, Flushed
<1>4. Keeps(z, z') /\ z'.section = z.section /\ DOMAIN z'.sections = DOMAIN z.sections
    BY <1>2, <1>3, GoesKeeps DEF Goes
<1>5. Kept(z', module)
    BY <1>2, <1>4, KeepsKept
<1>6. Homes(z', home, 0)
    <2>1. ASSUME NEW n \in DOMAIN z'.sections, n = z.section
          PROVE  home[n] = Place(z', n) + IF n = z'.section THEN 0 ELSE 0
        <3>1. Len(z'.bytes) = 0 /\ z'.pc \in Nat
            BY <1>3, NoBytes, ObjectFields DEF Ready, Stands
        <3> QED
            BY <1>1, <1>3, <1>4, <2>1, <3>1 DEF Place
    <2>2. ASSUME NEW n \in DOMAIN z'.sections, n # z.section
          PROVE  home[n] = Place(z', n) + IF n = z'.section THEN 0 ELSE 0
        <3>1. home[n] = z.sections[n].pc + 0 /\ z'.sections[n].pc = z.sections[n].pc
            BY <1>2, <1>3, <1>4, <2>2 DEF Homes, Place, Goes
        <3> QED
            BY <1>4, <2>2, <3>1 DEF Place
    <2> QED
        BY <2>1, <2>2 DEF Homes
<1>7. Lasts(z', fed, home, module, entered, 0)
    <2> DEFINE w == z'
    <2>1. entered \subseteq DOMAIN w.sections /\ 0 \in Nat
        BY <1>2, <1>4
    <2>2. Ready(w, fed, Len(fed), AllLabels(z, module)) /\ Kept(w, module) /\ Homes(w, home, 0)
        BY <1>3, <1>5, <1>6
    <2> HIDE DEF w
    <2>3. Lasts(w, fed, home, module, entered, 0)
        BY <1>2, <2>1, <2>2, ReadyLasts
    <2> QED
        BY <2>3 DEF w
<1>12. Apart(z', module, entered)
    <2>1. Apart(z, module, entered) /\ Apartness(z, z', entered)
        BY <1>1, <1>2, <1>3, LiveFacts, GoesKeeps
    <2>2. \A k \in entered : k \in entered \/ z'.sections[k].processed
        OBVIOUS
    <2> QED
        BY <1>2, <1>4, <2>1, <2>2, ApartStays
<1>8. phase' = "failed" /\ UNCHANGED << files, modules, module, next, rest, fed, home, entered >>
    BY DEF Stop, inputs
<1>9. InputInv'
    BY <1>8 DEF ListingInv, InputInv
<1>10. HomeInv' /\ LiveInv' /\ OverInv'
    BY <1>2, <1>4, <1>8 DEF HomeInv, LiveInv, OverInv
<1>11. AlwaysInv'
    BY <1>7, <1>8, <1>12 DEF AlwaysInv, Pending
<1> QED
    BY <1>9, <1>10, <1>11 DEF ListingInv

-----------------------------------------------------------------------------
(* The loops of front_matter() and back_matter(). *)

LabelStep(q, e, o) ==
    LET found == LabelsAt(e, o - 1)
    IN  IF found = {} THEN q
        ELSE [object |-> Emit(Gap(q.object, q.pc, o - 1), [kind |-> "labels", which |-> found]),
              pc |-> IF o - 1 > q.pc THEN o - 1 ELSE q.pc]

LEMMA LabelledRuns ==
    ASSUME NEW y, NEW e, Beyond(e) \in Nat
    PROVE  \E t : /\ t[0] = [object |-> y, pc |-> e.org]
                  /\ \A k \in 1 .. Beyond(e) : t[k] = LabelStep(t[k - 1], e, k)
                  /\ Labelled(y, e) = t[Beyond(e)]
<1> DEFINE m == Beyond(e)
           start == [object |-> y, pc |-> e.org]
           Runs(t, i) == t = [o \in 0 .. i |-> IF o = 0 THEN start ELSE LabelStep(t[o - 1], e, o)]
           S == {i \in Nat : \E t : Runs(t, i)}
<1>1. 0 \in S
    <2> DEFINE t == [k \in 0 .. 0 |-> start]
    <2>1. Runs(t, 0)
        OBVIOUS
    <2> QED
        BY <2>1
<1>2. ASSUME NEW i \in Nat, i \in S PROVE i + 1 \in S
    <2>1. PICK t : Runs(t, i)
        BY <1>2
    <2> DEFINE last == LabelStep(t[i], e, i + 1)
               u    == [k \in 0 .. i + 1 |-> IF k = i + 1 THEN last ELSE t[k]]
    <2> HIDE DEF last, start
    <2>2. ASSUME NEW k \in 0 .. i + 1
          PROVE  u[k] = IF k = 0 THEN start ELSE LabelStep(u[k - 1], e, k)
        <3>1. CASE k = i + 1
            <4>1. u[k] = last /\ u[k - 1] = t[i]
                BY <3>1
            <4> QED
                BY <3>1, <4>1 DEF last
        <3>2. CASE k # i + 1
            <4>1. k \in 0 .. i /\ u[k] = t[k] /\ (k # 0 => k - 1 \in 0 .. i /\ u[k - 1] = t[k - 1])
                BY <3>2
            <4>2. t[k] = IF k = 0 THEN start ELSE LabelStep(t[k - 1], e, k)
                BY <2>1, <4>1
            <4> QED
                BY <4>1, <4>2
        <3> QED
            BY <3>1, <3>2
    <2>3. u = [k \in 0 .. i + 1 |-> u[k]]
        OBVIOUS
    <2> HIDE DEF u
    <2>4. Runs(u, i + 1)
        BY <2>2, <2>3
    <2> QED
        BY <2>4
<1>3. m \in S
    <2> HIDE DEF S, m
    <2> QED
        BY <1>1, <1>2, NatSets DEF m
<1> DEFINE f == CHOOSE before : before = [o \in 0 .. Beyond(e) |->
                    IF o = 0 THEN [object |-> y, pc |-> e.org]
                    ELSE LET p == before[o - 1]
                             found == LabelsAt(e, o - 1)
                         IN  IF found = {} THEN p
                             ELSE [object |-> Emit(Gap(p.object, p.pc, o - 1),
                                                   [kind |-> "labels", which |-> found]),
                                   pc |-> IF o - 1 > p.pc THEN o - 1 ELSE p.pc]]
<1>4. Labelled(y, e) = f[Beyond(e)]
    BY DEF Labelled
<1>5. Runs(f, m)
    BY <1>3 DEF LabelStep
<1> HIDE DEF f
<1>6. \A k \in 0 .. m : f[k] = IF k = 0 THEN start ELSE LabelStep(f[k - 1], e, k)
    <2> HIDE DEF start, m
    <2> QED
        BY <1>5
<1> QED
    BY <1>4, <1>6

SectionTop(y, t) == t \in 4 .. 255 /\ DOMAIN y.sections = 0 .. t

LEMMA LastIs ==
    ASSUME NEW y, NEW t, SectionTop(y, t)
    PROVE  LastSection(y) = t
<1>1. t \in DOMAIN y.sections /\ t + 1 \notin DOMAIN y.sections
    BY DEF SectionTop
<1>2. \A n \in DOMAIN y.sections : n + 1 \notin DOMAIN y.sections => n = t
    BY DEF SectionTop
<1> QED
    BY <1>1, <1>2 DEF LastSection

ReferenceStep(y, n) == IF IsReference(y, n) THEN Reference(y, n) ELSE y

LEMMA ReferencesRun ==
    ASSUME NEW y, NEW t, SectionTop(y, t)
    PROVE  \E f : /\ f[0] = ReferenceStep(y, 0)
                  /\ \A k \in 1 .. t : f[k] = ReferenceStep(f[k - 1], k)
                  /\ References(y) = f[t]
<1> DEFINE Runs(g, i) == g = [n \in 0 .. i |-> ReferenceStep(IF n = 0 THEN y ELSE g[n - 1], n)]
           S == {i \in Nat : \E g : Runs(g, i)}
<1>0. t \in Nat
    <2>1. t \in 4 .. 255
        BY DEF SectionTop
    <2> QED
        BY <2>1
<1>1. 0 \in S
    <2> DEFINE g == [k \in 0 .. 0 |-> ReferenceStep(y, 0)]
    <2>1. Runs(g, 0)
        OBVIOUS
    <2> QED
        BY <2>1
<1>2. ASSUME NEW i \in Nat, i \in S PROVE i + 1 \in S
    <2>1. PICK g : Runs(g, i)
        BY <1>2
    <2> DEFINE last == ReferenceStep(g[i], i + 1)
               u    == [k \in 0 .. i + 1 |-> IF k = i + 1 THEN last ELSE g[k]]
    <2> HIDE DEF last
    <2>2. ASSUME NEW k \in 0 .. i + 1
          PROVE  u[k] = ReferenceStep(IF k = 0 THEN y ELSE u[k - 1], k)
        <3>1. CASE k = i + 1
            <4>1. u[k] = last /\ u[k - 1] = g[i] /\ k # 0
                BY <3>1
            <4> QED
                BY <3>1, <4>1 DEF last
        <3>2. CASE k # i + 1
            <4>1. k \in 0 .. i /\ u[k] = g[k] /\ (k # 0 => k - 1 \in 0 .. i /\ u[k - 1] = g[k - 1])
                BY <3>2
            <4>2. g[k] = ReferenceStep(IF k = 0 THEN y ELSE g[k - 1], k)
                BY <2>1, <4>1
            <4> QED
                BY <4>1, <4>2
        <3> QED
            BY <3>1, <3>2
    <2>3. u = [k \in 0 .. i + 1 |-> u[k]]
        OBVIOUS
    <2> HIDE DEF u
    <2>4. Runs(u, i + 1)
        BY <2>2, <2>3
    <2> QED
        BY <2>4
<1>3. t \in S
    <2> HIDE DEF S
    <2> QED
        BY <1>0, <1>1, <1>2, NatSets
<1> DEFINE f == CHOOSE after : after = [n \in DOMAIN y.sections |->
                    LET x == IF n = 0 THEN y ELSE after[n - 1]
                    IN  IF IsReference(x, n) THEN Reference(x, n) ELSE x]
<1>4. References(y) = f[LastSection(y)]
    BY DEF References
<1>5. Runs(f, t)
    BY <1>3 DEF ReferenceStep, SectionTop
<1> HIDE DEF f
<1>6. \A k \in 0 .. t : f[k] = ReferenceStep(IF k = 0 THEN y ELSE f[k - 1], k)
    BY <1>5
<1>7. LastSection(y) = t
    BY LastIs
<1> QED
    BY <1>0, <1>4, <1>6, <1>7

RemainingStep(y, n) == IF Unused(y, n) THEN Ends(PrintSection(y, n)) ELSE y

LEMMA RemainingRuns ==
    ASSUME NEW y, NEW t, SectionTop(y, t)
    PROVE  \E f : /\ f[0] = RemainingStep(y, 0)
                  /\ \A k \in 1 .. t : f[k] = RemainingStep(f[k - 1], k)
                  /\ Remaining(y) = f[t]
<1> DEFINE Runs(g, i) == g = [n \in 0 .. i |-> RemainingStep(IF n = 0 THEN y ELSE g[n - 1], n)]
           S == {i \in Nat : \E g : Runs(g, i)}
<1>0. t \in Nat
    <2>1. t \in 4 .. 255
        BY DEF SectionTop
    <2> QED
        BY <2>1
<1>1. 0 \in S
    <2> DEFINE g == [k \in 0 .. 0 |-> RemainingStep(y, 0)]
    <2>1. Runs(g, 0)
        OBVIOUS
    <2> QED
        BY <2>1
<1>2. ASSUME NEW i \in Nat, i \in S PROVE i + 1 \in S
    <2>1. PICK g : Runs(g, i)
        BY <1>2
    <2> DEFINE last == RemainingStep(g[i], i + 1)
               u    == [k \in 0 .. i + 1 |-> IF k = i + 1 THEN last ELSE g[k]]
    <2> HIDE DEF last
    <2>2. ASSUME NEW k \in 0 .. i + 1
          PROVE  u[k] = RemainingStep(IF k = 0 THEN y ELSE u[k - 1], k)
        <3>1. CASE k = i + 1
            <4>1. u[k] = last /\ u[k - 1] = g[i] /\ k # 0
                BY <3>1
            <4> QED
                BY <3>1, <4>1 DEF last
        <3>2. CASE k # i + 1
            <4>1. k \in 0 .. i /\ u[k] = g[k] /\ (k # 0 => k - 1 \in 0 .. i /\ u[k - 1] = g[k - 1])
                BY <3>2
            <4>2. g[k] = RemainingStep(IF k = 0 THEN y ELSE g[k - 1], k)
                BY <2>1, <4>1
            <4> QED
                BY <4>1, <4>2
        <3> QED
            BY <3>1, <3>2
    <2>3. u = [k \in 0 .. i + 1 |-> u[k]]
        OBVIOUS
    <2> HIDE DEF u
    <2>4. Runs(u, i + 1)
        BY <2>2, <2>3
    <2> QED
        BY <2>4
<1>3. t \in S
    <2> HIDE DEF S
    <2> QED
        BY <1>0, <1>1, <1>2, NatSets
<1> DEFINE f == CHOOSE after : after = [n \in DOMAIN y.sections |->
                    LET x == IF n = 0 THEN y ELSE after[n - 1]
                    IN  IF Unused(x, n) THEN Ends(PrintSection(x, n)) ELSE x]
<1>4. Remaining(y) = f[LastSection(y)]
    BY DEF Remaining
<1>5. Runs(f, t)
    BY <1>3 DEF RemainingStep, SectionTop
<1> HIDE DEF f
<1>6. \A k \in 0 .. t : f[k] = RemainingStep(IF k = 0 THEN y ELSE f[k - 1], k)
    BY <1>5
<1>7. LastSection(y) = t
    BY LastIs
<1> QED
    BY <1>0, <1>4, <1>6, <1>7

-----------------------------------------------------------------------------
(* The sections that only name places. *)

LEMMA BeyondType ==
    ASSUME NEW e, IsFiniteSet(e.labels), \A l \in e.labels : l.offset \in Nat
    PROVE  Beyond(e) \in Nat /\ \A l \in e.labels : l.offset < Beyond(e)
<1> DEFINE S == e.labels
<1>1. PICK n \in Nat : ExistsSurjection(1 .. n, S)
    BY FS_NatSurjection
<1>2. PICK f \in [1 .. n -> S] : \A l \in S : \E k \in 1 .. n : f[k] = l
    BY <1>1 DEF ExistsSurjection, Surjection
<1> DEFINE P(i) == i > n \/ \E N \in Nat : \A k \in 1 .. i : f[k].offset < N
           B == {i \in Nat : P(i)}
<1>3. 0 \in B
    <2>1. \A k \in 1 .. 0 : FALSE
        OBVIOUS
    <2> QED
        BY <2>1
<1>4. ASSUME NEW i \in Nat, i \in B PROVE i + 1 \in B
    <2>1. CASE i + 1 > n
        BY <2>1
    <2>2. CASE i + 1 <= n
        <3>0. ~(i > n)
            BY <2>2
        <3>1. PICK N \in Nat : \A k \in 1 .. i : f[k].offset < N
            BY <1>4, <3>0
        <3>2. i + 1 \in 1 .. n /\ f[i + 1] \in S
            BY <2>2
        <3>3. f[i + 1].offset \in Nat
            BY <3>2
        <3> DEFINE M == N + f[i + 1].offset + 1
        <3>4. ASSUME NEW k \in 1 .. i + 1 PROVE f[k].offset < M
            <4>1. CASE k = i + 1
                BY <3>3, <4>1
            <4>2. CASE k # i + 1
                <5>1. k \in 1 .. i /\ k \in 1 .. n
                    BY <2>2, <4>2
                <5>2. f[k].offset \in Nat /\ f[k].offset < N
                    BY <3>1, <5>1
                <5> QED
                    BY <3>3, <5>2
            <4> QED
                BY <4>1, <4>2
        <3>5. M \in Nat
            BY <3>3
        <3> HIDE DEF M
        <3>6. \E U \in Nat : \A k \in 1 .. i + 1 : f[k].offset < U
            BY <3>4, <3>5
        <3>7. P(i + 1)
            BY <3>6, Zenon
        <3> HIDE DEF P
        <3> QED
            BY <3>7
    <2> QED
        BY <2>1, <2>2
<1>5. n \in B
    <2> HIDE DEF B
    <2> QED
        BY <1>3, <1>4, NatSets
<1>6. PICK N \in Nat : \A k \in 1 .. n : f[k].offset < N
    BY <1>5
<1>7. \A l \in S : l.offset < N
    BY <1>2, <1>6
<1> DEFINE T == {0} \cup {l.offset + 1 : l \in S}
<1>8. T \subseteq 0 .. N /\ T # {} /\ T \subseteq Nat
    BY <1>7
<1>9. PICK m \in T : \A x \in T : x <= m
    BY <1>8, GreatestOf, Zenon
<1>10. \A l \in S : l.offset < m
    <2>1. ASSUME NEW l \in S PROVE l.offset < m
        <3>1. l.offset + 1 \in T /\ l.offset \in Nat /\ m \in Nat
            BY <1>8
        <3> QED
            BY <1>9, <3>1
    <2> QED
        BY <2>1
<1>11. \E o \in T : \A l \in S : l.offset < o
    BY <1>10
<1>12. Beyond(e) \in T /\ \A l \in S : l.offset < Beyond(e)
    BY <1>11 DEF Beyond
<1> QED
    BY <1>8, <1>12

(* A label that is printed, and one that the listing has not come to.      *)
Waits(y, l) == PrintedAt(y, l) = {} /\ \A k \in DOMAIN y.listing : ~ComesTo(y, l, k)
Sure(y, l) == IF l \in Labels(y, l.section) THEN Waits(y, l) ELSE IsPrinted(y, l)

LEMMA MarksStay ==
    ASSUME NEW y, NEW w, NEW i, Printed(y, w, i), NEW l, l.section \in DOMAIN y.sections,
           ~(i.kind = "labels" /\ l \in i.which)
    PROVE  /\ PrintedAt(w, l) = PrintedAt(y, l)
           /\ IsPrinted(y, l) => IsPrinted(w, l)
           /\ Waits(y, l) /\ Come(w).section # l.section => Waits(w, l)
<1>1. /\ PrintedAt(w, l) = PrintedAt(y, l)
      /\ \A k \in DOMAIN y.listing : ComesTo(w, l, k) => ComesTo(y, l, k)
      /\ \A k \in DOMAIN y.listing :
             y.listing[k].kind # "db" => (ComesTo(w, l, k) <=> ComesTo(y, l, k))
      /\ ComesTo(w, l, Len(y.listing) + 1) => Come(w).section = l.section
    BY PrintedTraces
<1>2. /\ DOMAIN y.listing = 1 .. Len(y.listing) /\ DOMAIN w.listing = 1 .. Len(y.listing) + 1
      /\ Len(y.listing) \in Nat
    BY PrintedKnowing
<1>3. ASSUME IsPrinted(y, l) PROVE IsPrinted(w, l)
    <2>1. PICK k \in DOMAIN y.listing : PrintedAt(y, l) = {k} /\ ComesTo(y, l, k)
        BY <1>3 DEF IsPrinted
    <2>2. y.listing[k].kind # "db"
        BY <2>1 DEF PrintedAt
    <2>3. k \in DOMAIN w.listing
        BY <1>2
    <2> QED
        BY <1>1, <2>1, <2>2, <2>3 DEF IsPrinted
<1>4. ASSUME Waits(y, l), Come(w).section # l.section PROVE Waits(w, l)
    <2>1. ASSUME NEW k \in DOMAIN w.listing PROVE ~ComesTo(w, l, k)
        <3>1. CASE k = Len(y.listing) + 1
            BY <1>1, <1>4, <3>1
        <3>2. CASE k # Len(y.listing) + 1
            <4>1. k \in DOMAIN y.listing
                BY <1>2, <3>2
            <4> QED
                BY <1>1, <1>4, <4>1 DEF Waits
        <3> QED
            BY <3>1, <3>2
    <2> QED
        BY <1>1, <1>4, <2>1 DEF Waits
<1> QED
    BY <1>1, <1>3, <1>4

LEMMA MarkPrinted ==
    ASSUME NEW y, NEW w, NEW i, Printed(y, w, i), NEW l, l.section \in DOMAIN y.sections,
           i.kind = "labels" /\ l \in i.which, PrintedAt(y, l) = {},
           Come(w).section = l.section, Here(Come(w)) = l.offset
    PROVE  IsPrinted(w, l)
<1>1. /\ PrintedAt(w, l) = PrintedAt(y, l) \cup {Len(y.listing) + 1}
      /\ ComesTo(w, l, Len(y.listing) + 1)
    BY PrintedTraces
<1>2. Len(y.listing) + 1 \in DOMAIN w.listing
    BY PrintedKnowing
<1> QED
    BY <1>1, <1>2 DEF IsPrinted

(* Before there is a section.                                              *)
Quiet(v) == v \in Objects /\ v.bytes = << >> /\ v.pc = 0 /\ v.next_label = -1 /\ v.section = -1

(* u is v with things printed in its section n, which is done and whose    *)
(* origin is in the listing.                                               *)
Inside(v, u, L, n) ==
    /\ Quiet(v) /\ Quiet(u) /\ n \in DOMAIN v.sections /\ DOMAIN u.sections = DOMAIN v.sections
    /\ u.symbols = v.symbols /\ Given(u, n)
    /\ \A k \in DOMAIN v.sections :
           u.sections[k] = IF k = n THEN [v.sections[k] EXCEPT !.processed = TRUE, !.labels = {}]
                           ELSE v.sections[k]
    /\ Listed(u, << >>) /\ Declared(u) /\ Come(u).bytes = << >> /\ Come(u).section = n
    /\ \A k \in DOMAIN v.sections : k # n => Come(u).at[k] = Come(v).at[k]
    /\ \A l \in L : l.section \in DOMAIN v.sections /\ (l.section # n => Sure(u, l))

InsideItems == {"ds", "labels", "ends"}

LEMMA EmitFields ==
    ASSUME NEW u \in Objects, NEW i \in ListingItem, NEW w, w = Emit(u, i)
    PROVE  /\ Printed(u, w, i) /\ w.sections = u.sections /\ w.bytes = u.bytes /\ w.pc = u.pc
           /\ w.next_label = u.next_label /\ w.section = u.section /\ w.size = u.size
              /\ w.code = u.code /\ w.symbols = u.symbols
<1>1. u.listing \in Seq(ListingItem)
    BY ObjectFields
<1> DEFINE a == Append(u.listing, i)
<1>2. a \in Seq(ListingItem)
    <2> DEFINE T == ListingItem
    <2>1. u.listing \in Seq(T) /\ i \in T
        BY <1>1
    <2> HIDE DEF T
    <2>2. a \in Seq(T)
        BY <2>1, AppendProperties
    <2> QED
        BY <2>2 DEF T
<1>3. w = [u EXCEPT !.listing = a]
    BY DEF Emit
<1> HIDE DEF a
<1>4. w \in Objects
    BY <1>2, <1>3 DEF Objects
<1>5. /\ w.listing = a /\ w.sections = u.sections /\ w.bytes = u.bytes /\ w.pc = u.pc
      /\ w.next_label = u.next_label /\ w.section = u.section /\ w.size = u.size /\ w.code = u.code
      /\ w.symbols = u.symbols
    BY <1>3 DEF Objects
<1> QED
    BY <1>4, <1>5 DEF Printed, SameKinds, a

LEMMA InsideGrows ==
    ASSUME NEW v, NEW u, NEW L, NEW n, Inside(v, u, L, n), NEW i \in ListingItem,
           i.kind \in InsideItems,
           i.kind = "labels" =>
               \A l \in i.which :
                   /\ l.section = n
                   /\ \/ l.offset = Come(u).at[n]
                      \/ v.sections[n].ref_only /\ l.offset < v.sections[n].org,
           NEW w, w = Emit(u, i)
    PROVE  /\ Inside(v, w, L, n) /\ Printed(u, w, i)
           /\ Come(w).at[n] = Come(u).at[n] + IF i.kind = "ds" THEN i.size ELSE 0
<1>1. /\ u \in Objects /\ n \in DOMAIN u.sections /\ Come(u).section = n /\ Quiet(u)
      /\ Listed(u, << >>) /\ Declared(u) /\ Come(u).bytes = << >>
         /\ DOMAIN u.sections = DOMAIN v.sections
      /\ u.symbols = v.symbols /\ Given(u, n)
    BY DEF Inside, Quiet
<1>2. /\ Printed(u, w, i) /\ w.sections = u.sections /\ w.bytes = u.bytes /\ w.pc = u.pc
      /\ w.next_label = u.next_label /\ w.section = u.section /\ w.symbols = u.symbols
    BY <1>1, EmitFields
<1>14. Given(w, n)
    BY <1>1, <1>2, GivenGrows
<1>3. /\ Come(u) \in AssemblerStates(DOMAIN u.sections) /\ Come(w) = Follows(Come(u), i)
    BY <1>2, PrintedKnowing
<1>4. i.kind \notin Lines /\ i.kind \notin {"section", "symbols", "org"}
    BY DEF InsideItems, Lines
<1>5. /\ Come(w).section = n /\ Come(w).bytes = << >>
      /\ \A k \in DOMAIN u.sections : k # n => Come(w).at[k] = Come(u).at[k]
      /\ Come(w).at[n] = Come(u).at[n] + IF i.kind = "ds" THEN i.size ELSE 0
    <2> DEFINE D == DOMAIN u.sections
               p == Come(u)
               q == Come(w)
    <2>1. p \in AssemblerStates(D) /\ q = Follows(p, i) /\ p.section = n /\ n \in D
          /\ p.bytes = << >>
        BY <1>1, <1>3
    <2> HIDE DEF D, p, q
    <2>2. q.section = IF i.kind = "section" THEN i.number ELSE p.section
        BY <2>1, FollowsTypes
    <2>5. q.bytes = IF i.kind \in Lines THEN p.bytes \o i.bytes ELSE p.bytes
        BY <2>1, FollowsTypes, ZenonT(40)
    <2>6. \A k \in D : k # n => q.at[k] = p.at[k]
        BY <2>1, FollowsTypes
    <2>7. q.at[n] = CASE i.kind = "org"  -> i.to
                      [] i.kind = "ds"   -> p.at[n] + i.size
                      [] i.kind \in Lines -> p.at[n] + Len(i.bytes)
                      [] OTHER           -> p.at[n]
        BY <2>1, FollowsTypes
    <2>3. q.section = n /\ q.bytes = << >> /\ \A k \in D : k # n => q.at[k] = p.at[k]
        BY <1>4, <2>1, <2>2, <2>5, <2>6
    <2>8. p.at[n] \in Int
        BY <2>1 DEF AssemblerStates
    <2>4. q.at[n] = p.at[n] + IF i.kind = "ds" THEN i.size ELSE 0
        BY <1>4, <2>7, <2>8
    <2> QED
        BY <2>3, <2>4 DEF D, p, q
<1>6. Listed(w, << >>)
    <2>1. i.kind = "labels" => LabelsFit(u.sections, Come(w), i)
        <3> SUFFICES ASSUME i.kind = "labels", NEW l \in i.which
                     PROVE  /\ l.section = Come(w).section
                            /\ \/ l.offset = Here(Come(w))
                               \/ u.sections[n].ref_only /\ l.offset < u.sections[n].org
            BY <1>5 DEF LabelsFit
        <3>1. Come(w).at[n] = Come(u).at[n] /\ Here(Come(w)) = Come(w).at[n]
            <4>1. Come(u).at[n] \in Int
                BY <1>1, <1>3 DEF AssemblerStates
            <4> QED
                BY <1>5, <4>1 DEF Here
        <3>2. u.sections[n].ref_only = v.sections[n].ref_only
              /\ u.sections[n].org = v.sections[n].org
            <4> DEFINE d == v.sections[n]
            <4>1. d \in SectionEntry /\ u.sections[n] = [d EXCEPT !.processed = TRUE, !.labels = {}]
                BY <1>1, EntryFields DEF Inside, Quiet
            <4> HIDE DEF d
            <4>2. u.sections[n].ref_only = d.ref_only /\ u.sections[n].org = d.org
                BY <4>1 DEF SectionEntry
            <4> QED
                BY <4>2 DEF d
        <3> QED
            BY <1>5, <3>1, <3>2
    <2> QED
        BY <1>1, <1>2, <1>4, <1>5, <2>1, ListedGrows
<1>7. Declared(w)
    BY <1>1, <1>2, <1>4, DeclaredStays
<1>8. \A l \in L : l.section \in DOMAIN v.sections /\ (l.section # n => Sure(w, l))
    <2> SUFFICES ASSUME NEW l \in L, l.section \in DOMAIN v.sections, l.section # n, Sure(u, l)
                 PROVE  Sure(w, l)
        BY DEF Inside
    <2>1. ~(i.kind = "labels" /\ l \in i.which)
        OBVIOUS
    <2>2. /\ IsPrinted(u, l) => IsPrinted(w, l)
          /\ Waits(u, l) => Waits(w, l)
        BY <1>1, <1>2, <1>5, <2>1, MarksStay
    <2>3. Labels(w, l.section) = Labels(u, l.section)
        BY <1>2 DEF Labels
    <2> QED
        BY <2>2, <2>3 DEF Sure
<1>9. w \in Objects
    BY <1>2 DEF Printed
<1>10. Quiet(w) /\ Quiet(v)
    BY <1>1, <1>2, <1>9 DEF Quiet, Inside
<1>11. \A k \in DOMAIN v.sections : k # n => Come(w).at[k] = Come(v).at[k]
    BY <1>1, <1>5 DEF Inside
<1>12. \A k \in DOMAIN v.sections :
           w.sections[k] = IF k = n THEN [v.sections[k] EXCEPT !.processed = TRUE, !.labels = {}]
                           ELSE v.sections[k]
    <2>1. \A k \in DOMAIN v.sections :
              u.sections[k] = IF k = n THEN [v.sections[k] EXCEPT !.processed = TRUE, !.labels = {}]
                              ELSE v.sections[k]
        BY DEF Inside
    <2> QED
        BY <1>2, <2>1
<1>13. Inside(v, w, L, n)
    BY <1>1, <1>2, <1>5, <1>6, <1>7, <1>8, <1>10, <1>11, <1>12, <1>14 DEF Inside
<1> QED
    BY <1>2, <1>5, <1>13

LEMMA GapGoes ==
    ASSUME NEW v, NEW u, NEW L, NEW n, Inside(v, u, L, n), NEW pc \in Nat, Come(u).at[n] = pc,
           NEW to \in Nat, NEW w, w = Gap(u, pc, to)
    PROVE  /\ Inside(v, w, L, n) /\ Come(w).at[n] = IF to > pc THEN to ELSE pc
           /\ \A l : l.section \in DOMAIN v.sections =>
                  PrintedAt(w, l) = PrintedAt(u, l) /\ (IsPrinted(u, l) => IsPrinted(w, l))
<1>1. CASE ~(to > pc)
    BY <1>1 DEF Gap
<1>2. CASE to > pc
    <2> DEFINE i == [kind |-> "ds", at |-> pc, size |-> to - pc]
    <2>1. w = Emit(u, i)
        BY <1>2 DEF Gap
    <2>2. i \in ListingItem /\ i.kind \in InsideItems /\ i.kind = "ds" /\ i.size = to - pc
        <3>1. to - pc \in Nat
            BY <1>2
        <3> QED
            BY <3>1 DEF ListingItem, InsideItems
    <2> HIDE DEF i
    <2>3. i.kind # "labels"
        BY <2>2
    <2>4. Inside(v, w, L, n) /\ Printed(u, w, i)
        BY <2>1, <2>2, <2>3, InsideGrows
    <2>5. Come(w).at[n] = Come(u).at[n] + IF i.kind = "ds" THEN i.size ELSE 0
        BY <2>1, <2>2, <2>3, InsideGrows
    <2>6. Come(w).at[n] = to
        BY <2>2, <2>5
    <2>7. ASSUME NEW l, l.section \in DOMAIN v.sections
          PROVE  PrintedAt(w, l) = PrintedAt(u, l) /\ (IsPrinted(u, l) => IsPrinted(w, l))
        <3>1. l.section \in DOMAIN u.sections
            BY <2>7 DEF Inside
        <3> QED
            BY <2>3, <2>4, <3>1, MarksStay
    <2> QED
        BY <1>2, <2>4, <2>6, <2>7
<1> QED
    BY <1>1, <1>2

(* The labels before o are printed, and the address is pc.                 *)
LabelledSo(v, u, L, n, pc, o) ==
    LET e == v.sections[n]
    IN  /\ Inside(v, u, L, n) /\ e.ref_only /\ e \in SectionEntry
        /\ pc \in Nat /\ Come(u).at[n] = pc /\ e.org <= pc
        /\ pc = e.org \/ \E l \in e.labels : l.offset = pc /\ l.offset < o
        /\ \A l \in e.labels : l.section = n /\ (l.offset < o => l.offset <= pc)
        /\ \A l \in L : l.section = n =>
               /\ l \in e.labels /\ l.offset >= e.org
               /\ IF l.offset < o THEN IsPrinted(u, l) ELSE PrintedAt(u, l) = {}

LEMMA LabelStepGoes ==
    ASSUME NEW v, NEW L, NEW n, NEW q, NEW o \in Nat \ {0},
           LabelledSo(v, q.object, L, n, q.pc, o - 1),
           NEW r, r = LabelStep(q, v.sections[n], o)
    PROVE  LabelledSo(v, r.object, L, n, r.pc, o)
<1> DEFINE e == v.sections[n]
           u == q.object
           pc == q.pc
           found == LabelsAt(e, o - 1)
<1>1. /\ Inside(v, u, L, n) /\ e.ref_only /\ e \in SectionEntry
      /\ pc \in Nat /\ Come(u).at[n] = pc /\ e.org <= pc
      /\ pc = e.org \/ \E l \in e.labels : l.offset = pc /\ l.offset < o - 1
      /\ \A l \in e.labels : l.section = n /\ (l.offset < o - 1 => l.offset <= pc)
      /\ \A l \in L : l.section = n =>
               /\ l \in e.labels /\ l.offset >= e.org
               /\ IF l.offset < o - 1 THEN IsPrinted(u, l) ELSE PrintedAt(u, l) = {}
    BY DEF LabelledSo
<1>2. e.org \in Nat /\ e.labels \subseteq ObjectSymbol /\ \A l \in e.labels : l.offset \in Nat
    <2>1. e.org \in Nat /\ e.labels \in SUBSET ObjectSymbol
        BY <1>1 DEF SectionEntry
    <2> QED
        BY <2>1 DEF ObjectSymbol
<1>3. \A l \in e.labels : l.offset < o <=> l.offset < o - 1 \/ l \in found
    BY <1>2 DEF LabelsAt
<1>4. CASE found = {}
    <2>1. r = q
        BY <1>4 DEF LabelStep
    <2>2. \A l \in e.labels : l.offset < o <=> l.offset < o - 1
        BY <1>3, <1>4
    <2>3. pc = e.org \/ \E l \in e.labels : l.offset = pc /\ l.offset < o
        BY <1>1, <2>2
    <2>4. \A l \in L : l.section = n =>
               /\ l \in e.labels /\ l.offset >= e.org
               /\ IF l.offset < o THEN IsPrinted(u, l) ELSE PrintedAt(u, l) = {}
        BY <1>1, <2>2
    <2>5. \A l \in e.labels : l.section = n /\ (l.offset < o => l.offset <= pc)
        BY <1>1, <2>2
    <2> QED
        BY <1>1, <2>1, <2>3, <2>4, <2>5 DEF LabelledSo
<1>5. CASE found # {}
    <2> DEFINE g == Gap(u, pc, o - 1)
               i == [kind |-> "labels", which |-> found]
               w == Emit(g, i)
               to == IF o - 1 > pc THEN o - 1 ELSE pc
    <2>1. r.object = w /\ r.pc = to
        BY <1>5 DEF LabelStep
    <2>2. /\ Inside(v, g, L, n) /\ Come(g).at[n] = to
          /\ \A l : l.section \in DOMAIN v.sections =>
                 PrintedAt(g, l) = PrintedAt(u, l) /\ (IsPrinted(u, l) => IsPrinted(g, l))
        <3>1. o - 1 \in Nat /\ Inside(v, u, L, n) /\ pc \in Nat /\ Come(u).at[n] = pc
            BY <1>1
        <3> HIDE DEF u, pc
        <3> QED
            BY <3>1, GapGoes
    <2>3. i \in ListingItem /\ i.kind = "labels" /\ i.which = found /\ i.kind \in InsideItems
        <3>1. found \in SUBSET ObjectSymbol
            BY <1>2 DEF LabelsAt
        <3> HIDE DEF found
        <3> QED
            BY <3>1 DEF ListingItem, InsideItems
    <2>4. \A l \in found : l \in e.labels /\ l.offset = o - 1 /\ l.section = n
        BY <1>1 DEF LabelsAt
    <2>5. \A l \in found : l.offset = to \/ l.offset < e.org
        <3> SUFFICES ASSUME NEW l \in found, ~(l.offset = to) PROVE l.offset < e.org
            OBVIOUS
        <3>1. o - 1 < pc /\ l.offset = o - 1
            BY <1>1, <2>4
        <3>2. pc = e.org
            BY <1>1, <1>2, <3>1
        <3> QED
            BY <3>1, <3>2
    <2>6. w = Emit(g, i)
        OBVIOUS
    <2> HIDE DEF g, i, w
    <2>7. i.kind = "labels" =>
               \A l \in i.which :
                   /\ l.section = n
                   /\ \/ l.offset = Come(g).at[n]
                      \/ v.sections[n].ref_only /\ l.offset < v.sections[n].org
        BY <1>1, <2>2, <2>3, <2>4, <2>5
    <2>8. Inside(v, w, L, n) /\ Printed(g, w, i)
        BY <2>2, <2>3, <2>6, <2>7, InsideGrows
    <2>9. Come(w).at[n] = Come(g).at[n] + IF i.kind = "ds" THEN i.size ELSE 0
        BY <2>2, <2>3, <2>6, <2>7, InsideGrows
    <2>12. to \in Nat /\ e.org <= to /\ pc <= to
        BY <1>1, <1>2
    <2>10. Come(w).at[n] = to /\ Come(w).section = n /\ n \in DOMAIN g.sections
           /\ DOMAIN g.sections = DOMAIN v.sections /\ n \in DOMAIN v.sections
        <3> HIDE DEF to
        <3>1. Come(w).at[n] = to
            BY <2>2, <2>3, <2>9, <2>12
        <3> QED
            BY <2>2, <2>8, <3>1 DEF Inside
    <2>11. ASSUME NEW l \in L, l.section = n
           PROVE  /\ l \in e.labels /\ l.offset >= e.org
                  /\ IF l.offset < o THEN IsPrinted(w, l) ELSE PrintedAt(w, l) = {}
        <3>1. /\ l \in e.labels /\ l.offset >= e.org
              /\ IF l.offset < o - 1 THEN IsPrinted(u, l) ELSE PrintedAt(u, l) = {}
            BY <1>1, <2>11
        <3>2. PrintedAt(g, l) = PrintedAt(u, l) /\ (IsPrinted(u, l) => IsPrinted(g, l))
            BY <2>2, <2>10, <2>11
        <3>3. CASE l \in found
            <4>1. PrintedAt(g, l) = {}
                <5>1. l.offset = o - 1
                    BY <2>4, <3>3
                <5>2. ~(l.offset < o - 1)
                    BY <5>1
                <5> QED
                    BY <3>1, <3>2, <5>2
            <4>2. Here(Come(w)) = l.offset
                <5>1. l.offset \in Nat /\ e.org \in Nat
                    BY <1>2, <3>1
                <5>2. l.offset = to
                    BY <2>5, <3>1, <3>3, <5>1
                <5> QED
                    BY <2>10, <5>2 DEF Here
            <4>3. IsPrinted(w, l)
                BY <2>3, <2>8, <2>10, <2>11, <3>3, <4>1, <4>2, MarkPrinted
            <4>4. l.offset < o
                BY <1>3, <3>1, <3>3
            <4> QED
                BY <3>1, <4>3, <4>4
        <3>4. CASE l \notin found
            <4>1. PrintedAt(w, l) = PrintedAt(g, l) /\ (IsPrinted(g, l) => IsPrinted(w, l))
                BY <2>3, <2>8, <2>10, <2>11, <3>4, MarksStay
            <4>2. l.offset < o <=> l.offset < o - 1
                BY <1>3, <3>1, <3>4
            <4> QED
                BY <3>1, <3>2, <4>1, <4>2
        <3> QED
            BY <3>3, <3>4
    <2>13. to = e.org \/ \E l \in e.labels : l.offset = to /\ l.offset < o
        <3>1. CASE o - 1 > pc
            <4>1. PICK l \in found : TRUE
                BY <1>5
            <4>2. l \in e.labels /\ l.offset = to /\ l.offset < o
                BY <2>4, <3>1
            <4> QED
                BY <4>2
        <3>2. CASE ~(o - 1 > pc)
            <4>1. to = pc
                BY <3>2
            <4>2. \A l \in e.labels : l.offset < o - 1 => l.offset < o
                BY <1>2
            <4> QED
                BY <1>1, <4>1, <4>2
        <3> QED
            BY <3>1, <3>2
    <2>14. \A l \in e.labels : l.section = n /\ (l.offset < o => l.offset <= to)
        <3> SUFFICES ASSUME NEW l \in e.labels, l.offset < o PROVE l.offset <= to
            BY <1>1
        <3>1. CASE l.offset < o - 1
            BY <1>1, <1>2, <2>12, <3>1
        <3>2. CASE l \in found
            <4>1. l.offset = o - 1 /\ pc \in Nat
                BY <1>1, <2>4, <3>2
            <4> QED
                BY <4>1
        <3> QED
            BY <1>3, <3>1, <3>2
    <2> HIDE DEF to
    <2> QED
        BY <1>1, <2>1, <2>8, <2>10, <2>11, <2>12, <2>13, <2>14 DEF LabelledSo
<1> QED
    BY <1>4, <1>5

LEMMA LabelledGoes ==
    ASSUME NEW v, NEW u, NEW L, NEW n, LabelledSo(v, u, L, n, v.sections[n].org, 0),
           Beyond(v.sections[n]) \in Nat
    PROVE  LET q == Labelled(u, v.sections[n])
           IN  LabelledSo(v, q.object, L, n, q.pc, Beyond(v.sections[n]))
<1> DEFINE e == v.sections[n]
           b == Beyond(e)
<1>1. PICK t : /\ t[0] = [object |-> u, pc |-> e.org]
               /\ \A k \in 1 .. b : t[k] = LabelStep(t[k - 1], e, k)
               /\ Labelled(u, e) = t[b]
    BY LabelledRuns
<1> DEFINE S == {i \in Nat : i > b \/ LabelledSo(v, t[i].object, L, n, t[i].pc, i)}
<1>2. 0 \in S
    BY <1>1
<1> HIDE DEF b
<1>3. ASSUME NEW i \in Nat, i \in S PROVE i + 1 \in S
    <2>1. CASE i + 1 > b
        BY <2>1
    <2>2. CASE ~(i + 1 > b)
        <3> DEFINE o == i + 1
                   q == t[i]
                   r == t[o]
        <3>1. o - 1 = i /\ o \in 1 .. b /\ o \in Nat \ {0} /\ ~(i > b)
            BY <2>2 DEF b
        <3>2. r = LabelStep(q, e, o)
            BY <1>1, <3>1
        <3>3. LabelledSo(v, q.object, L, n, q.pc, o - 1)
            BY <1>3, <3>1
        <3> HIDE DEF o, q, r
        <3>4. LabelledSo(v, r.object, L, n, r.pc, o)
            BY <3>1, <3>2, <3>3, LabelStepGoes
        <3> QED
            BY <3>4 DEF r, o
    <2> QED
        BY <2>1, <2>2
<1>4. b \in S
    <2> HIDE DEF S
    <2> QED
        BY <1>2, <1>3, NatSets DEF b
<1>5. ~(b > b)
    BY DEF b
<1> QED
    BY <1>1, <1>4, <1>5 DEF b

EmptiedEntry(v, n) == [v.sections[n] EXCEPT !.processed = TRUE, !.labels = {}]

LEMMA AllLabelsAre ==
    ASSUME NEW mod, IsModule(mod), NEW l \in AllLabels(Constructed(mod), mod)
    PROVE  /\ l \in ObjectSymbol /\ l.offset \in Nat /\ l.section \in DOMAIN mod.sections
           /\ l.section \in DOMAIN Constructed(mod).sections
           /\ l \in Entry(mod, l.section).labels /\ l \in ModuleLabels(mod, l.section)
           /\ Entry(mod, l.section).ref_only => l.offset >= Entry(mod, l.section).org
<1>1. /\ l \in mod.symbols /\ IsLabel(l) /\ l.section \in DOMAIN mod.sections
      /\ ~(/\ Constructed(mod).sections[l.section].ref_only
           /\ l.offset < Constructed(mod).sections[l.section].org)
    BY DEF AllLabels
<1>2. l.section \in DOMAIN Constructed(mod).sections
      /\ Constructed(mod).sections[l.section] = Entry(mod, l.section) /\ l.section \in 0 .. 255
    BY <1>1, ConstructedType, ZenonT(40)
<1>3. l \in ObjectSymbol /\ l.offset \in Nat
    BY <1>1 DEF IsModule, ObjectSymbol
<1>4. l \in ModuleLabels(mod, l.section)
    BY <1>1 DEF ModuleLabels
<1>5. Entry(mod, l.section).labels = ModuleLabels(mod, l.section)
      /\ Entry(mod, l.section).org \in Nat
    BY <1>1, <1>2, EntryType DEF SectionEntry
<1> QED
    BY <1>1, <1>2, <1>3, <1>4, <1>5

LEMMA EntryLabels ==
    ASSUME NEW mod, IsModule(mod), NEW n \in 0 .. 255
    PROVE  /\ IsFiniteSet(Entry(mod, n).labels)
           /\ \A l \in Entry(mod, n).labels : l \in ObjectSymbol /\ l.offset \in Nat
              /\ l.section = n
           /\ Entry(mod, n).ref_only => n \in DOMAIN mod.sections
<1>1. Entry(mod, n).labels \subseteq {l \in mod.symbols : l.section = n}
    <2>1. Entry(mod, n).labels = IF n \in DOMAIN mod.sections THEN ModuleLabels(mod, n) ELSE {}
        BY EntryType
    <2> QED
        BY <2>1 DEF ModuleLabels
<1>2. IsFiniteSet(mod.symbols) /\ mod.symbols \subseteq ObjectSymbol
    BY DEF IsModule
<1>3. IsFiniteSet(Entry(mod, n).labels)
    BY <1>1, <1>2, FS_Subset
<1>4. Entry(mod, n).ref_only => n \in DOMAIN mod.sections
    BY DEF Entry
<1> QED
    BY <1>1, <1>2, <1>3, <1>4 DEF ObjectSymbol

(* front_matter() has dealt with the sections before n.                    *)
Front(v, mod, n) ==
    /\ Quiet(v) /\ DOMAIN v.sections = DOMAIN Constructed(mod).sections
    /\ v.symbols = mod.symbols /\ Listed(v, << >>) /\ Declared(v) /\ Come(v).bytes = << >>
    /\ \A k \in DOMAIN v.sections :
           LET e == Entry(mod, k)
           IN  \/ /\ v.sections[k] = e /\ Come(v).at[k] = e.org
                  /\ k < n /\ e.ref_only => e.size = 0 /\ e.labels = {}
               \/ /\ k < n /\ e.ref_only
                     /\ v.sections[k] = [e EXCEPT !.processed = TRUE, !.labels = {}]
                  /\ e.org = 0 => IsEnd(v, mod, k)
    /\ \/ Come(v).section = -1
       \/ Come(v).section \in DOMAIN v.sections /\ Labels(v, Come(v).section) = {}
    /\ \A l \in AllLabels(Constructed(mod), mod) : Sure(v, l)

LEMMA HeadingInside ==
    ASSUME NEW mod, IsModule(mod), NEW v, NEW n \in DOMAIN v.sections, Front(v, mod, n),
           v.sections[n] = Entry(mod, n), Come(v).at[n] = Entry(mod, n).org, IsReference(v, n),
           NEW u, u = [PrintSection(v, n) EXCEPT !.sections[n].labels = {}]
    PROVE  LET L == AllLabels(Constructed(mod), mod)
           IN  /\ Inside(v, u, L, n) /\ Come(u).at[n] = Entry(mod, n).org
               /\ \A l \in L : l.section = n => PrintedAt(u, l) = {}
<1> DEFINE L == AllLabels(Constructed(mod), mod)
           h == Heading(v, n)
           a == Append(v.listing, h)
           e == EmptiedEntry(v, n)
           d == v.sections[n]
           t == [v.sections EXCEPT ![n] = e]
<1>1. v \in Objects /\ Quiet(v) /\ Listed(v, << >>) /\ Declared(v) /\ Come(v).bytes = << >>
    BY DEF Front, Quiet
<1>2. /\ h \in ListingItem /\ a \in Seq(ListingItem) /\ h.kind = "section" /\ h.number = n
    BY <1>1, HeadingType DEF Heading
<1>3. d \in SectionEntry
    BY <1>1, EntryFields
<1>4. /\ e \in SectionEntry /\ e.labels = {} /\ e.processed = TRUE /\ e.org = d.org
         /\ e.data = d.data
      /\ e.ref_only = d.ref_only /\ e.publics = d.publics /\ e.equs = d.equs
      /\ e.valid = d.valid /\ e.offset = d.offset
    BY <1>3 DEF SectionEntry, EmptiedEntry
<1>16. h.origin = d.org
    <2>1. n \in 0 .. 255
        BY <1>1, EntryFields
    <2>2. Entry(mod, n).processed = FALSE
        BY <2>1, EntryType
    <2> QED
        BY <2>2 DEF Heading
<1>5. u = [v EXCEPT !.listing = a, !.sections = t]
    <2>1. PrintSection(v, n)
          = [v EXCEPT !.listing = a, !.sections = [v.sections EXCEPT ![n].processed = TRUE]]
        BY <1>1 DEF PrintSection, Emit, Objects
    <2> DEFINE s == [v.sections EXCEPT ![n].processed = TRUE]
               x == [v EXCEPT !.listing = a, !.sections = s]
    <2>2. x.sections = s
        BY <1>1 DEF Objects
    <2>3. u = [x EXCEPT !.sections = [s EXCEPT ![n].labels = {}]]
        BY <2>1, <2>2
    <2>4. [s EXCEPT ![n].labels = {}] = t
        <3>1. \E m : v.sections \in [0 .. m -> SectionEntry]
            BY <1>1, SectionsAre
        <3>2. s[n] = [d EXCEPT !.processed = TRUE]
            BY <3>1
        <3>3. [s[n] EXCEPT !.labels = {}] = e
            BY <1>3, <3>2 DEF SectionEntry, EmptiedEntry
        <3> HIDE DEF e
        <3>4. [s EXCEPT ![n].labels = {}] = [s EXCEPT ![n] = e]
            BY <3>3
        <3> QED
            BY <3>1, <3>4
    <2> HIDE DEF s, t, a
    <2> QED
        BY <1>1, <2>3, <2>4 DEF Objects
<1> HIDE DEF h, a, e
<1>6. /\ t \in SectionTables /\ DOMAIN t = DOMAIN v.sections
      /\ \A k \in DOMAIN v.sections : t[k] = IF k = n THEN e ELSE v.sections[k]
    BY <1>1, <1>4, Reentered
<1> HIDE DEF t
<1>7. u \in Objects
    BY <1>1, <1>2, <1>5, <1>6, ZenonT(40) DEF Objects
<1>8. /\ u.listing = a /\ u.sections = t /\ u.bytes = v.bytes /\ u.pc = v.pc
      /\ u.next_label = v.next_label /\ u.section = v.section /\ u.symbols = v.symbols
    BY <1>1, <1>5 DEF Objects
<1>9. Printed(v, u, h)
    BY <1>1, <1>2, <1>4, <1>6, <1>7, <1>8 DEF Printed, SameKinds, a
<1>17. Given(u, n)
    BY <1>2, <1>9, <1>16, GivenNow
<1>10. Come(u).section = n /\ Come(u).at = Come(v).at /\ Come(u).bytes = << >>
    <2>1. Come(u) = Follows(Come(v), h) /\ Come(v) \in AssemblerStates(DOMAIN v.sections)
        BY <1>9, PrintedKnowing
    <2>2. Follows(Come(v), h) = [Come(v) EXCEPT !.section = n]
        BY <1>2 DEF Follows, Lines
    <2>3. Come(u) = [Come(v) EXCEPT !.section = n]
        BY <2>1, <2>2
    <2> QED
        BY <1>1, <2>1, <2>3 DEF AssemblerStates
<1>11. Listed(u, << >>)
    <2>1. h.kind \notin Lines /\ h.kind # "labels"
        BY <1>2 DEF Lines
    <2> QED
        BY <1>1, <1>9, <2>1, ListedGrows
<1>12. Declared(u)
    <2>1. u.sections[n].processed
        BY <1>4, <1>6, <1>8
    <2>2. \A k \in DOMAIN v.sections :
              /\ k # n => u.sections[k].processed = v.sections[k].processed
              /\ u.sections[k].publics = v.sections[k].publics
              /\ u.sections[k].equs = v.sections[k].equs
        BY <1>4, <1>6, <1>8
    <2> QED
        BY <1>1, <1>9, <2>1, <2>2, DeclaredGrows DEF h
<1>13. ASSUME NEW l \in L
       PROVE  /\ l.section \in DOMAIN v.sections /\ (l.section # n => Sure(u, l))
              /\ l.section = n => PrintedAt(u, l) = {}
    <2>1. l.section \in DOMAIN v.sections /\ l \in Entry(mod, l.section).labels /\ Sure(v, l)
        BY AllLabelsAre DEF Front
    <2>2. /\ PrintedAt(u, l) = PrintedAt(v, l)
          /\ IsPrinted(v, l) => IsPrinted(u, l)
          /\ Waits(v, l) /\ Come(u).section # l.section => Waits(u, l)
        BY <1>2, <1>9, <2>1, MarksStay
    <2>3. CASE l.section = n
        BY <2>1, <2>2, <2>3 DEF Sure, Waits, Labels
    <2>4. CASE l.section # n
        <3>1. Labels(u, l.section) = Labels(v, l.section)
            BY <1>6, <1>8, <2>1, <2>4 DEF Labels
        <3> QED
            BY <1>10, <2>1, <2>2, <2>4, <3>1 DEF Sure
    <2> QED
        BY <2>1, <2>3, <2>4
<1>14. Quiet(u)
    BY <1>1, <1>7, <1>8 DEF Quiet
<1>15. Inside(v, u, L, n)
    BY <1>1, <1>6, <1>8, <1>10, <1>11, <1>12, <1>13, <1>14, <1>17 DEF Inside, e, EmptiedEntry
<1> QED
    BY <1>10, <1>13, <1>15

LEMMA ReferenceFronts ==
    ASSUME NEW mod, IsModule(mod), NEW v, NEW n \in DOMAIN v.sections, Front(v, mod, n),
           IsReference(v, n), NEW w, w = Reference(v, n)
    PROVE  Front(w, mod, n + 1)
<1> DEFINE L == AllLabels(Constructed(mod), mod)
           e == v.sections[n]
           y == [PrintSection(v, n) EXCEPT !.sections[n].labels = {}]
           q == Labelled(y, e)
           g == Gap(q.object, q.pc, e.size)
<1>1. w = Ends(g)
    BY DEF Reference, Placed
<1>2. /\ v \in Objects /\ n \in 0 .. 255 /\ e \in SectionEntry /\ e.org \in Nat /\ e.size \in Nat
    <2>1. v \in Objects
        BY DEF Front, Quiet
    <2> QED
        BY <2>1, EntryFields DEF SectionEntry
<1>3. e = Entry(mod, n) /\ Come(v).at[n] = e.org
    <2>1. ~(n < n)
        BY <1>2
    <2> QED
        BY <2>1 DEF Front
<1>4. e.ref_only
    BY DEF IsReference
<1>6. /\ Inside(v, y, L, n) /\ Come(y).at[n] = e.org
      /\ \A l \in L : l.section = n => PrintedAt(y, l) = {}
    <2> DEFINE x == y
    <2>1. x = y
        OBVIOUS
    <2> HIDE DEF x
    <2>2. /\ Inside(v, x, L, n) /\ Come(x).at[n] = e.org
          /\ \A l \in L : l.section = n => PrintedAt(x, l) = {}
        BY <1>3, <2>1, HeadingInside
    <2> QED
        BY <2>1, <2>2
<1> HIDE DEF y
<1>7. /\ IsFiniteSet(e.labels) /\ \A l \in e.labels : l.offset \in Nat /\ l.section = n
      /\ n \in DOMAIN mod.sections
    <2> DEFINE c == Entry(mod, n)
    <2>1. /\ IsFiniteSet(c.labels)
          /\ \A l \in c.labels : l \in ObjectSymbol /\ l.offset \in Nat /\ l.section = n
          /\ c.ref_only => n \in DOMAIN mod.sections
        BY <1>2, EntryLabels
    <2>2. e = c
        BY <1>3
    <2> HIDE DEF c, e
    <2> QED
        BY <1>4, <2>1, <2>2 DEF e
<1>8. Beyond(e) \in Nat /\ \A l \in e.labels : l.offset < Beyond(e)
    BY <1>7, BeyondType
<1>9. \A l \in L : l.section = n => l \in e.labels /\ l.offset >= e.org /\ l.offset \in Nat
    BY <1>3, <1>4, AllLabelsAre
<1>10. LabelledSo(v, y, L, n, e.org, 0)
    <2>1. \A l \in e.labels : ~(l.offset < 0)
        BY <1>7
    <2> QED
        BY <1>2, <1>4, <1>6, <1>7, <1>9, <2>1 DEF LabelledSo
<1>11. LabelledSo(v, q.object, L, n, q.pc, Beyond(e))
    BY <1>8, <1>10, LabelledGoes
<1> DEFINE x == q.object
           pc == q.pc
<1> HIDE DEF q, e, L
<1>12. /\ Inside(v, x, L, n) /\ pc \in Nat /\ Come(x).at[n] = pc /\ e.org <= pc
       /\ pc = e.org \/ \E l \in e.labels : l.offset = pc
       /\ \A l \in e.labels : l.offset <= pc
       /\ \A l \in L : l.section = n => IsPrinted(x, l)
    <2> HIDE DEF x, pc
    <2>1. LabelledSo(v, x, L, n, pc, Beyond(e))
        BY <1>11 DEF x, pc
    <2> QED
        BY <1>8, <2>1 DEF LabelledSo, e
<1>13. g = Gap(x, pc, e.size)
    OBVIOUS
<1> HIDE DEF x, pc, g
<1>14. /\ Inside(v, g, L, n) /\ Come(g).at[n] = IF e.size > pc THEN e.size ELSE pc
       /\ \A l : l.section \in DOMAIN v.sections => (IsPrinted(x, l) => IsPrinted(g, l))
    BY <1>2, <1>12, <1>13, GapGoes
<1> DEFINE j == [kind |-> "ends"]
<1>15. j \in ListingItem /\ j.kind \in InsideItems /\ j.kind = "ends" /\ w = Emit(g, j)
    BY <1>1 DEF ListingItem, InsideItems, Ends
<1> HIDE DEF j
<1>16. Inside(v, w, L, n) /\ Printed(g, w, j) /\ Come(w).at[n] = IF e.size > pc THEN e.size ELSE pc
    <2>1. Inside(v, w, L, n) /\ Printed(g, w, j)
        BY <1>14, <1>15, InsideGrows
    <2>2. Come(w).at[n] = Come(g).at[n] + IF j.kind = "ds" THEN j.size ELSE 0
        BY <1>14, <1>15, InsideGrows
    <2>3. Come(w).at[n] = Come(g).at[n]
        BY <1>2, <1>12, <1>14, <1>15, <2>2 DEF e
    <2> QED
        BY <1>14, <2>1, <2>3
<1>17. \A l \in L : l.section = n => IsPrinted(w, l)
    <2> SUFFICES ASSUME NEW l \in L, l.section = n PROVE IsPrinted(w, l)
        OBVIOUS
    <2>1. l.section \in DOMAIN v.sections /\ l.section \in DOMAIN g.sections
        BY <1>14 DEF Inside
    <2>2. IsPrinted(g, l)
        BY <1>12, <1>14, <2>1
    <2> QED
        BY <1>15, <1>16, <2>1, <2>2, MarksStay
<1>18. e.org = 0 => IsEnd(w, mod, n)
    <2> SUFFICES ASSUME e.org = 0 PROVE IsEnd(w, mod, n)
        OBVIOUS
    <2> DEFINE ends == {mod.sections[n].size} \cup {l.offset : l \in ModuleLabels(mod, n)}
    <2>1. e.labels = ModuleLabels(mod, n) /\ e.size = mod.sections[n].size
        BY <1>2, <1>3, <1>7, EntryType
    <2>2. ends = {e.size} \cup {l.offset : l \in e.labels}
        BY <2>1
    <2>3. Come(w).at[n] \in ends
        <3>1. CASE e.size > pc
            BY <1>16, <2>2, <3>1
        <3>2. CASE ~(e.size > pc)
            <4>1. Come(w).at[n] = pc
                BY <1>16, <3>2
            <4>2. pc = 0 => e.size = 0
                BY <1>2, <3>2 DEF e
            <4> QED
                BY <1>12, <2>2, <4>1, <4>2
        <3> QED
            BY <3>1, <3>2
    <2>4. \A m \in ends : m <= Come(w).at[n]
        <3>1. e.size \in Nat /\ pc \in Nat
            BY <1>2, <1>12 DEF e
        <3>2. \A l \in e.labels : l.offset <= pc /\ l.offset \in Nat
            BY <1>7, <1>12
        <3> QED
            BY <1>16, <2>2, <3>1, <3>2
    <2> QED
        BY <2>3, <2>4 DEF IsEnd
<1>19. /\ Quiet(w) /\ DOMAIN w.sections = DOMAIN v.sections /\ Listed(w, << >>) /\ Declared(w)
       /\ w.symbols = mod.symbols /\ Come(w).bytes = << >> /\ Come(w).section = n
       /\ \A k \in DOMAIN v.sections : k # n
          => w.sections[k] = v.sections[k] /\ Come(w).at[k] = Come(v).at[k]
       /\ w.sections[n] = [e EXCEPT !.processed = TRUE, !.labels = {}]
       /\ \A l \in L : l.section # n => Sure(w, l)
    BY <1>16 DEF Inside, Front, e
<1>20. Labels(w, n) = {}
    <2>1. e \in SectionEntry
        BY <1>2 DEF e
    <2> QED
        BY <1>19, <2>1 DEF Labels, SectionEntry
<1>21. \A l \in L : Sure(w, l)
    BY <1>17, <1>19, <1>20 DEF Sure
<1>22. ASSUME NEW k \in DOMAIN w.sections
       PROVE  LET c == Entry(mod, k)
              IN  \/ /\ w.sections[k] = c /\ Come(w).at[k] = c.org
                     /\ k < n + 1 /\ c.ref_only => c.size = 0 /\ c.labels = {}
                  \/ /\ k < n + 1 /\ c.ref_only
                        /\ w.sections[k] = [c EXCEPT !.processed = TRUE, !.labels = {}]
                     /\ c.org = 0 => IsEnd(w, mod, k)
    <2>1. CASE k = n
        <3>1. n < n + 1
            BY <1>2
        <3> QED
            BY <1>3, <1>4, <1>18, <1>19, <2>1, <3>1 DEF e
    <2>2. CASE k # n
        <3>1. k \in 0 .. 255 /\ k \in DOMAIN v.sections
            BY <1>2, <1>19, EntryFields
        <3>2. k < n + 1 <=> k < n
            <4>1. k \in Nat /\ n \in Nat /\ k # n
                BY <1>2, <2>2, <3>1
            <4> QED
                BY <4>1
        <3>3. w.sections[k] = v.sections[k] /\ (IsEnd(w, mod, k) <=> IsEnd(v, mod, k))
              /\ Come(w).at[k] = Come(v).at[k]
            BY <1>19, <2>2, <3>1 DEF IsEnd
        <3>4. LET c == Entry(mod, k)
              IN  \/ /\ v.sections[k] = c /\ Come(v).at[k] = c.org
                     /\ k < n /\ c.ref_only => c.size = 0 /\ c.labels = {}
                  \/ /\ k < n /\ c.ref_only
                        /\ v.sections[k] = [c EXCEPT !.processed = TRUE, !.labels = {}]
                     /\ c.org = 0 => IsEnd(v, mod, k)
            BY <3>1 DEF Front
        <3> QED
            BY <3>2, <3>3, <3>4
    <2> QED
        BY <2>1, <2>2
<1>23. DOMAIN w.sections = DOMAIN Constructed(mod).sections
    BY <1>19 DEF Front
<1> QED
    BY <1>19, <1>20, <1>21, <1>22, <1>23 DEF Front, L

LEMMA StepFronts ==
    ASSUME NEW mod, IsModule(mod), NEW v, NEW n \in DOMAIN v.sections, Front(v, mod, n),
           NEW w, w = ReferenceStep(v, n)
    PROVE  Front(w, mod, n + 1)
<1>1. CASE IsReference(v, n)
    BY <1>1, ReferenceFronts DEF ReferenceStep
<1>2. CASE ~IsReference(v, n)
    <2>1. w = v
        BY <1>2 DEF ReferenceStep
    <2>2. \A k \in DOMAIN v.sections : k \in 0 .. 255
        BY EntryFields DEF Front, Quiet
    <2>3. v.sections[n] = Entry(mod, n)
        <3>1. ~(n < n)
            BY <2>2
        <3> QED
            BY <3>1 DEF Front
    <2> DEFINE c == Entry(mod, n)
    <2>4. c.ref_only => c.size = 0 /\ c.labels = {}
        <3>1. c.ref_only => n \in DOMAIN mod.sections
            BY <2>2, EntryLabels
        <3>2. c.valid = (n \in DOMAIN mod.sections)
            BY <2>2, EntryType
        <3> HIDE DEF c
        <3>3. v.sections[n] = c
            BY <2>3 DEF c
        <3> QED
            BY <1>2, <3>1, <3>2, <3>3 DEF IsReference
    <2>5. ASSUME NEW k \in DOMAIN v.sections
          PROVE  LET e == Entry(mod, k)
                 IN  \/ /\ v.sections[k] = e /\ Come(v).at[k] = e.org
                        /\ k < n + 1 /\ e.ref_only => e.size = 0 /\ e.labels = {}
                     \/ /\ k < n + 1 /\ e.ref_only
                           /\ v.sections[k] = [e EXCEPT !.processed = TRUE, !.labels = {}]
                        /\ e.org = 0 => IsEnd(v, mod, k)
        <3>1. LET e == Entry(mod, k)
              IN  \/ /\ v.sections[k] = e /\ Come(v).at[k] = e.org
                     /\ k < n /\ e.ref_only => e.size = 0 /\ e.labels = {}
                  \/ /\ k < n /\ e.ref_only
                        /\ v.sections[k] = [e EXCEPT !.processed = TRUE, !.labels = {}]
                     /\ e.org = 0 => IsEnd(v, mod, k)
            BY DEF Front
        <3>2. k \in Nat /\ n \in Nat
            BY <2>2
        <3>3. k < n => k < n + 1
            BY <3>2
        <3>4. k < n + 1 => k < n \/ k = n
            BY <3>2
        <3>5. ~(n < n)
            BY <3>2
        <3>6. CASE k = n
            BY <2>3, <2>4, <3>1, <3>5, <3>6
        <3>7. CASE k # n
            BY <3>1, <3>3, <3>4, <3>7
        <3> QED
            BY <3>6, <3>7
    <2> QED
        BY <2>1, <2>5 DEF Front
<1> QED
    BY <1>1, <1>2

LEMMA NothingFronts ==
    ASSUME NEW mod, IsModule(mod), NEW y, y = Constructed(mod),
           NEW u, u = Emit(y, Declarations(y))
    PROVE  Front(u, mod, 0)
<1> DEFINE i == Declarations(y)
<1>1. /\ y \in Objects /\ y.bytes = << >> /\ y.section = -1 /\ y.listing = << >>
      /\ y.pc = 0 /\ y.next_label = -1 /\ y.symbols = mod.symbols
      /\ \A n \in DOMAIN y.sections : n \in 0 .. 255 /\ y.sections[n] = Entry(mod, n)
    BY ConstructedType, ZenonT(40)
<1>2. Len(y.listing) = 0 /\ DOMAIN y.listing = {} /\ Knowing(y)[0] = Outset(y)
    BY <1>1, KnowingRuns, EmptySeq
<1>3. Come(y) = Outset(y)
    BY <1>2 DEF Come
<1>10. i \in ListingItem /\ i.kind = "symbols"
    <2>1. mod.symbols \subseteq ObjectSymbol
        BY DEF IsModule
    <2> DEFINE variables == {k \in y.symbols : k.variable}
               externs == {k \in y.symbols : k.kind = "undefined"}
               publics == {k \in variables : k.global}
    <2>2. /\ externs \in SUBSET ObjectSymbol /\ variables \in SUBSET ObjectSymbol
          /\ publics \in SUBSET ObjectSymbol
        BY <1>1, <2>1
    <2>3. i = [kind |-> "symbols", externs |-> externs, variables |-> variables,
               publics |-> publics]
        BY DEF Declarations
    <2> HIDE DEF i, externs, variables, publics
    <2> QED
        BY <2>2, <2>3 DEF ListingItem
<1>11. Declarations(u) = i /\ u = Emit(y, i)
    <2>1. u = Emit(y, i)
        OBVIOUS
    <2> HIDE DEF i
    <2>2. u.symbols = y.symbols
        BY <1>1, <1>10, <2>1, EmitFields
    <2> QED
        BY <2>1, <2>2 DEF i, Declarations
<1> HIDE DEF i
<1>12. /\ Printed(y, u, i) /\ u.sections = y.sections /\ u.bytes = << >> /\ u.pc = 0
       /\ u.next_label = -1 /\ u.section = -1 /\ u.symbols = mod.symbols
    BY <1>1, <1>10, <1>11, EmitFields
<1>13. u \in Objects /\ DOMAIN u.listing = {1} /\ u.listing[1] = i
       /\ Knowing(u)[1] = Come(u) /\ Come(u) = Follows(Come(y), i)
    <2>1. 0 + 1 = 1 /\ 1 .. 1 = {1}
        OBVIOUS
    <2>2. /\ DOMAIN u.listing = 1 .. 0 + 1 /\ u.listing[0 + 1] = i
          /\ Knowing(u)[0 + 1] = Come(u) /\ Come(u) = Follows(Come(y), i)
        BY <1>2, <1>12, PrintedKnowing
    <2> QED
        BY <1>12, <2>1, <2>2 DEF Printed
<1>14. Come(u) = Outset(y)
    BY <1>3, <1>10, <1>13 DEF Follows, Lines
<1>4. /\ Come(u).bytes = << >> /\ Come(u).section = -1
      /\ \A n \in DOMAIN u.sections : Come(u).at[n] = u.sections[n].org
    BY <1>12, <1>14 DEF Outset
<1>5. Listed(u, << >>)
    BY <1>10, <1>13 DEF Listed, ItemFits, Lines
<1>6. Declared(u)
    <2>1. ASSUME NEW n \in DOMAIN u.sections PROVE ~u.sections[n].processed
        <3>1. n \in 0 .. 255 /\ u.sections[n] = Entry(mod, n)
            BY <1>1, <1>12
        <3>2. Entry(mod, n).processed = FALSE
            BY <3>1, EntryType
        <3> QED
            BY <3>1, <3>2
    <2>2. \A n : HeadingsOf(u, n) = {}
        BY <1>10, <1>13 DEF HeadingsOf
    <2>3. Opens(u)
        BY <1>11, <1>13 DEF Opens
    <2> QED
        BY <1>10, <1>13, <2>1, <2>2, <2>3 DEF Declared
<1>7. \A l \in AllLabels(y, mod) : Sure(u, l)
    <2> SUFFICES ASSUME NEW l \in AllLabels(y, mod) PROVE Sure(u, l)
        OBVIOUS
    <2>1. l \in Entry(mod, l.section).labels /\ l.section \in DOMAIN y.sections
        BY AllLabelsAre
    <2>2. l \in Labels(u, l.section)
        BY <1>1, <1>12, <2>1 DEF Labels
    <2>3. Come(u).section # l.section
        <3>1. l.section \in 0 .. 255
            BY <1>1, <2>1
        <3>2. \A x \in 0 .. 255 : x # -1
            OBVIOUS
        <3> QED
            BY <1>4, <3>1, <3>2
    <2>4. Waits(u, l)
        BY <1>10, <1>13, <2>3 DEF Waits, PrintedAt, ComesTo
    <2> QED
        BY <2>2, <2>4 DEF Sure
<1>8. \A k \in DOMAIN u.sections : ~(k < 0)
    <2>1. \A k \in 0 .. 255 : ~(k < 0)
        OBVIOUS
    <2> QED
        BY <1>1, <1>12, <2>1
<1>9. Quiet(u)
    BY <1>12, <1>13 DEF Quiet
<1>15. \A k \in DOMAIN u.sections :
           u.sections[k] = Entry(mod, k) /\ Come(u).at[k] = Entry(mod, k).org
    BY <1>1, <1>4, <1>12
<1> QED
    BY <1>4, <1>5, <1>6, <1>7, <1>8, <1>9, <1>12, <1>15, ZenonT(60) DEF Front

LEMMA AllFronts ==
    ASSUME NEW mod, IsModule(mod), NEW c, c = Constructed(mod), NEW t, SectionTop(c, t),
           NEW y, y = Emit(c, Declarations(c))
    PROVE  Front(References(y), mod, t + 1)
<1>9. Front(y, mod, 0) /\ DOMAIN y.sections = DOMAIN c.sections
    <2>1. Front(y, mod, 0)
        BY NothingFronts
    <2> QED
        BY <2>1 DEF Front
<1>10. SectionTop(y, t)
    BY <1>9 DEF SectionTop
<1>1. PICK f : /\ f[0] = ReferenceStep(y, 0)
               /\ \A k \in 1 .. t : f[k] = ReferenceStep(f[k - 1], k)
               /\ References(y) = f[t]
    BY <1>10, ReferencesRun
<1>2. t \in 4 .. 255 /\ DOMAIN y.sections = 0 .. t
    BY <1>10 DEF SectionTop
<1>3. t \in Nat
    BY <1>2
<1> DEFINE S == {i \in Nat : i > t \/ Front(f[i], mod, i + 1)}
<1>4. 0 \in S
    <2>1. Front(y, mod, 0) /\ 0 \in DOMAIN y.sections
        BY <1>2, <1>3, <1>9
    <2> DEFINE w == f[0]
    <2>2. w = ReferenceStep(y, 0)
        BY <1>1
    <2> HIDE DEF w
    <2>3. Front(w, mod, 0 + 1)
        BY <2>1, <2>2, StepFronts
    <2> QED
        BY <2>3 DEF w
<1>5. ASSUME NEW i \in Nat, i \in S PROVE i + 1 \in S
    <2>1. CASE i + 1 > t
        BY <2>1
    <2>2. CASE ~(i + 1 > t)
        <3> DEFINE k == i + 1
                   v == f[i]
                   w == f[k]
        <3>1. k \in 1 .. t /\ k - 1 = i /\ ~(i > t) /\ k \in 0 .. t
            BY <1>3, <2>2
        <3>2. Front(v, mod, k)
            BY <1>5, <3>1
        <3>3. w = ReferenceStep(v, k)
            BY <1>1, <3>1
        <3> HIDE DEF k, v, w
        <3>6. DOMAIN v.sections = DOMAIN Constructed(mod).sections
            BY <3>2 DEF Front
        <3>4. k \in DOMAIN v.sections
            BY <1>2, <1>9, <3>1, <3>6
        <3>5. Front(w, mod, k + 1)
            BY <3>2, <3>3, <3>4, StepFronts
        <3> QED
            BY <3>5 DEF w, k
    <2> QED
        BY <2>1, <2>2
<1>6. t \in S
    <2> HIDE DEF S
    <2> QED
        BY <1>3, <1>4, <1>5, NatSets
<1>7. ~(t > t)
    BY <1>3
<1> QED
    BY <1>1, <1>6, <1>7

EntryFronts(v, mod, k, c, d) ==
    /\ k \in 0 .. 255 /\ d \in SectionEntry /\ c \in SectionEntry /\ c.pc = c.org
    /\ d = [c EXCEPT !.labels = d.labels, !.processed = d.processed]
    /\ d.pc = c.org /\ d.org = c.org /\ d.ref_only = c.ref_only
    /\ d.labels \subseteq c.labels /\ (d.processed => k \in DOMAIN mod.sections)
    /\ d.ref_only => d.labels = {} /\ (k \in DOMAIN mod.sections /\ d.org = 0 => IsEnd(v, mod, k))
    /\ ~d.ref_only => d.labels = c.labels /\ Come(v).at[k] = d.org

LEMMA FrontEntries ==
    ASSUME NEW mod, IsModule(mod), NEW v, NEW t \in Nat, DOMAIN v.sections = 0 .. t,
           Front(v, mod, t + 1),
           NEW k \in DOMAIN v.sections
    PROVE  EntryFronts(v, mod, k, Entry(mod, k), v.sections[k])
<1> DEFINE c == Entry(mod, k)
           d == v.sections[k]
<1>1. v \in Objects
    BY DEF Front, Quiet
<1>2. k \in 0 .. 255 /\ d \in SectionEntry
    BY <1>1, EntryFields
<1>3. c \in SectionEntry /\ c.pc = c.org
    <2>1. k \in 0 .. 255
        BY <1>2
    <2>2. Entry(mod, k) \in SectionEntry
        BY <2>1, EntryType
    <2>3. Entry(mod, k).pc = Entry(mod, k).org
        BY DEF Entry
    <2> QED
        BY <2>2, <2>3
<1>4. k < t + 1
    <2>1. k \in 0 .. t /\ k \in Nat
        BY <1>2
    <2> QED
        BY <2>1
<1>5. \/ /\ d = c /\ Come(v).at[k] = c.org
         /\ c.ref_only => c.size = 0 /\ c.labels = {}
      \/ /\ c.ref_only /\ d = [c EXCEPT !.processed = TRUE, !.labels = {}]
         /\ c.org = 0 => IsEnd(v, mod, k)
    BY <1>4 DEF Front
<1>6. c.ref_only /\ c.size = 0 /\ c.labels = {} /\ Come(v).at[k] = c.org /\ c.org = 0
      /\ k \in DOMAIN mod.sections => IsEnd(v, mod, k)
    <2> SUFFICES ASSUME c.ref_only, c.size = 0, c.labels = {}, Come(v).at[k] = c.org, c.org = 0,
                        k \in DOMAIN mod.sections
                 PROVE  IsEnd(v, mod, k)
        OBVIOUS
    <2>1. mod.sections[k].size = 0 /\ ModuleLabels(mod, k) = {}
        BY <1>2, EntryType
    <2> DEFINE ends == {mod.sections[k].size} \cup {l.offset : l \in ModuleLabels(mod, k)}
    <2>2. ends = {0}
        BY <2>1
    <2>3. Come(v).at[k] = 0
        OBVIOUS
    <2>4. 0 <= 0
        OBVIOUS
    <2>5. Come(v).at[k] \in ends /\ \A x \in ends : x <= Come(v).at[k]
        <3> HIDE DEF ends, c
        <3> QED
            BY <2>2, <2>3, <2>4
    <2> QED
        BY <2>5 DEF IsEnd
<1> HIDE DEF c, d
<1>7. CASE d = c
    <2>1. d = [c EXCEPT !.labels = d.labels, !.processed = d.processed]
        BY <1>3, <1>7 DEF SectionEntry
    <2>2. c.org = d.org /\ c.ref_only = d.ref_only /\ c.labels = d.labels /\ c.pc = d.pc
        BY <1>7
    <2>3. ~d.ref_only => Come(v).at[k] = d.org
        BY <1>5, <1>7
    <2>4. d.ref_only => d.labels = {}
          /\ (k \in DOMAIN mod.sections /\ d.org = 0 => IsEnd(v, mod, k))
        <3> SUFFICES ASSUME d.ref_only
                     PROVE  d.labels = {}
                            /\ (k \in DOMAIN mod.sections /\ d.org = 0 => IsEnd(v, mod, k))
            OBVIOUS
        <3>1. c.ref_only
            BY <1>7
        <3>2. (c.labels = {} /\ c.size = 0 /\ Come(v).at[k] = c.org)
              \/ (c.org = 0 => IsEnd(v, mod, k))
            BY <1>5, <3>1
        <3>3. d.labels = {}
            <4>1. [c EXCEPT !.processed = TRUE, !.labels = {}].labels = {}
                BY <1>3 DEF SectionEntry
            <4> QED
                BY <1>5, <1>7, <3>1, <4>1
        <3>4. c.labels = {}
            BY <1>7, <3>3
        <3>5. ASSUME k \in DOMAIN mod.sections, c.org = 0 PROVE IsEnd(v, mod, k)
            BY <1>6, <3>1, <3>2, <3>5
        <3> QED
            BY <1>7, <3>3, <3>5
    <2>6. d.processed = FALSE
        BY <1>2, <1>7, EntryType DEF c
    <2>5. EntryFronts(v, mod, k, c, d)
        BY <1>2, <1>3, <2>1, <2>2, <2>3, <2>4, <2>6 DEF EntryFronts
    <2> QED
        BY <2>5 DEF c, d
<1>8. CASE c.ref_only /\ d = [c EXCEPT !.processed = TRUE, !.labels = {}]
      /\ (c.org = 0 => IsEnd(v, mod, k))
    <2>1. /\ d.labels = {} /\ d.processed = TRUE /\ d.pc = c.pc /\ d.org = c.org
             /\ d.ref_only = c.ref_only
        BY <1>3, <1>8 DEF SectionEntry
    <2>2. d = [c EXCEPT !.labels = d.labels, !.processed = d.processed]
        <3>1. d = [c EXCEPT !.labels = {}, !.processed = TRUE]
            BY <1>3, <1>8 DEF SectionEntry
        <3> QED
            BY <2>1, <3>1
    <2>4. k \in DOMAIN mod.sections
        BY <1>2, <1>8, EntryLabels DEF c
    <2>3. EntryFronts(v, mod, k, c, d)
        BY <1>2, <1>3, <1>8, <2>1, <2>2, <2>4 DEF EntryFronts
    <2> QED
        BY <2>3 DEF c, d
<1> QED
    BY <1>5, <1>7, <1>8

LEMMA FrontBetween ==
    ASSUME NEW mod, IsModule(mod), NEW v, NEW t \in Nat, DOMAIN v.sections = 0 .. t,
           Front(v, mod, t + 1)
    PROVE  Between(v, << >>, 0, AllLabels(Constructed(mod), mod))
<1> DEFINE L == AllLabels(Constructed(mod), mod)
<1>1. /\ v \in Objects /\ v.bytes = << >> /\ v.next_label = -1 /\ Listed(v, << >>) /\ Declared(v)
      /\ Come(v).bytes = << >> /\ DOMAIN v.sections = DOMAIN Constructed(mod).sections
    BY DEF Front, Quiet
<1>2. \A l \in L : l \in ObjectSymbol /\ l.section \in DOMAIN v.sections /\ Sure(v, l)
    BY <1>1, AllLabelsAre DEF Front
<1>3. Unmixed(v)
    <2> SUFFICES ASSUME NEW n \in DOMAIN v.sections
                 PROVE  /\ \A l \in Labels(v, n) : l.section = n /\ IsLabel(l)
                        /\ v.sections[n].ref_only => Labels(v, n) = {}
        BY DEF Unmixed
    <2>1. /\ n \in 0 .. 255 /\ Labels(v, n) \subseteq Entry(mod, n).labels
          /\ v.sections[n].ref_only => Labels(v, n) = {}
        BY FrontEntries DEF Labels, EntryFronts
    <2>2. Entry(mod, n).labels = IF n \in DOMAIN mod.sections THEN ModuleLabels(mod, n) ELSE {}
        BY <2>1, EntryType
    <2> QED
        BY <2>1, <2>2 DEF ModuleLabels
<1>4. Found(v, L)
    BY <1>2 DEF Found, Traced, Sure, Waits, StillToCome
<1>5. ASSUME NEW n \in DOMAIN v.sections, ~v.sections[n].ref_only
      PROVE  Come(v).at[n] = v.sections[n].pc
    <2> DEFINE d == v.sections[n]
               o == Entry(mod, n).org
    <2>1. EntryFronts(v, mod, n, Entry(mod, n), d)
        BY FrontEntries
    <2>2. d.pc = o /\ d.org = o /\ (~d.ref_only => Come(v).at[n] = d.org)
        BY <2>1 DEF EntryFronts
    <2> HIDE DEF o
    <2> QED
        BY <1>5, <2>2
<1>6. Count(0) = << >> /\ Len(<< >>) = 0
    BY EmptySeq DEF Count
<1>7. ASSUME NEW l \in L, l \in Labels(v, l.section)
      PROVE  Come(v).section # l.section
    <2>1. l.section # -1
        <3>1. l.section \in DOMAIN v.sections
            BY <1>2
        <3>2. \A n \in DOMAIN v.sections : n \in 0 .. 255
            BY <1>1, EntryFields
        <3>3. l.section \in 0 .. 255
            BY <3>1, <3>2
        <3>4. \A x \in 0 .. 255 : x # -1
            OBVIOUS
        <3> QED
            BY <3>3, <3>4
    <2>2. Come(v).section = -1 \/ Labels(v, Come(v).section) = {}
        BY DEF Front
    <2> QED
        BY <1>7, <2>1, <2>2
<1>8. v.next_label < 0
    BY <1>1
<1> QED
    BY <1>1, <1>2, <1>3, <1>4, <1>5, <1>6, <1>7, <1>8 DEF Between

(* Then the first section is entered.                                      *)
LEMMA BeginsReady ==
    ASSUME NEW mod, IsModule(mod), NEW w, w = FrontMatter(Constructed(mod)),
           NEW h, h = [n \in DOMAIN w.sections |-> w.sections[n].org]
    PROVE  /\ Ready(w, << >>, 0, AllLabels(w, mod)) /\ Kept(w, mod) /\ Apart(w, mod, {1})
           /\ w.section = 1 /\ 1 \in DOMAIN w.sections /\ h \in [DOMAIN w.sections -> Nat]
           /\ Homes(w, h, 0)
<1> DEFINE y == Constructed(mod)
           u == Emit(y, Declarations(y))
           v == References(u)
           L == AllLabels(y, mod)
<1>1. PICK t \in 4 .. 255 : DOMAIN y.sections = 0 .. t
    BY ConstructedType, ZenonT(40)
<1>2. y \in Objects /\ \A n \in DOMAIN y.sections : n \in 0 .. 255 /\ y.sections[n] = Entry(mod, n)
    BY ConstructedType
<1>3. Front(v, mod, t + 1) /\ DOMAIN v.sections = 0 .. t /\ t \in Nat
    <2>1. Front(v, mod, t + 1)
        BY <1>1, AllFronts DEF SectionTop
    <2>2. DOMAIN v.sections = DOMAIN y.sections
        BY <2>1 DEF Front
    <2>3. t \in Nat
        BY <1>1
    <2> HIDE DEF y, v
    <2> QED
        BY <1>1, <2>1, <2>2, <2>3
<1>4. 1 \in DOMAIN v.sections
    <2>1. t \in Nat /\ t >= 1
        BY <1>1
    <2> QED
        BY <1>3, <2>1
<1>5. Between(v, << >>, 0, L) /\ v.section = -1
    <2>1. Between(v, << >>, 0, L)
        BY <1>3, FrontBetween
    <2> QED
        BY <1>3, <2>1 DEF Front, Quiet
<1>6. w = SetSection(v, 1)
    BY DEF FrontMatter
<1>16. v.symbols = mod.symbols /\ y.symbols = mod.symbols
    BY <1>3, ConstructedType DEF Front
<1> HIDE DEF y, u, v
<1>7. w = Enter(v, 1)
    <2>1. ~(1 = v.section) /\ ~Invalid(v, 1)
        BY <1>4, <1>5 DEF Invalid
    <2>2. Left(v) = v
        BY <1>5 DEF Left
    <2> QED
        BY <1>6, <2>1, <2>2 DEF SetSection, Enter
<1>8. /\ Ready(w, << >>, 0, L) /\ Enters(v, w, 1)
      /\ w.section = 1 /\ w.bytes = << >> /\ w.pc = v.sections[1].pc
    <2> DEFINE n == 1
    <2>1. n \in DOMAIN v.sections /\ w = Enter(v, n)
        BY <1>4, <1>7
    <2> HIDE DEF n, L
    <2>2. /\ Ready(w, << >>, 0, L) /\ Enters(v, w, n)
          /\ w.section = n /\ w.bytes = << >> /\ w.pc = v.sections[n].pc
        BY <1>5, <2>1, Entered
    <2> QED
        BY <2>2 DEF n
<1>9. DOMAIN w.sections = DOMAIN v.sections /\ DOMAIN v.sections = DOMAIN y.sections
      /\ w \in Objects /\ w.symbols = y.symbols
    BY <1>1, <1>3, <1>8, <1>16 DEF Enters, Ready, Stands
<1>10. ASSUME NEW k \in DOMAIN w.sections
       PROVE  /\ SameSection(w.sections[k], y.sections[k]) /\ y.sections[k].processed = FALSE
              /\ w.sections[k].pc = w.sections[k].org /\ w.sections[k].org \in Nat
              /\ k = 1 => w.sections[k].processed /\ w.pc = w.sections[k].org
              /\ w.sections[k].processed => k = 1 \/ k \in DOMAIN mod.sections
              /\ k # 1 => /\ Labels(w, k) = Labels(v, k)
                          /\ Come(w).at[k] = Come(v).at[k]
                          /\ w.sections[k].ref_only = v.sections[k].ref_only
                          /\ w.sections[k].org = v.sections[k].org
    <2> DEFINE c == Entry(mod, k)
               d == v.sections[k]
               g == w.sections[k]
    <2>1. /\ k \in 0 .. 255 /\ d \in SectionEntry /\ c \in SectionEntry /\ c.pc = c.org
          /\ d = [c EXCEPT !.labels = d.labels, !.processed = d.processed]
          /\ d.pc = c.org /\ d.org = c.org /\ d.ref_only = c.ref_only
          /\ d.processed => k \in DOMAIN mod.sections
        <3>1. EntryFronts(v, mod, k, c, d)
            BY <1>3, <1>9, FrontEntries
        <3> HIDE DEF c, d
        <3> QED
            BY <3>1 DEF EntryFronts
    <2>2. g = [d EXCEPT !.labels = g.labels, !.processed = g.processed]
        BY <1>8, <1>9 DEF Enters, Labels
    <2>3. g.processed = (d.processed \/ k = 1)
        BY <1>8, <1>9 DEF Enters
    <2>4. k # 1 => Labels(w, k) = Labels(v, k) /\ Come(w).at[k] = Come(v).at[k]
        BY <1>8, <1>9 DEF Enters
    <2>5. y.sections[k] = c /\ c.processed = FALSE
        <3>1. k \in 0 .. 255 /\ y.sections[k] = Entry(mod, k)
            BY <1>2, <1>9
        <3>2. Entry(mod, k).processed = FALSE
            BY <3>1, EntryType
        <3> QED
            BY <3>1, <3>2
    <2>6. k = 1 => w.pc = d.pc
        BY <1>8
    <2> HIDE DEF c, d, g
    <2>7. /\ g.pc = d.pc /\ g.org = d.org /\ g.ref_only = d.ref_only /\ c.org \in Nat
        BY <2>1, <2>2 DEF SectionEntry
    <2>8. SameSection(g, c)
        <3>1. g = [c EXCEPT !.labels = g.labels, !.processed = g.processed]
            BY <2>1, <2>2 DEF SectionEntry
        <3>2. g.pc = c.pc
            BY <2>1, <2>7
        <3>3. g = [c EXCEPT !.labels = g.labels, !.processed = g.processed, !.pc = g.pc]
            BY <2>1, <3>1, <3>2 DEF SectionEntry
        <3> QED
            BY <3>3 DEF SameSection
    <2>9. SameSection(w.sections[k], y.sections[k]) /\ y.sections[k].processed = FALSE
        BY <2>5, <2>8 DEF g
    <2>10. w.sections[k].pc = w.sections[k].org /\ w.sections[k].org \in Nat
        BY <2>1, <2>7 DEF g
    <2>11. k = 1 => w.sections[k].processed /\ w.pc = w.sections[k].org
        BY <2>1, <2>3, <2>6, <2>7 DEF g
    <2>12. w.sections[k].ref_only = v.sections[k].ref_only /\ w.sections[k].org = v.sections[k].org
        BY <2>7 DEF g, d
    <2>13. w.sections[k].processed => k = 1 \/ k \in DOMAIN mod.sections
        BY <2>1, <2>3 DEF g
    <2> QED
        BY <2>4, <2>9, <2>10, <2>11, <2>12, <2>13
<1>11. Keeps(y, w)
    BY <1>9, <1>10 DEF Keeps
<1>12. Kept(w, mod) /\ AllLabels(w, mod) = L
    <2>1. Kept(y, mod)
        <3>1. ASSUME NEW n \in DOMAIN y.sections
              PROVE  SameSection(y.sections[n], Entry(mod, n))
            <4> DEFINE e == Entry(mod, n)
            <4>1. e \in SectionEntry /\ y.sections[n] = e
                BY <1>2, EntryType
            <4> HIDE DEF e
            <4>2. SameSection(e, e)
                BY <4>1 DEF SameSection, SectionEntry
            <4> QED
                BY <4>1, <4>2 DEF e
        <3> QED
            BY <1>16, <3>1 DEF Kept, y
    <2> QED
        BY <1>2, <1>11, <2>1, KeepsKept
<1>13. Apart(w, mod, {1})
    <2>4. \A n \in DOMAIN w.sections \ DOMAIN mod.sections :
              n \in {1} <=> w.sections[n].processed
        BY <1>10
    <2> SUFFICES ASSUME NEW n \in DOMAIN mod.sections
                 PROVE  IF n \in {1} THEN w.sections[n].processed
                        ELSE IF w.sections[n].ref_only THEN w.sections[n].org = 0
                            => IsEnd(w, mod, n)
                        ELSE Labels(w, n) = ModuleLabels(mod, n)
        BY <2>4 DEF Apart
    <2>1. n \in DOMAIN w.sections
        BY <1>9, ConstructedType, ZenonT(60) DEF y
    <2>2. CASE n = 1
        BY <1>10, <2>1, <2>2
    <2>3. CASE n # 1
        <3>1. /\ Labels(w, n) = Labels(v, n) /\ Come(w).at[n] = Come(v).at[n]
              /\ w.sections[n].ref_only = v.sections[n].ref_only
              /\ w.sections[n].org = v.sections[n].org
            BY <1>10, <2>1, <2>3
        <3>2. /\ n \in 0 .. 255
              /\ v.sections[n].ref_only => (v.sections[n].org = 0 => IsEnd(v, mod, n))
              /\ ~v.sections[n].ref_only => Labels(v, n) = Entry(mod, n).labels
            BY <1>3, <1>9, <2>1, FrontEntries DEF Labels, EntryFronts
        <3>3. Entry(mod, n).labels = ModuleLabels(mod, n)
            BY <3>2, EntryType
        <3> QED
            BY <2>3, <3>1, <3>2, <3>3 DEF IsEnd
    <2> QED
        BY <2>2, <2>3
<1>14. h \in [DOMAIN w.sections -> Nat]
    BY <1>10
<1>15. Homes(w, h, 0)
    <2> SUFFICES ASSUME NEW n \in DOMAIN w.sections
                 PROVE  h[n] = Place(w, n) + IF n = w.section THEN 0 ELSE 0
        BY DEF Homes
    <2>1. h[n] = w.sections[n].org /\ w.sections[n].org \in Nat
        BY <1>10
    <2>2. Place(w, n) = w.sections[n].org
        <3>1. CASE n = 1
            <4>1. Len(w.bytes) = 0
                BY <1>8, EmptySeq
            <4>2. w.pc = w.sections[n].org
                BY <1>10, <3>1
            <4> QED
                BY <1>8, <2>1, <3>1, <4>1, <4>2 DEF Place
        <3>2. CASE n # 1
            BY <1>8, <1>10, <3>2 DEF Place
        <3> QED
            BY <3>1, <3>2
    <2> QED
        BY <2>1, <2>2
<1> QED
    BY <1>4, <1>8, <1>9, <1>12, <1>13, <1>14, <1>15

LEMMA BeginModuleStep ==
    ASSUME ListingInv, BeginModule
    PROVE  ListingInv'
<1> DEFINE mod == Head(modules)
           w == FrontMatter(Constructed(mod))
<1>1. /\ modules # << >> /\ module' = mod /\ z' = w /\ entered' = {1}
      /\ home' = [n \in DOMAIN w.sections |-> w.sections[n].org]
      /\ next' = 1 /\ rest' = 0 /\ fed' = << >> /\ modules' = Tail(modules)
      /\ phase' = "records" /\ files' = files
    BY DEF BeginModule, Reads
<1>2. /\ files \in Seq(Range(files)) /\ \A f \in DOMAIN files : IsFile(files[f])
      /\ modules \in Seq(Range(modules)) /\ \A m \in DOMAIN modules : IsModule(modules[m])
    BY DEF ListingInv, InputInv
<1>3. IsModule(mod) /\ modules' \in Seq(Range(modules'))
      /\ \A m \in DOMAIN modules' : IsModule(modules'[m])
    BY <1>1, <1>2, TailIs
<1> DEFINE h == home'
           L == AllLabels(w, mod)
<1>4. /\ Ready(w, << >>, 0, L) /\ Kept(w, mod) /\ Apart(w, mod, {1})
      /\ w.section = 1 /\ 1 \in DOMAIN w.sections /\ h \in [DOMAIN w.sections -> Nat]
      /\ Homes(w, h, 0)
    <2>1. h = [n \in DOMAIN w.sections |-> w.sections[n].org]
        BY <1>1
    <2> DEFINE x == w
    <2>2. x = FrontMatter(Constructed(mod)) /\ h = [n \in DOMAIN x.sections |-> x.sections[n].org]
        BY <2>1
    <2> HIDE DEF x, h, mod
    <2>3. /\ Ready(x, << >>, 0, AllLabels(x, mod)) /\ Kept(x, mod) /\ Apart(x, mod, {1})
          /\ x.section = 1 /\ 1 \in DOMAIN x.sections /\ h \in [DOMAIN x.sections -> Nat]
          /\ Homes(x, h, 0)
        BY <1>3, <2>2, BeginsReady
    <2> QED
        BY <2>3 DEF x
<1>5. InputInv'
    <2>1. Len(mod.records) \in Nat
        BY <1>3 DEF IsModule
    <2>2. 1 \in 1 .. Len(mod.records) + 1
        BY <2>1
    <2> QED
        BY <1>1, <1>2, <1>3, <2>2 DEF InputInv
<1>6. Pending' = 0 /\ << >> \in Seq(Places) /\ Len(<< >>) = 0
    <2>1. Pending' = 0
        BY <1>1 DEF Pending
    <2> QED
        BY <2>1, EmptySeq
<1>7. Lasts(w, << >>, h, mod, {1}, 0)
    <2>1. {1} \subseteq DOMAIN w.sections /\ 0 \in Nat
        BY <1>4
    <2> DEFINE m == Len(<< >>)
               E == {1}
               f == << >>
    <2>2. Ready(w, f, m, L) /\ f \in Seq(Places) /\ E \subseteq DOMAIN w.sections
        BY <1>4, <1>6, <2>1
    <2> HIDE DEF w, h, L, E, mod
    <2>3. Lasts(w, f, h, mod, E, 0)
        BY <1>4, <2>1, <2>2, ReadyLasts
    <2> QED
        BY <2>3 DEF E
<1> HIDE DEF w, mod
<1>8. HomeInv'
    BY <1>1, <1>4, <1>6 DEF HomeInv, h
<1>9. LiveInv'
    <2>1. Stands(w, << >>, 0, L) /\ Settled(w)
        BY <1>4 DEF Ready
    <2>2. Stands(w, << >>, Len(<< >>), L)
        BY <1>6, <2>1
    <2>3. 1 \in {1}
        OBVIOUS
    <2> QED
        BY <1>1, <1>4, <2>1, <2>2, <2>3 DEF LiveInv
<1>10. OverInv' /\ AlwaysInv'
    BY <1>1, <1>4, <1>6, <1>7 DEF OverInv, AlwaysInv, h
<1> QED
    BY <1>5, <1>8, <1>9, <1>10 DEF ListingInv

(* The end of a listing: what the sections that are left are told.         *)
Past(y, l) ==
    /\ Waits(y, l) /\ ~y.sections[l.section].ref_only
    /\ \/ Come(y).at[l.section] # l.offset
       \/ y.sections[l.section].processed /\ Come(y).section # l.section

LEMMA PastStays ==
    ASSUME NEW w, NEW x, NEW i, Printed(w, x, i), NEW l, l.section \in DOMAIN w.sections,
           i.kind # "labels", Come(x).at = Come(w).at, Past(w, l),
           Come(x).section = l.section
               => Come(w).section = l.section \/ ~w.sections[l.section].processed,
           w.sections[l.section].processed => x.sections[l.section].processed
    PROVE  Past(x, l)
<1>1. /\ PrintedAt(x, l) = PrintedAt(w, l)
      /\ \A k \in DOMAIN w.listing : ComesTo(x, l, k) => ComesTo(w, l, k)
      /\ ComesTo(x, l, Len(w.listing) + 1)
         => Come(x).section = l.section /\ Here(Come(x)) = l.offset
    BY PrintedTraces
<1>2. DOMAIN w.listing = 1 .. Len(w.listing) /\ DOMAIN x.listing = 1 .. Len(w.listing) + 1
      /\ Len(w.listing) \in Nat
    BY PrintedKnowing
<1>3. PrintedAt(w, l) = {} /\ \A k \in DOMAIN w.listing : ~ComesTo(w, l, k)
    BY DEF Past, Waits
<1>4. Come(x).at[l.section] # l.offset \/ Come(x).section # l.section
    BY DEF Past
<1>5. ~ComesTo(x, l, Len(w.listing) + 1)
    BY <1>1, <1>4 DEF Here
<1>6. \A k \in DOMAIN x.listing : ~ComesTo(x, l, k)
    <2> SUFFICES ASSUME NEW k \in DOMAIN x.listing PROVE ~ComesTo(x, l, k)
        OBVIOUS
    <2>1. k \in DOMAIN w.listing \/ k = Len(w.listing) + 1
        BY <1>2
    <2> QED
        BY <1>1, <1>3, <1>5, <2>1
<1>7. Waits(x, l)
    BY <1>1, <1>3, <1>6 DEF Waits
<1>8. \/ Come(x).at[l.section] # l.offset
      \/ x.sections[l.section].processed /\ Come(x).section # l.section
    BY DEF Past
<1>9. ~x.sections[l.section].ref_only
    BY DEF Past, Printed, SameKinds
<1> QED
    BY <1>7, <1>8, <1>9 DEF Past

Rests(y, w, l, E) ==
    IF l.section \in E \/ y.sections[l.section].ref_only
    THEN IsPrinted(w, l) \/ Past(w, l) ELSE PrintedAt(w, l) = {}
ClosedTable(y, w) ==
    /\ w.symbols = y.symbols /\ DOMAIN w.sections = DOMAIN y.sections
    /\ \A k \in DOMAIN y.sections :
           /\ w.sections[k] = [y.sections[k] EXCEPT !.processed = w.sections[k].processed]
           /\ y.sections[k].processed => w.sections[k].processed
           /\ w.sections[k].processed => y.sections[k].processed \/ y.sections[k].valid
Closed(y, w, f, L, E) ==
    /\ w \in Objects /\ w.section = -1 /\ w.bytes = << >>
    /\ y \in Objects /\ ClosedTable(y, w)
    /\ Come(w).at = Come(y).at /\ Come(w).bytes = Come(y).bytes
    /\ Listed(w, f) /\ Declared(w)
    /\ \A l \in L : l.section \in DOMAIN y.sections /\ (Forward(w) => Rests(y, w, l, E))

LEMMA RestsStays ==
    ASSUME NEW y, NEW f, NEW L, NEW E, NEW w, Closed(y, w, f, L, E),
           NEW x, NEW i, Printed(w, x, i), i.kind # "labels", Come(x).at = Come(w).at,
           NEW n, Come(x).section = Come(w).section
               \/ (Come(x).section = n /\ ~w.sections[n].processed),
           \A k \in DOMAIN w.sections : w.sections[k].processed => x.sections[k].processed
    PROVE  \A l \in L : l.section \in DOMAIN y.sections /\ (Forward(x) => Rests(y, x, l, E))
<1> SUFFICES ASSUME NEW l \in L, Forward(x) PROVE Rests(y, x, l, E)
    BY DEF Closed
<1>1. Forward(w)
    BY ForwardBefore
<1>2. Rests(y, w, l, E) /\ l.section \in DOMAIN w.sections
    BY <1>1 DEF Closed, ClosedTable
<1>3. PrintedAt(x, l) = PrintedAt(w, l) /\ (IsPrinted(w, l) => IsPrinted(x, l))
    BY <1>2, MarksStay
<1>4. Past(w, l) => Past(x, l)
    BY <1>2, PastStays
<1> QED
    BY <1>2, <1>3, <1>4 DEF Rests

LEMMA ClosedEnds ==
    ASSUME NEW y, NEW f, NEW L, NEW E, NEW w, Closed(y, w, f, L, E), NEW x, x = Ends(w)
    PROVE  Closed(y, x, f, L, E) /\ x.sections = w.sections
<1> DEFINE i == [kind |-> "ends"]
<1>1. i \in ListingItem /\ i.kind = "ends" /\ x = Emit(w, i)
    BY DEF ListingItem, Ends
<1>2. w \in Objects
    BY DEF Closed
<1> HIDE DEF i
<1>3. /\ Printed(w, x, i) /\ x.sections = w.sections /\ x.bytes = w.bytes /\ x.section = w.section
      /\ x.symbols = w.symbols
    BY <1>1, <1>2, EmitFields
<1>4. Come(x) = Follows(Come(w), i)
    BY <1>3, PrintedKnowing
<1>5. Come(x) = Come(w)
    BY <1>1, <1>4 DEF Follows, Lines
<1>6. i.kind \notin Lines /\ i.kind # "labels" /\ i.kind \notin {"section", "symbols"}
    BY <1>1 DEF Lines
<1>7. Listed(x, f)
    BY <1>3, <1>6, ListedGrows DEF Closed
<1>8. Declared(x)
    BY <1>3, <1>6, DeclaredStays DEF Closed
<1>9. \A l \in L : l.section \in DOMAIN y.sections /\ (Forward(x) => Rests(y, x, l, E))
    <2> DEFINE n == 0
    <2>1. Come(x).section = Come(w).section \/ (Come(x).section = n /\ ~w.sections[n].processed)
        <3>1. Come(x).section = Come(w).section
            BY <1>5
        <3> QED
            BY <3>1
    <2>2. \A k \in DOMAIN w.sections : w.sections[k].processed => x.sections[k].processed
        BY <1>3
    <2>3. Come(x).at = Come(w).at
        BY <1>5
    <2> HIDE DEF n
    <2> QED
        BY <1>3, <1>6, <2>1, <2>2, <2>3, RestsStays
<1> QED
    BY <1>3, <1>5, <1>7, <1>8, <1>9 DEF Closed, ClosedTable, Printed

LEMMA SectionPrinted ==
    ASSUME NEW v \in Objects, NEW n \in DOMAIN v.sections, NEW u, u = PrintSection(v, n)
    PROVE  /\ Printed(v, u, Heading(v, n))
              /\ u.sections = [v.sections EXCEPT ![n] = NamedEntry(v, n)]
           /\ u.bytes = v.bytes /\ u.section = v.section /\ u.symbols = v.symbols
<1> DEFINE h == Heading(v, n)
           a == Append(v.listing, h)
           e == NamedEntry(v, n)
           d == v.sections[n]
           t == [v.sections EXCEPT ![n] = e]
<1>1. h \in ListingItem /\ e \in SectionEntry /\ a \in Seq(ListingItem)
    BY HeadingType
<1>2. d \in SectionEntry
    BY EntryFields
<1>3. /\ e.org = d.org /\ e.data = d.data /\ e.ref_only = d.ref_only
      /\ e.valid = d.valid /\ e.offset = d.offset
    BY <1>2 DEF SectionEntry, NamedEntry
<1>4. u = [v EXCEPT !.listing = a, !.sections = t]
    BY DEF PrintSection, Emit, Objects, NamedEntry
<1> HIDE DEF h, a, e
<1>5. /\ t \in SectionTables /\ DOMAIN t = DOMAIN v.sections
      /\ \A k \in DOMAIN v.sections : t[k] = IF k = n THEN e ELSE v.sections[k]
    BY <1>1, Reentered
<1> HIDE DEF t
<1>6. u \in Objects
    BY <1>1, <1>4, <1>5, ZenonT(60) DEF Objects
<1>7. /\ u.listing = a /\ u.sections = t /\ u.bytes = v.bytes /\ u.section = v.section
      /\ u.symbols = v.symbols
    BY <1>4 DEF Objects
<1>8. Printed(v, u, h)
    BY <1>1, <1>3, <1>5, <1>6, <1>7 DEF Printed, SameKinds, a
<1> QED
    BY <1>7, <1>8 DEF t, e, h

LEMMA ClosedHeading ==
    ASSUME NEW y, NEW f, NEW L, NEW E, NEW w, Closed(y, w, f, L, E),
           NEW n \in DOMAIN w.sections, ~w.sections[n].processed, w.sections[n].valid,
           NEW x, x = PrintSection(w, n)
    PROVE  /\ Closed(y, x, f, L, E) /\ x.sections[n].processed
           /\ \A k \in DOMAIN w.sections : k # n => x.sections[k] = w.sections[k]
<1> DEFINE i == Heading(w, n)
           e == NamedEntry(w, n)
           d == w.sections[n]
<1>1. w \in Objects
    BY DEF Closed
<1>2. d \in SectionEntry /\ n \in 0 .. 255 /\ e \in SectionEntry
    BY <1>1, EntryFields, HeadingType
<1>3. /\ Printed(w, x, i) /\ x.sections = [w.sections EXCEPT ![n] = e]
      /\ x.bytes = w.bytes /\ x.section = w.section /\ x.symbols = w.symbols
    BY <1>1, SectionPrinted
<1>4. i.kind = "section" /\ i.number = n
    BY DEF Heading
<1>5. e = [d EXCEPT !.processed = TRUE] /\ e.processed = TRUE /\ e.publics = d.publics
      /\ e.equs = d.equs
    BY <1>2 DEF NamedEntry, SectionEntry
<1> HIDE DEF i, e
<1>6. \A k \in DOMAIN w.sections : x.sections[k] = IF k = n THEN e ELSE w.sections[k]
    BY <1>1, <1>2, <1>3, Reentered
<1>7. DOMAIN x.sections = DOMAIN w.sections
    BY <1>3 DEF Printed, SameKinds
<1>8. Come(x).section = n /\ Come(x).at = Come(w).at /\ Come(x).bytes = Come(w).bytes
    <2>1. Come(x) = Follows(Come(w), i) /\ Come(w) \in AssemblerStates(DOMAIN w.sections)
        BY <1>3, PrintedKnowing
    <2>2. Come(x) = [Come(w) EXCEPT !.section = n]
        BY <1>4, <2>1 DEF Follows, Lines
    <2> QED
        BY <2>1, <2>2 DEF AssemblerStates
<1>9. Listed(x, f)
    <2>1. i.kind \notin Lines /\ i.kind # "labels"
        BY <1>4 DEF Lines
    <2> QED
        BY <1>3, <2>1, ListedGrows DEF Closed
<1>10. Declared(x)
    <2>1. x.sections[n].processed
        BY <1>5, <1>6
    <2>2. \A v \in DOMAIN w.sections :
               /\ v # n => x.sections[v].processed = w.sections[v].processed
               /\ x.sections[v].publics = w.sections[v].publics
               /\ x.sections[v].equs = w.sections[v].equs
        BY <1>5, <1>6
    <2>3. Declared(w)
        BY DEF Closed
    <2> QED
        BY <1>3, <2>1, <2>2, <2>3, DeclaredGrows DEF i
<1>11. \A l \in L : l.section \in DOMAIN y.sections /\ (Forward(x) => Rests(y, x, l, E))
    <2>1. \A k \in DOMAIN w.sections : w.sections[k].processed => x.sections[k].processed
        BY <1>5, <1>6
    <2> QED
        BY <1>3, <1>4, <1>8, <2>1, RestsStays
<1>12. ClosedTable(y, x)
    <2>1. ASSUME NEW k \in DOMAIN y.sections
          PROVE  /\ x.sections[k] = [y.sections[k] EXCEPT !.processed = x.sections[k].processed]
                 /\ y.sections[k].processed => x.sections[k].processed
                 /\ x.sections[k].processed => y.sections[k].processed \/ y.sections[k].valid
        <3> DEFINE c == y.sections[k]
                   g == w.sections[k]
        <3>1. k \in DOMAIN w.sections /\ g = [c EXCEPT !.processed = g.processed]
              /\ (c.processed => g.processed) /\ y \in Objects
              /\ (g.processed => c.processed \/ c.valid)
            BY DEF Closed, ClosedTable
        <3>2. c \in SectionEntry
            BY <3>1, EntryFields
        <3> HIDE DEF c, g
        <3>3. CASE k = n
            <4>1. x.sections[k] = [g EXCEPT !.processed = TRUE] /\ x.sections[k].processed = TRUE
                BY <1>5, <1>6, <3>1, <3>3 DEF g
            <4>2. [g EXCEPT !.processed = TRUE] = [c EXCEPT !.processed = TRUE]
                BY <3>1, <3>2 DEF SectionEntry
            <4>3. g.valid = c.valid /\ g.valid
                BY <3>1, <3>2, <3>3 DEF SectionEntry, g
            <4> QED
                BY <4>1, <4>2, <4>3 DEF c
        <3>4. CASE k # n
            BY <1>6, <3>1, <3>4 DEF c, g
        <3> QED
            BY <3>3, <3>4
    <2>2. DOMAIN x.sections = DOMAIN y.sections /\ x.symbols = y.symbols
        BY <1>3, <1>7 DEF Closed, ClosedTable
    <2> QED
        BY <2>1, <2>2 DEF ClosedTable
<1>13. x \in Objects
    BY <1>3 DEF Printed
<1>14. Closed(y, x, f, L, E)
    BY <1>3, <1>8, <1>9, <1>10, <1>11, <1>12, <1>13 DEF Closed
<1> QED
    BY <1>5, <1>6, <1>14

Done(y, w, f, L, E, n) ==
    /\ Closed(y, w, f, L, E)
    /\ \A k \in DOMAIN y.sections : k < n /\ y.sections[k].valid => w.sections[k].processed

LEMMA StepCloses ==
    ASSUME NEW y, NEW f, NEW L, NEW E, NEW w, NEW n \in DOMAIN w.sections, Done(y, w, f, L, E, n),
           NEW x, x = RemainingStep(w, n)
    PROVE  Done(y, x, f, L, E, n + 1)
<1>1. /\ Closed(y, w, f, L, E) /\ y \in Objects /\ DOMAIN w.sections = DOMAIN y.sections
      /\ \A k \in DOMAIN y.sections : k < n /\ y.sections[k].valid => w.sections[k].processed
    BY DEF Done, Closed, ClosedTable
<1>2. \A k \in DOMAIN y.sections : k \in 0 .. 255
    BY <1>1, EntryFields
<1>3. \A k \in DOMAIN y.sections : k < n + 1 => k < n \/ k = n
    <2> SUFFICES ASSUME NEW k \in DOMAIN y.sections, k < n + 1 PROVE k < n \/ k = n
        OBVIOUS
    <2>1. k \in Nat /\ n \in Nat
        <3>1. k \in 0 .. 255 /\ n \in 0 .. 255
            BY <1>1, <1>2
        <3> QED
            BY <3>1
    <2> QED
        BY <2>1
<1>4. w.sections[n].valid = y.sections[n].valid
    <2>1. w.sections[n] = [y.sections[n] EXCEPT !.processed = w.sections[n].processed]
        BY <1>1 DEF Closed, ClosedTable
    <2>2. y.sections[n] \in SectionEntry
        BY <1>1, EntryFields
    <2> QED
        BY <2>1, <2>2 DEF SectionEntry
<1>5. CASE Unused(w, n)
    <2> DEFINE u == PrintSection(w, n)
    <2>1. x = Ends(u) /\ ~w.sections[n].processed /\ w.sections[n].valid
        BY <1>5 DEF RemainingStep, Unused
    <2>2. u = PrintSection(w, n)
        OBVIOUS
    <2> HIDE DEF u
    <2>3. /\ Closed(y, u, f, L, E) /\ u.sections[n].processed
          /\ \A k \in DOMAIN w.sections : k # n => u.sections[k] = w.sections[k]
        BY <1>1, <2>1, <2>2, ClosedHeading
    <2>4. Closed(y, x, f, L, E) /\ x.sections = u.sections
        BY <2>1, <2>3, ClosedEnds
    <2> QED
        BY <1>1, <1>3, <2>3, <2>4 DEF Done
<1>6. CASE ~Unused(w, n)
    <2>1. x = w /\ (y.sections[n].valid => w.sections[n].processed)
        BY <1>4, <1>6 DEF RemainingStep, Unused
    <2> QED
        BY <1>1, <1>3, <2>1 DEF Done
<1> QED
    BY <1>5, <1>6

LEMMA RemainingCloses ==
    ASSUME NEW y, NEW f, NEW L, NEW E, NEW v, Closed(y, v, f, L, E), NEW w, w = Remaining(v)
    PROVE  /\ Closed(y, w, f, L, E)
           /\ \A k \in DOMAIN y.sections : y.sections[k].valid => w.sections[k].processed
<1>1. PICK t \in 4 .. 255 : v.sections \in [0 .. t -> SectionEntry]
    BY SectionsAre DEF Closed
<1>2. SectionTop(v, t) /\ t \in Nat /\ DOMAIN v.sections = 0 .. t /\ DOMAIN y.sections = 0 .. t
    <2>1. t \in Nat
        BY <1>1
    <2>2. DOMAIN v.sections = 0 .. t /\ DOMAIN y.sections = DOMAIN v.sections
        BY <1>1 DEF Closed, ClosedTable
    <2> QED
        BY <1>1, <2>1, <2>2 DEF SectionTop
<1>3. PICK g : /\ g[0] = RemainingStep(v, 0)
               /\ \A k \in 1 .. t : g[k] = RemainingStep(g[k - 1], k)
               /\ Remaining(v) = g[t]
    BY <1>2, RemainingRuns
<1> DEFINE S == {i \in Nat : i > t \/ Done(y, g[i], f, L, E, i + 1)}
<1>4. 0 \in S
    <2>1. Done(y, v, f, L, E, 0) /\ 0 \in DOMAIN v.sections
        <3>1. \A k \in 0 .. t : ~(k < 0)
            BY <1>2
        <3>2. 0 \in 0 .. t
            BY <1>2
        <3> QED
            BY <1>2, <3>1, <3>2 DEF Done
    <2> DEFINE x == g[0]
    <2>2. x = RemainingStep(v, 0)
        BY <1>3
    <2> HIDE DEF x
    <2>3. Done(y, x, f, L, E, 0 + 1)
        BY <2>1, <2>2, StepCloses
    <2> QED
        BY <2>3 DEF x
<1>5. ASSUME NEW i \in Nat, i \in S PROVE i + 1 \in S
    <2>1. CASE i + 1 > t
        BY <2>1
    <2>2. CASE ~(i + 1 > t)
        <3> DEFINE k == i + 1
                   u == g[i]
                   x == g[k]
        <3>1. k \in 1 .. t /\ k - 1 = i /\ ~(i > t) /\ k \in 0 .. t
            BY <1>2, <2>2
        <3>2. Done(y, u, f, L, E, k)
            BY <1>5, <3>1
        <3>3. x = RemainingStep(u, k)
            BY <1>3, <3>1
        <3>4. k \in DOMAIN u.sections
            BY <1>2, <3>1, <3>2 DEF Done, Closed, ClosedTable
        <3> HIDE DEF k, u, x
        <3>5. Done(y, x, f, L, E, k + 1)
            BY <3>2, <3>3, <3>4, StepCloses
        <3> QED
            BY <3>5 DEF x, k
    <2> QED
        BY <2>1, <2>2
<1>6. t \in S
    <2> HIDE DEF S
    <2> QED
        BY <1>2, <1>4, <1>5, NatSets
<1>7. ~(t > t)
    BY <1>2
<1>8. Done(y, w, f, L, E, t + 1)
    BY <1>3, <1>6, <1>7
<1>9. \A k \in DOMAIN y.sections : k < t + 1
    BY <1>2
<1> QED
    BY <1>8, <1>9 DEF Done

(* Before the end the object is flushed, and leaves its section.           *)
LEMMA FlushLasts ==
    ASSUME ListingInv, phase = "records", NEW y, y = Flush(z)
    PROVE  /\ Ready(y, fed, Len(fed), AllLabels(z, module)) /\ Clear(y) /\ y.bytes = << >>
           /\ Keeps(z, y) /\ DOMAIN y.sections = DOMAIN z.sections
              /\ entered \subseteq DOMAIN z.sections
           /\ Kept(y, module) /\ AllLabels(y, module) = AllLabels(z, module)
           /\ Apart(y, module, entered) /\ Lasts(y, fed, home, module, entered, 0)
           /\ IsModule(module)
<1>1. Live /\ Pending = 0
    BY DEF Live, Pending
<1>2. /\ z \in Objects /\ z.section \in DOMAIN z.sections
         /\ Ready(z, fed, Len(fed), AllLabels(z, module))
      /\ fed \in Seq(Places) /\ IsModule(module) /\ Kept(z, module) /\ Apart(z, module, entered)
      /\ z.section \in entered /\ entered \subseteq DOMAIN z.sections
      /\ home \in [DOMAIN z.sections -> Nat] /\ Homes(z, home, Pending)
    BY <1>1, LiveFacts
<1>3. /\ Ready(y, fed, Len(fed), AllLabels(z, module)) /\ Goes(z, y) /\ Clear(y)
      /\ y.bytes = << >> /\ y.pc = z.pc + Len(z.bytes)
    BY <1>2, Flushed
<1>4. Keeps(z, y) /\ Apartness(z, y, entered) /\ y.section = z.section
      /\ DOMAIN y.sections = DOMAIN z.sections
    BY <1>2, <1>3, GoesKeeps DEF Goes
<1>5. Kept(y, module) /\ AllLabels(y, module) = AllLabels(z, module)
    BY <1>2, <1>4, KeepsKept
<1>6. Homes(y, home, 0)
    <2>1. ASSUME NEW n \in DOMAIN y.sections, n = z.section
          PROVE  home[n] = Place(y, n) + IF n = y.section THEN 0 ELSE 0
        <3>1. Len(y.bytes) = 0 /\ y.pc \in Nat
            BY <1>3, NoBytes, ObjectFields DEF Ready, Stands
        <3>2. home[n] = Place(z, n) + 0
            BY <1>1, <1>2, <2>1 DEF Homes
        <3> QED
            BY <1>3, <1>4, <2>1, <3>1, <3>2 DEF Place
    <2>2. ASSUME NEW n \in DOMAIN y.sections, n # z.section
          PROVE  home[n] = Place(y, n) + IF n = y.section THEN 0 ELSE 0
        <3>1. home[n] = z.sections[n].pc + 0 /\ y.sections[n].pc = z.sections[n].pc
            BY <1>2, <1>3, <1>4, <2>2 DEF Homes, Place, Goes
        <3> QED
            BY <1>4, <2>2, <3>1 DEF Place
    <2> QED
        BY <2>1, <2>2 DEF Homes
<1>7. Lasts(y, fed, home, module, entered, 0)
    <2>1. entered \subseteq DOMAIN y.sections /\ 0 \in Nat
        BY <1>2, <1>4
    <2> QED
        BY <1>2, <1>3, <1>5, <1>6, <2>1, ReadyLasts
<1>8. Apart(y, module, entered)
    <2>1. \A k \in entered : k \in entered \/ y.sections[k].processed
        OBVIOUS
    <2> QED
        BY <1>2, <1>4, <2>1, ApartStays
<1> QED
    BY <1>2, <1>3, <1>4, <1>5, <1>7, <1>8

LEMMA LeavesClosed ==
    ASSUME NEW y, NEW f, NEW mod, IsModule(mod), NEW L, L = AllLabels(y, mod),
           Ready(y, f, Len(f), L), Clear(y), y.bytes = << >>, NEW E, Apart(y, mod, E),
           NEW x, x = [y EXCEPT !.section = -1]
    PROVE  Closed(y, x, f, L, E)
<1>1. /\ y \in Objects /\ y.section \in DOMAIN y.sections
      /\ \A l \in L : l \in ObjectSymbol /\ l.section \in DOMAIN y.sections
      /\ Listed(y, f) /\ Unmixed(y) /\ Sited(y) /\ Found(y, L) /\ Declared(y)
    BY DEF Ready, Stands
<1>2. x \in Objects /\ x.section = -1 /\ x.bytes = << >> /\ x.listing = y.listing
      /\ x.sections = y.sections /\ x.symbols = y.symbols
    BY <1>1 DEF Objects
<1>3. Unprinted(y, x)
    BY <1>1, <1>2 DEF Unprinted, SameKinds
<1>4. Knowing(x) = Knowing(y) /\ Come(x) = Come(y)
    <2>1. Outset(x) = Outset(y)
        BY <1>2 DEF Outset
    <2> QED
        BY <1>2, <2>1, KnowingSame
<1>5. Listed(x, f)
    BY <1>1, <1>3, ListedStays
<1>6. Declared(x)
    BY <1>1, <1>2, <1>3, DeclaredStays
<1>7. ClosedTable(y, x)
    <2> SUFFICES ASSUME NEW k \in DOMAIN y.sections
                 PROVE  y.sections[k] = [y.sections[k] EXCEPT !.processed = y.sections[k].processed]
        BY <1>2 DEF ClosedTable
    <2>1. y.sections[k] \in SectionEntry
        BY <1>1, EntryFields
    <2> QED
        BY <2>1 DEF SectionEntry
<1>8. ASSUME NEW l \in L, Forward(x) PROVE Rests(y, x, l, E)
    <2> DEFINE s == l.section
               top == Len(y.listing)
    <2>1. /\ l \in mod.symbols /\ IsLabel(l) /\ s \in DOMAIN mod.sections
             /\ l \in ModuleLabels(mod, s)
        BY DEF AllLabels, ModuleLabels
    <2>2. s \in DOMAIN y.sections /\ l.offset \in Nat
        BY <1>1 DEF ObjectSymbol
    <2>3. Traced(y, l)
        BY <1>1, <1>3, <1>8, ForwardStays DEF Found
    <2>4. Come(y).section = y.section
        BY <1>1 DEF Sited
    <2>5. DOMAIN y.listing = 1 .. top /\ top \in Nat
          /\ Come(y) \in AssemblerStates(DOMAIN y.sections)
        BY <1>1, KnowingRuns, ComesType
    <2>6. /\ PrintedAt(x, l) = PrintedAt(y, l)
          /\ \A k \in DOMAIN y.listing : ComesTo(x, l, k) <=> ComesTo(y, l, k)
        BY <1>2, <1>4 DEF PrintedAt, ComesTo, CutAt
    <2>7. CASE l \in Labels(y, s)
        <3>1. StillToCome(y, l)
            BY <2>3, <2>7 DEF Traced
        <3>2. PrintedAt(x, l) = {}
            BY <2>6, <3>1 DEF StillToCome
        <3>3. CASE s \in E \/ y.sections[s].ref_only
            <4>1. ~y.sections[s].ref_only /\ s \in E
                BY <1>1, <2>2, <2>7, <3>3 DEF Unmixed
            <4>2. s = y.section => Come(y).at[s] # l.offset
                <5> SUFFICES ASSUME s = y.section PROVE Come(y).at[s] # l.offset
                    OBVIOUS
                <5>1. Come(y).at[s] = y.pc
                    BY <1>1, <2>2, <4>1 DEF Sited
                <5>2. l.offset > y.pc
                    BY <2>7 DEF Clear
                <5>3. y.pc \in Nat
                    BY <1>1, ObjectFields
                <5> QED
                    BY <2>2, <5>1, <5>2, <5>3
            <4>3. ~ComesTo(y, l, top)
                <5>1. ComesTo(y, l, top) => Come(y).section = s /\ Come(y).at[s] = l.offset
                    BY DEF ComesTo, Come, Here
                <5> QED
                    BY <2>4, <4>2, <5>1
            <4>4. \A k \in DOMAIN y.listing : ~ComesTo(y, l, k)
                <5> SUFFICES ASSUME NEW k \in DOMAIN y.listing PROVE ~ComesTo(y, l, k)
                    OBVIOUS
                <5>1. k < top \/ k = top
                    BY <2>5
                <5> QED
                    BY <3>1, <4>3, <5>1 DEF StillToCome
            <4>5. y.sections[s].processed
                BY <2>1, <4>1 DEF Apart
            <4>6. Waits(x, l)
                BY <1>2, <2>6, <3>2, <4>4 DEF Waits
            <4>7. \/ Come(x).at[l.section] # l.offset
                  \/ x.sections[l.section].processed /\ Come(x).section # l.section
                BY <1>2, <1>4, <2>4, <4>2, <4>5
            <4>8. Past(x, l)
                BY <1>2, <4>1, <4>6, <4>7 DEF Past
            <4> QED
                BY <3>3, <4>8 DEF Rests
        <3>4. CASE ~(s \in E \/ y.sections[s].ref_only)
            BY <3>2, <3>4 DEF Rests
        <3> QED
            BY <3>3, <3>4
    <2>8. CASE l \notin Labels(y, s)
        <3>1. IsPrinted(y, l) \/ IsPassed(y, l)
            BY <2>3, <2>8 DEF Traced
        <3>2. IsPrinted(y, l) => IsPrinted(x, l)
            BY <1>2, <2>6 DEF IsPrinted
        <3>3. IsPassed(y, l) => Past(x, l)
            <4> SUFFICES ASSUME IsPassed(y, l) PROVE Past(x, l)
                OBVIOUS
            <4>1. Come(y).at[s] # l.offset
                <5>1. l.offset < Come(y).at[s]
                    BY DEF IsPassed
                <5>2. Come(y).at[s] \in Int
                    BY <2>2, <2>5 DEF AssemblerStates
                <5> QED
                    BY <2>2, <5>1, <5>2
            <4>2. Waits(x, l)
                BY <1>2, <2>6 DEF IsPassed, Waits
            <4> QED
                BY <1>2, <1>4, <4>1, <4>2 DEF Past, IsPassed
        <3>4. s \in E \/ y.sections[s].ref_only
            BY <2>1, <2>8 DEF Apart
        <3> QED
            BY <3>1, <3>2, <3>3, <3>4 DEF Rests
    <2> QED
        BY <2>7, <2>8
<1> QED
    BY <1>1, <1>2, <1>4, <1>5, <1>6, <1>7, <1>8 DEF Closed

LEMMA ClosedKeeps ==
    ASSUME NEW y, NEW f, NEW L, NEW E, NEW w, Closed(y, w, f, L, E)
    PROVE  /\ Keeps(y, w) /\ \A F : Apartness(y, w, F)
           /\ \A k \in DOMAIN y.sections : w.sections[k].ref_only = y.sections[k].ref_only
<1>1. ASSUME NEW k \in DOMAIN y.sections
      PROVE  /\ SameSection(w.sections[k], y.sections[k]) /\ Labels(w, k) = Labels(y, k)
             /\ w.sections[k].ref_only = y.sections[k].ref_only
             /\ w.sections[k].processed => y.sections[k].processed \/ y.sections[k].valid
    <2> DEFINE d == y.sections[k]
               e == w.sections[k]
    <2>1. d \in SectionEntry /\ e = [d EXCEPT !.processed = e.processed]
        BY EntryFields DEF Closed, ClosedTable
    <2> HIDE DEF d, e
    <2>2. e.labels = d.labels /\ e.ref_only = d.ref_only /\ e.pc = d.pc
        BY <2>1 DEF SectionEntry
    <2>3. SameSection(e, d)
        BY <2>1, <2>2 DEF SameSection, SectionEntry
    <2>4. e.processed => d.processed \/ d.valid
        BY DEF Closed, ClosedTable, d, e
    <2> QED
        BY <2>2, <2>3, <2>4 DEF Labels, d, e
<1>2. Keeps(y, w)
    BY <1>1 DEF Keeps, Closed, ClosedTable
<1>3. \A F : Apartness(y, w, F)
    BY <1>1 DEF Apartness, Closed
<1> QED
    BY <1>1, <1>2, <1>3

LEMMA BackMatterCloses ==
    ASSUME ListingInv, phase = "records"
    PROVE  LET y == Flush(z)
               w == BackMatter(z)
           IN  /\ Closed(y, w, fed, AllLabels(z, module), entered)
               /\ \A k \in DOMAIN y.sections : y.sections[k].valid => w.sections[k].processed
<1> DEFINE y == Flush(z)
           x == [y EXCEPT !.section = -1]
           v == Ends(x)
           w == BackMatter(z)
           L == AllLabels(z, module)
<1>1. w = Remaining(v)
    BY DEF BackMatter
<1>2. y = Flush(z) /\ x = [y EXCEPT !.section = -1] /\ v = Ends(x)
    OBVIOUS
<1> HIDE DEF y, x, v, w
<1>3. /\ Ready(y, fed, Len(fed), L) /\ Clear(y) /\ y.bytes = << >> /\ AllLabels(y, module) = L
      /\ Apart(y, module, entered) /\ IsModule(module)
    BY <1>2, FlushLasts
<1> HIDE DEF L
<1>4. Closed(y, x, fed, L, entered)
    <2>1. L = AllLabels(y, module)
        BY <1>3
    <2> QED
        BY <1>2, <1>3, <2>1, LeavesClosed
<1>5. Closed(y, v, fed, L, entered)
    BY <1>2, <1>4, ClosedEnds
<1>6. /\ Closed(y, w, fed, L, entered)
      /\ \A k \in DOMAIN y.sections : y.sections[k].valid => w.sections[k].processed
    BY <1>1, <1>5, RemainingCloses
<1> QED
    BY <1>6 DEF y, w, L

LEMMA EndStep ==
    ASSUME ListingInv, End
    PROVE  ListingInv'
<1> DEFINE y == Flush(z)
           w == BackMatter(z)
           L == AllLabels(z, module)
<1>1. /\ phase = "records" /\ z' = w /\ phase' \in {"done", "endedEarly"}
      /\ UNCHANGED << files, modules, module, next, rest, fed, home, entered >>
    BY DEF End, At, Stop, inputs
<1>2. /\ Closed(y, w, fed, L, entered)
      /\ \A k \in DOMAIN y.sections : y.sections[k].valid => w.sections[k].processed
    BY <1>1, BackMatterCloses
<1>3. /\ y.bytes = << >> /\ Keeps(z, y) /\ DOMAIN y.sections = DOMAIN z.sections
      /\ entered \subseteq DOMAIN z.sections /\ Kept(y, module) /\ AllLabels(y, module) = L
      /\ Apart(y, module, entered) /\ Lasts(y, fed, home, module, entered, 0) /\ IsModule(module)
    <2> DEFINE x == y
    <2>1. x = Flush(z)
        OBVIOUS
    <2> HIDE DEF x
    <2>2. /\ x.bytes = << >> /\ Keeps(z, x) /\ DOMAIN x.sections = DOMAIN z.sections
          /\ entered \subseteq DOMAIN z.sections /\ Kept(x, module) /\ AllLabels(x, module) = L
          /\ Apart(x, module, entered) /\ Lasts(x, fed, home, module, entered, 0)
             /\ IsModule(module)
        BY <1>1, <2>1, FlushLasts
    <2> QED
        BY <2>2 DEF x
<1> HIDE DEF y, w, L
<1>4. /\ Keeps(y, w) /\ Apartness(y, w, entered)
      /\ \A k \in DOMAIN y.sections : w.sections[k].ref_only = y.sections[k].ref_only
    BY <1>2, ClosedKeeps
<1>5. /\ y \in Objects /\ w \in Objects /\ w.section = -1 /\ w.bytes = << >>
      /\ DOMAIN w.sections = DOMAIN y.sections /\ Come(w).at = Come(y).at
         /\ Come(w).bytes = Come(y).bytes
      /\ Listed(w, fed) /\ Declared(w)
    BY <1>2 DEF Closed, ClosedTable
<1>6. Kept(w, module) /\ AllLabels(w, module) = L
    BY <1>3, <1>4, <1>5, KeepsKept, ZenonT(40)
<1>7. Apart(w, module, entered)
    <2>1. \A k \in entered : k \in entered \/ w.sections[k].processed
        OBVIOUS
    <2> QED
        BY <1>3, <1>4, <1>5, <2>1, ApartStays
<1>8. ASSUME NEW n \in DOMAIN module.sections PROVE w.sections[n].processed
    <2>1. n \in DOMAIN y.sections /\ SameSection(y.sections[n], Entry(module, n))
        BY <1>3, ConstructedType DEF Kept
    <2>2. n \in 0 .. 255 /\ Entry(module, n) \in SectionEntry
        BY <1>3, <1>5, <2>1, EntryFields, EntryType
    <2>3. Entry(module, n).valid
        BY DEF Entry
    <2>4. y.sections[n].valid = Entry(module, n).valid
        BY <2>1, <2>2 DEF SameSection, SectionEntry
    <2> QED
        BY <1>2, <2>1, <2>3, <2>4
<1>9. Lasts(w, fed, home, module, entered, 0)
    <2>1. /\ fed \in Seq(Places) /\ entered \subseteq DOMAIN y.sections
          /\ Carried(y, fed, Len(fed))
          /\ \A n \in DOMAIN y.sections : ~y.sections[n].ref_only =>
                 home[n] = Come(y).at[n] + IF n = y.section THEN Len(y.bytes) + 0 ELSE 0
        BY <1>3 DEF Lasts
    <2>6. Titled(w)
        BY <1>5, DeclaredTitled
    <2>2. DOMAIN << >> = {} /\ Len(<< >>) = 0
        BY EmptySeq
    <2>3. Carried(w, fed, Len(fed))
        BY <1>3, <1>5, <2>1, <2>2 DEF Carried
    <2>4. ASSUME NEW n \in DOMAIN w.sections, ~w.sections[n].ref_only
          PROVE  home[n] = Come(w).at[n] + IF n = w.section THEN Len(w.bytes) + 0 ELSE 0
        <3>1. ~y.sections[n].ref_only /\ n \in DOMAIN y.sections
            BY <1>4, <1>5, <2>4
        <3>2. home[n] = Come(y).at[n] + 0
            BY <1>3, <2>1, <2>2, <3>1
        <3> QED
            BY <1>5, <2>2, <3>2
    <2>5. w.section \in DOMAIN w.sections \cup {-1} /\ ~(w.section >= 0)
        BY <1>5
    <2> QED
        BY <1>5, <1>6, <2>1, <2>3, <2>4, <2>5, <2>6 DEF Lasts
<1>10. InputInv'
    BY <1>1 DEF ListingInv, InputInv
<1>11. HomeInv' /\ LiveInv'
    <2>1. home \in [DOMAIN w.sections -> Nat]
        BY <1>3, <1>5 DEF ListingInv, HomeInv
    <2> QED
        BY <1>1, <2>1 DEF HomeInv, LiveInv
<1>12. OverInv'
    <2>1. ASSUME Forward(w), NEW l \in AllLabels(w, module) PROVE Told(l)'
        <3>1. l \in L /\ l.section \in DOMAIN y.sections /\ Rests(y, w, l, entered)
            BY <1>2, <1>6, <2>1 DEF Closed
        <3>2. Visited(l.section)' = (l.section \in entered \/ y.sections[l.section].ref_only)
            BY <1>1, <1>4, <3>1 DEF Visited
        <3> QED
            BY <1>1, <3>1, <3>2 DEF Told, Rests, Past, Waits
    <2> QED
        BY <1>1, <1>5, <1>8, <2>1 DEF OverInv
<1>13. AlwaysInv'
    <2>1. Pending' = 0
        BY <1>1 DEF Pending
    <2> QED
        BY <1>1, <1>7, <1>9, <2>1 DEF AlwaysInv
<1> QED
    BY <1>10, <1>11, <1>12, <1>13 DEF ListingInv

-----------------------------------------------------------------------------
(* The invariant. *)

LEMMA ListingSteps ==
    ASSUME ListingInv, [Next]_vars
    PROVE  ListingInv'
<1>1. CASE OpenFile
    BY <1>1, OpenFileStep
<1>2. CASE BadFile
    BY <1>2, StoppedStep DEF BadFile
<1>3. CASE BeginModule
    BY <1>3, BeginModuleStep
<1>4. CASE BadModule
    BY <1>4, StoppedStep DEF BadModule
<1>5. CASE FileDone
    BY <1>5, FileDoneStep
<1>6. CASE Exit
    BY <1>6, StoppedStep DEF Exit
<1>7. CASE DataByte
    BY <1>7, DataByteStep
<1>8. CASE Expression
    BY <1>8, ExpressionStep
<1>9. CASE Debug
    BY <1>9, DebugStep
<1>10. CASE Section
    BY <1>10, SectionStep
<1>11. CASE SetOrg
    BY <1>11, SetOrgStep
<1>12. CASE Line
    BY <1>12, LineStep
<1>13. CASE Space
    BY <1>13, SpaceStep
<1>14. CASE SpaceChunk
    BY <1>14, SpaceChunkStep
<1>15. CASE SpaceDone
    BY <1>15, SpaceDoneStep
<1>16. CASE End
    BY <1>16, EndStep
<1>17. CASE BadExpression
    BY <1>17, StoppedStep DEF BadExpression, At
<1>18. CASE BadDebug
    BY <1>18, BadRecordStep DEF BadDebug, At
<1>19. CASE BadRecord
    BY <1>19, BadRecordStep DEF BadRecord, At
<1>20. CASE UNCHANGED vars
    BY <1>20 DEF vars, inputs, ListingInv, InputInv, HomeInv, LiveInv, OverInv, AlwaysInv,
                 Pending, Told, Visited, At, Record
<1> QED
    BY <1>1, <1>2, <1>3, <1>4, <1>5, <1>6, <1>7, <1>8, <1>9, <1>10, <1>11, <1>12, <1>13, <1>14,
       <1>15, <1>16, <1>17, <1>18, <1>19, <1>20 DEF Next

(* The inductive invariant of the listing.                                 *)
THEOREM ListingInvariant == Spec => []ListingInv
<1>1. Init => ListingInv
    BY InitHolds
<1>2. ListingInv /\ [Next]_vars => ListingInv'
    BY ListingSteps
<1> QED
    BY <1>1, <1>2, PTL DEF Spec

-----------------------------------------------------------------------------
(* The assembler of Listing, which knows what the listing tells it, and    *)
(* the one of this module: the same bytes come to both. If each heading    *)
(* says its section, they are in the same section; and in a section that   *)
(* the listing has come to, and whose origin is 0 or given, they have got  *)
(* to the same address.                                                    *)

Readable(y) ==
    \A k \in DOMAIN y.listing : y.listing[k].kind = "section" => y.listing[k].line # "blank"
Headed(y, n, k) == \E j \in HeadingsOf(y, n) : j <= k
Originated(y, n) == y.sections[n].org = 0 \/ Given(y, n)
SameAt(y, k) ==
    LET a == Reading(y)[k]
        p == Knowing(y)[k]
    IN  /\ a.section = p.section
        /\ p.section # -1 => p.section \in DOMAIN y.sections /\ Headed(y, p.section, k)
        /\ \A n \in DOMAIN y.sections :
               IF Headed(y, n, k) THEN Originated(y, n) => a.at[n] = p.at[n]
               ELSE a.at[n] = 0 /\ p.at[n] = y.sections[n].org

(* Where an item other than a heading takes the assembler from v.          *)
Takes(i, v) ==
    CASE i.kind = "org"      -> i.to
      [] i.kind = "ds"       -> v + i.size
      [] i.kind \in Lines    -> v + Len(i.bytes)
      [] OTHER               -> v

LEMMA ReadingRuns ==
    ASSUME NEW y \in Objects
    PROVE  /\ Reading(y)[0] = Blank(y)
           /\ \A k \in 1 .. Len(y.listing) : Reading(y)[k]
              = Assembles(Reading(y)[k - 1], y.listing[k])
<1> DEFINE m == Len(y.listing)
           Runs(t, i) == t = [k \in 0 .. i |-> IF k = 0 THEN Blank(y)
                                               ELSE Assembles(t[k - 1], y.listing[k])]
           S == {i \in Nat : \E t : Runs(t, i)}
<1>1. m \in Nat
    BY KnowingRuns
<1>2. 0 \in S
    <2> DEFINE t == [k \in 0 .. 0 |-> Blank(y)]
    <2>1. Runs(t, 0)
        OBVIOUS
    <2> QED
        BY <2>1
<1>3. ASSUME NEW i \in Nat, i \in S PROVE i + 1 \in S
    <2>1. PICK t : Runs(t, i)
        BY <1>3
    <2> DEFINE last == Assembles(t[i], y.listing[i + 1])
               u    == [k \in 0 .. i + 1 |-> IF k = i + 1 THEN last ELSE t[k]]
    <2> HIDE DEF last
    <2>2. ASSUME NEW k \in 0 .. i + 1
          PROVE  u[k] = IF k = 0 THEN Blank(y) ELSE Assembles(u[k - 1], y.listing[k])
        <3>1. CASE k = i + 1
            <4>1. u[k] = last /\ u[k - 1] = t[i]
                BY <3>1
            <4> QED
                BY <3>1, <4>1 DEF last
        <3>2. CASE k # i + 1
            <4>1. k \in 0 .. i /\ u[k] = t[k] /\ (k # 0 => k - 1 \in 0 .. i /\ u[k - 1] = t[k - 1])
                BY <3>2
            <4>2. t[k] = IF k = 0 THEN Blank(y) ELSE Assembles(t[k - 1], y.listing[k])
                BY <2>1, <4>1
            <4> QED
                BY <4>1, <4>2
        <3> QED
            BY <3>1, <3>2
    <2>3. u = [k \in 0 .. i + 1 |-> u[k]]
        OBVIOUS
    <2> HIDE DEF u
    <2>4. Runs(u, i + 1)
        BY <2>2, <2>3
    <2> QED
        BY <2>4
<1>4. m \in S
    <2> HIDE DEF S, m
    <2> QED
        BY <1>1, <1>2, <1>3, NatSets
<1>5. Runs(Reading(y), m)
    BY <1>4 DEF Reading
<1> HIDE DEF m
<1>6. \A k \in 0 .. m : Reading(y)[k] = IF k = 0 THEN Blank(y)
                                        ELSE Assembles(Reading(y)[k - 1], y.listing[k])
    BY <1>5
<1> QED
    BY <1>1, <1>6 DEF m

LEMMA AssemblesTypes ==
    ASSUME NEW D, NEW p \in AssemblerStates(D), NEW i \in ListingItem, NEW q, q = Assembles(p, i)
    PROVE  /\ q \in AssemblerStates(D)
           /\ q.section = IF i.kind = "section" THEN IF i.line = "blank" THEN -1 ELSE i.number
                          ELSE p.section
           /\ q.bytes = IF i.kind \in Lines THEN p.bytes \o i.bytes ELSE p.bytes
           /\ \A n \in D :
                  q.at[n] = IF i.kind = "section"
                            THEN IF i.line # "blank" /\ n = i.number /\ i.origin # 0
                                 THEN i.origin ELSE p.at[n]
                            ELSE IF n = p.section THEN Takes(i, p.at[n]) ELSE p.at[n]
<1> USE DEF AssemblerStates
<1>0. p.section \in 0 .. 255 \cup {-1} /\ p.at \in [D -> Int] /\ p.bytes \in Seq(Nat)
    OBVIOUS
<1> DEFINE left   == [p EXCEPT !.section = -1]
           headed == [p EXCEPT !.section = i.number,
                               !.at[i.number] = IF i.origin = 0 THEN @ ELSE i.origin]
           moved  == [p EXCEPT !.at[p.section] = i.to]
           spaced == [p EXCEPT !.at[p.section] = @ + i.size]
           filled == [p EXCEPT !.at[p.section] = @ + Len(i.bytes), !.bytes = @ \o i.bytes]
<1>4. q = CASE i.kind = "section" -> IF i.line = "blank" THEN left ELSE headed
            [] i.kind = "org"     -> moved
            [] i.kind = "ds"      -> spaced
            [] i.kind \in Lines   -> filled
            [] OTHER              -> p
    BY DEF Assembles, Nowhere
<1> HIDE DEF left, headed, moved, spaced, filled
<1>5. /\ i.kind = "section" => q = IF i.line = "blank" THEN left ELSE headed
      /\ i.kind = "org" => q = moved
      /\ i.kind = "ds" => q = spaced
      /\ i.kind \in Lines => q = filled
      /\ i.kind \notin {"section", "org", "ds"} \cup Lines => q = p
    BY <1>4 DEF Lines
<1>1. CASE i.kind = "section"
    <2>0. i.number \in 0 .. 255 /\ i.origin \in Nat
        BY <1>1 DEF ListingItem, Lines
    <2>1. CASE i.line = "blank"
        <3>1. q = [p EXCEPT !.section = -1]
            BY <1>1, <1>5, <2>1 DEF left
        <3> QED
            BY <1>0, <1>1, <2>1, <3>1 DEF Lines
    <2>2. CASE i.line # "blank"
        <3> DEFINE v(n) == IF i.origin = 0 THEN p.at[n] ELSE i.origin
        <3>1. q = [p EXCEPT !.section = i.number,
                            !.at[i.number] = IF i.origin = 0 THEN @ ELSE i.origin]
            BY <1>1, <1>5, <2>2 DEF headed
        <3>2. /\ q.at = [n \in D |-> IF n = i.number THEN v(n) ELSE p.at[n]]
              /\ q.section = i.number /\ q.bytes = p.bytes
            BY <1>0, <3>1
        <3>3. \A n \in D : v(n) \in Int
            BY <1>0, <2>0
        <3>4. q.at \in [D -> Int]
            BY <1>0, <3>2, <3>3
        <3>5. q = [section |-> q.section, at |-> q.at, bytes |-> q.bytes]
            BY <3>1
        <3> QED
            BY <1>0, <1>1, <2>0, <2>2, <3>2, <3>4, <3>5 DEF Lines
    <2> QED
        BY <2>1, <2>2
<1>2. CASE i.kind \in {"org", "ds"} \cup Lines
    <2>1. /\ i.kind = "org" => i.to \in Nat
          /\ i.kind = "ds" => i.size \in Nat
          /\ i.kind \in Lines => i.bytes \in Seq(Nat) /\ Len(i.bytes) \in Nat
        BY DEF ListingItem, Lines
    <2>2. /\ q.at = [n \in D |-> IF n = p.section THEN Takes(i, p.at[n]) ELSE p.at[n]]
          /\ q.section = p.section
          /\ q.bytes = IF i.kind \in Lines THEN p.bytes \o i.bytes ELSE p.bytes
          /\ q = [section |-> q.section, at |-> q.at, bytes |-> q.bytes]
        <3>1. CASE i.kind = "org"
            <4>1. q = [p EXCEPT !.at[p.section] = i.to]
                BY <1>5, <3>1 DEF moved
            <4> QED
                BY <1>0, <3>1, <4>1 DEF Takes, Lines
        <3>2. CASE i.kind = "ds"
            <4>1. q = [p EXCEPT !.at[p.section] = @ + i.size]
                BY <1>5, <3>2 DEF spaced
            <4> QED
                BY <1>0, <3>2, <4>1 DEF Takes, Lines
        <3>3. CASE i.kind \in Lines
            <4>1. q = [p EXCEPT !.at[p.section] = @ + Len(i.bytes), !.bytes = @ \o i.bytes]
                BY <1>5, <3>3 DEF filled
            <4> QED
                BY <1>0, <3>3, <4>1 DEF Takes, Lines
        <3> QED
            BY <1>2, <3>1, <3>2, <3>3
    <2>3. \A n \in D : Takes(i, p.at[n]) \in Int
        BY <1>0, <2>1 DEF Takes
    <2>4. q.at \in [D -> Int]
        <3> HIDE DEF Takes
        <3> QED
            BY <1>0, <2>2, <2>3
    <2>5. q.bytes \in Seq(Nat)
        BY <1>0, <2>1, <2>2
    <2>6. i.kind # "section"
        BY <1>2 DEF Lines
    <2> QED
        BY <1>0, <2>2, <2>4, <2>5, <2>6
<1>3. CASE i.kind \notin {"section", "org", "ds"} \cup Lines
    <2>1. q = p
        BY <1>3, <1>5
    <2> QED
        BY <1>0, <1>3, <2>1 DEF Takes
<1> QED
    BY <1>1, <1>2, <1>3

LEMMA ReadingTypes ==
    ASSUME NEW y \in Objects
    PROVE  \A k \in 0 .. Len(y.listing) :
               Reading(y)[k] \in AssemblerStates(DOMAIN y.sections \cup {-1})
<1> DEFINE D == DOMAIN y.sections \cup {-1}
           S == {k \in Nat : k <= Len(y.listing) => Reading(y)[k] \in AssemblerStates(D)}
<1>0. Len(y.listing) \in Nat /\ y.listing \in Seq(ListingItem)
    BY DEF Objects
<1>1. 0 \in S
    <2>1. Blank(y) \in AssemblerStates(D)
        BY DEF Blank, Nowhere, AssemblerStates
    <2> QED
        BY <2>1, ReadingRuns
<1>2. ASSUME NEW k \in Nat, k \in S PROVE k + 1 \in S
    <2> SUFFICES ASSUME k + 1 <= Len(y.listing) PROVE Reading(y)[k + 1] \in AssemblerStates(D)
        OBVIOUS
    <2>1. k + 1 \in 1 .. Len(y.listing) /\ Reading(y)[k] \in AssemblerStates(D)
        BY <1>0, <1>2
    <2>2. y.listing[k + 1] \in ListingItem
        BY <1>0, <2>1
    <2>3. Reading(y)[k + 1] = Assembles(Reading(y)[k], y.listing[k + 1])
        BY <1>0, <2>1, ReadingRuns
    <2> QED
        BY <2>1, <2>2, <2>3, AssemblesTypes
<1> HIDE DEF S, D
<1>3. Nat \subseteq S
    BY <1>1, <1>2, NatSets
<1>4. \A k \in 0 .. Len(y.listing) : k \in S /\ k <= Len(y.listing)
    BY <1>0, <1>3
<1>5. \A k \in 0 .. Len(y.listing) : Reading(y)[k] \in AssemblerStates(D)
    BY <1>4 DEF S
<1> QED
    BY <1>5 DEF D

(* One item: the two readings of it.                                       *)
LEMMA BothRead ==
    ASSUME NEW y \in Objects, NEW k \in DOMAIN y.listing, NEW i, i = y.listing[k],
           NEW a, a = Reading(y)[k - 1], NEW p, p = Knowing(y)[k - 1],
           NEW b, b = Reading(y)[k], NEW q, q = Knowing(y)[k]
    PROVE  /\ k - 1 \in 0 .. Len(y.listing) /\ i \in ListingItem
           /\ b.bytes = IF i.kind \in Lines THEN a.bytes \o i.bytes ELSE a.bytes
           /\ q.bytes = IF i.kind \in Lines THEN p.bytes \o i.bytes ELSE p.bytes
           /\ b.section = IF i.kind = "section" THEN IF i.line = "blank" THEN -1 ELSE i.number
                          ELSE a.section
           /\ q.section = IF i.kind = "section" THEN i.number ELSE p.section
           /\ \A n \in DOMAIN y.sections :
                  /\ i.kind = "section" =>
                         /\ b.at[n] = IF i.line # "blank" /\ n = i.number /\ i.origin # 0
                                      THEN i.origin ELSE a.at[n]
                         /\ q.at[n] = p.at[n]
                  /\ i.kind # "section" =>
                         /\ b.at[n] = IF n = a.section THEN Takes(i, a.at[n]) ELSE a.at[n]
                         /\ q.at[n] = IF n = p.section THEN Takes(i, p.at[n]) ELSE p.at[n]
<1> DEFINE D == DOMAIN y.sections
<1>1. k \in 1 .. Len(y.listing) /\ Len(y.listing) \in Nat /\ y.listing \in Seq(ListingItem)
    BY KnowingRuns DEF Objects
<1>2. k - 1 \in 0 .. Len(y.listing) /\ i \in ListingItem
    BY <1>1
<1>3. b = Assembles(a, i) /\ q = Follows(p, i)
    BY <1>1, ReadingRuns, KnowingRuns
<1>4. a \in AssemblerStates(D \cup {-1}) /\ p \in AssemblerStates(D)
    BY <1>2, ReadingTypes, KnowingTypes
<1>5. /\ b.bytes = IF i.kind \in Lines THEN a.bytes \o i.bytes ELSE a.bytes
      /\ b.section = IF i.kind = "section" THEN IF i.line = "blank" THEN -1 ELSE i.number
                     ELSE a.section
      /\ \A n \in D \cup {-1} :
             b.at[n] = IF i.kind = "section"
                       THEN IF i.line # "blank" /\ n = i.number /\ i.origin # 0
                            THEN i.origin ELSE a.at[n]
                       ELSE IF n = a.section THEN Takes(i, a.at[n]) ELSE a.at[n]
    BY <1>2, <1>3, <1>4, AssemblesTypes
<1>6. /\ q.bytes = IF i.kind \in Lines THEN p.bytes \o i.bytes ELSE p.bytes
      /\ q.section = IF i.kind = "section" THEN i.number ELSE p.section
      /\ \A n \in D : n # p.section => q.at[n] = p.at[n]
      /\ p.section \in D =>
             q.at[p.section] = CASE i.kind = "org"  -> i.to
                                 [] i.kind = "ds"   -> p.at[p.section] + i.size
                                 [] i.kind \in Lines -> p.at[p.section] + Len(i.bytes)
                                 [] OTHER           -> p.at[p.section]
    BY <1>2, <1>3, <1>4, FollowsTypes
<1>7. ASSUME NEW n \in D
      PROVE  q.at[n] = IF i.kind # "section" /\ n = p.section THEN Takes(i, p.at[n]) ELSE p.at[n]
    <2>1. CASE n # p.section
        BY <1>6, <2>1
    <2>2. CASE n = p.section
        BY <1>6, <2>2 DEF Takes, Lines
    <2> QED
        BY <2>1, <2>2
<1> QED
    BY <1>2, <1>5, <1>6, <1>7

LEMMA SameBytes ==
    ASSUME NEW y \in Objects
    PROVE  \A k \in 0 .. Len(y.listing) : Reading(y)[k].bytes = Knowing(y)[k].bytes
<1> DEFINE S == {k \in Nat : k <= Len(y.listing) => Reading(y)[k].bytes = Knowing(y)[k].bytes}
<1>0. Len(y.listing) \in Nat /\ DOMAIN y.listing = 1 .. Len(y.listing)
    BY KnowingRuns
<1>1. 0 \in S
    <2>1. Reading(y)[0] = Blank(y) /\ Knowing(y)[0] = Outset(y)
        BY ReadingRuns, KnowingRuns
    <2>2. Blank(y).bytes = << >> /\ Outset(y).bytes = << >>
        BY DEF Blank, Outset
    <2> QED
        BY <2>1, <2>2
<1>2. ASSUME NEW k \in Nat, k \in S PROVE k + 1 \in S
    <2> SUFFICES ASSUME k + 1 <= Len(y.listing)
                 PROVE  Reading(y)[k + 1].bytes = Knowing(y)[k + 1].bytes
        OBVIOUS
    <2>1. k + 1 \in DOMAIN y.listing /\ k + 1 - 1 = k
          /\ Reading(y)[k].bytes = Knowing(y)[k].bytes
        BY <1>0, <1>2
    <2> QED
        BY <2>1, BothRead
<1> HIDE DEF S
<1>3. Nat \subseteq S
    BY <1>1, <1>2, NatSets
<1> QED
    BY <1>0, <1>3 DEF S

LEMMA SamePlaces ==
    ASSUME NEW y \in Objects, Titled(y), Readable(y)
    PROVE  \A k \in 0 .. Len(y.listing) : SameAt(y, k)
<1> DEFINE D == DOMAIN y.sections
           S == {k \in Nat : k <= Len(y.listing) => SameAt(y, k)}
<1>0. Len(y.listing) \in Nat /\ DOMAIN y.listing = 1 .. Len(y.listing)
    BY KnowingRuns
<1>1. 0 \in S
    <2>1. \A n \in D : ~Headed(y, n, 0)
        BY <1>0 DEF Headed, HeadingsOf
    <2>2. Reading(y)[0] = Blank(y) /\ Knowing(y)[0] = Outset(y)
        BY ReadingRuns, KnowingRuns
    <2>3. /\ Blank(y).section = -1 /\ Outset(y).section = -1
          /\ \A n \in D : Blank(y).at[n] = 0 /\ Outset(y).at[n] = y.sections[n].org
        BY DEF Blank, Outset, Nowhere
    <2> QED
        BY <2>1, <2>2, <2>3 DEF SameAt
<1>2. ASSUME NEW k \in Nat, k \in S PROVE k + 1 \in S
    <2> SUFFICES ASSUME k + 1 <= Len(y.listing) PROVE SameAt(y, k + 1)
        OBVIOUS
    <2> DEFINE i == y.listing[k + 1]
               a == Reading(y)[k]
               p == Knowing(y)[k]
               b == Reading(y)[k + 1]
               q == Knowing(y)[k + 1]
    <2>1. k + 1 \in DOMAIN y.listing /\ k + 1 - 1 = k /\ SameAt(y, k)
        BY <1>0, <1>2
    <2>2. /\ b.section = IF i.kind = "section" THEN IF i.line = "blank" THEN -1 ELSE i.number
                         ELSE a.section
          /\ q.section = IF i.kind = "section" THEN i.number ELSE p.section
          /\ \A n \in D :
                 /\ i.kind = "section" =>
                        /\ b.at[n] = IF i.line # "blank" /\ n = i.number /\ i.origin # 0
                                     THEN i.origin ELSE a.at[n]
                        /\ q.at[n] = p.at[n]
                 /\ i.kind # "section" =>
                        /\ b.at[n] = IF n = a.section THEN Takes(i, a.at[n]) ELSE a.at[n]
                        /\ q.at[n] = IF n = p.section THEN Takes(i, p.at[n]) ELSE p.at[n]
          /\ i \in ListingItem
        BY <2>1, BothRead
    <2>3. /\ a.section = p.section
          /\ p.section # -1 => p.section \in D /\ Headed(y, p.section, k)
          /\ \A n \in D : IF Headed(y, n, k) THEN Originated(y, n) => a.at[n] = p.at[n]
                          ELSE a.at[n] = 0 /\ p.at[n] = y.sections[n].org
        BY <2>1 DEF SameAt
    <2>4. \A n : Headed(y, n, k + 1) <=> Headed(y, n, k) \/ k + 1 \in HeadingsOf(y, n)
        BY <1>0, <2>1 DEF Headed, HeadingsOf
    <2> HIDE DEF a, b, p, q
    <2>5. CASE i.kind # "section"
        <3>1. \A n : Headed(y, n, k + 1) <=> Headed(y, n, k)
            BY <2>4, <2>5 DEF HeadingsOf
        <3>2. ASSUME NEW n \in D, ~Headed(y, n, k) PROVE n # p.section
            <4>1. n \in 0 .. 255
                BY EntryFields
            <4>2. \A j \in 0 .. 255 : j # -1
                OBVIOUS
            <4> QED
                BY <2>3, <3>2, <4>1, <4>2
        <3>3. b.section = q.section /\ q.section = p.section
            BY <2>2, <2>3, <2>5
        <3>4. \A n \in D : IF Headed(y, n, k) THEN Originated(y, n) => b.at[n] = q.at[n]
                           ELSE b.at[n] = 0 /\ q.at[n] = y.sections[n].org
            BY <2>2, <2>3, <2>5, <3>2
        <3> QED
            BY <2>3, <3>1, <3>3, <3>4 DEF SameAt, b, q
    <2>6. CASE i.kind = "section"
        <3> DEFINE n == i.number
        <3>1. n \in D /\ k + 1 \in HeadingsOf(y, n) /\ i.line # "blank"
            BY <2>1, <2>6 DEF Titled, HeadingsOf, Readable
        <3>2. n \in 0 .. 255
            BY <3>1, EntryFields
        <3>3. PICK h \in HeadingsOf(y, n) : Titles(y, n, h)
            BY <3>1 DEF Titled
        <3>4. /\ y.listing[h].origin \in {0, y.sections[n].org}
              /\ \A j \in HeadingsOf(y, n) \ {h} : h < j /\ y.listing[j].origin = 0
            BY <3>3 DEF Titles
        <3>5. b.section = n /\ q.section = n /\ Headed(y, n, k + 1)
            BY <2>2, <2>4, <2>6, <3>1
        <3>6. \A m \in D \ {n} : IF Headed(y, m, k + 1) THEN Originated(y, m) => b.at[m] = q.at[m]
                                 ELSE b.at[m] = 0 /\ q.at[m] = y.sections[m].org
            <4>1. \A m \in D \ {n} : Headed(y, m, k + 1) <=> Headed(y, m, k)
                BY <2>4 DEF HeadingsOf
            <4> QED
                BY <2>2, <2>3, <2>6, <4>1
        <3>7. Originated(y, n) => b.at[n] = q.at[n]
            <4>1. CASE Headed(y, n, k)
                <5>1. PICK j \in HeadingsOf(y, n) : j <= k
                    BY <4>1 DEF Headed
                <5>2. h \in Nat /\ j \in Nat
                    BY <1>0 DEF HeadingsOf
                <5>3. k + 1 # h
                    BY <3>4, <5>1, <5>2
                <5>4. i.origin = 0
                    BY <3>1, <3>4, <5>3
                <5> QED
                    BY <2>2, <2>3, <2>6, <3>1, <4>1, <5>4
            <4>2. CASE ~Headed(y, n, k)
                <5>1. h = k + 1
                    <6>1. h \in Nat
                        BY <1>0 DEF HeadingsOf
                    <6>2. ~(h <= k)
                        BY <4>2 DEF Headed
                    <6>3. k + 1 # h => h < k + 1
                        BY <3>1, <3>4
                    <6> QED
                        BY <6>1, <6>2, <6>3
                <5>2. a.at[n] = 0 /\ p.at[n] = y.sections[n].org
                    BY <2>3, <3>1, <4>2
                <5>3. i.origin \in {0, y.sections[n].org}
                    BY <3>4, <5>1
                <5>4. Originated(y, n) => y.sections[n].org = i.origin
                    <6>1. CASE y.sections[n].org = 0
                        BY <5>3, <6>1
                    <6>2. CASE Given(y, n) /\ y.sections[n].org # 0
                        <7>1. PICK j \in HeadingsOf(y, n) :
                                  y.listing[j].origin = y.sections[n].org
                            BY <6>2 DEF Given, HeadingsOf
                        <7>2. j = h
                            BY <3>4, <6>2, <7>1
                        <7> QED
                            BY <5>1, <7>1, <7>2
                    <6> QED
                        BY <6>1, <6>2 DEF Originated
                <5> QED
                    BY <2>2, <2>6, <3>1, <5>2, <5>4
            <4> QED
                BY <4>1, <4>2
        <3> QED
            <4>1. \A m \in D : IF Headed(y, m, k + 1) THEN Originated(y, m) => b.at[m] = q.at[m]
                               ELSE b.at[m] = 0 /\ q.at[m] = y.sections[m].org
                BY <3>5, <3>6, <3>7
            <4> QED
                BY <3>1, <3>5, <4>1 DEF SameAt, b, q
    <2> QED
        BY <2>5, <2>6
<1> HIDE DEF S
<1>3. Nat \subseteq S
    BY <1>1, <1>2, NatSets
<1> QED
    BY <1>0, <1>3 DEF S

-----------------------------------------------------------------------------
(* What the invariant says of the listing. *)

LEMMA TypeFollows ==
    ASSUME ListingInv
    PROVE  ListingTypeOK
<1>1. /\ next \in 1 .. Len(module.records) + 1 /\ rest \in Nat
      /\ phase \in {"files", "opened", "records", "space", "done", "endedEarly", "failed", "exited"}
      /\ z \in Objects /\ z.section \in DOMAIN z.sections \cup {-1}
      /\ z.section >= 0 => Known(z) /\ InHand(z)
      /\ z.section = -1 => z.bytes = << >>
      /\ Carried(z, fed, Len(fed)) /\ fed \in Seq(Places)
    BY DEF ListingInv, InputInv, AlwaysInv, Lasts
<1>2. /\ z.bytes \in Seq(Nat) /\ z.size \in 0 .. 3 /\ z.pc \in Nat /\ z.code \in BOOLEAN
      /\ z.flags \subseteq {"m", "x"}
    BY <1>1, ObjectFields
<1>3. z.section >= 0 \/ z.section = -1
    <2>1. \A n \in DOMAIN z.sections : n \in 0 .. 255
        BY <1>1, EntryFields
    <2>2. \A n \in 0 .. 255 : n >= 0
        OBVIOUS
    <2> QED
        BY <1>1, <2>1, <2>2
<1>4. Len(z.bytes) <= 3 /\ (z.code => Len(z.bytes) <= z.size)
    <2>1. CASE z.section >= 0
        BY <1>1, <2>1 DEF InHand
    <2>2. CASE z.section = -1
        <3>1. Len(z.bytes) = 0
            BY <1>1, <2>2, EmptySeq
        <3> QED
            BY <1>2, <3>1
    <2> QED
        BY <1>3, <2>1, <2>2
<1>5. z.bytes \in Seq(1 .. Len(fed))
    <2>1. DOMAIN fed = 1 .. Len(fed) /\ \A b \in DOMAIN z.bytes : z.bytes[b] \in DOMAIN fed
        BY <1>1 DEF Carried
    <2>2. Len(z.bytes) \in Nat /\ DOMAIN z.bytes = 1 .. Len(z.bytes)
          /\ z.bytes \in [1 .. Len(z.bytes) -> Nat]
        BY <1>2
    <2>3. z.bytes \in [1 .. Len(z.bytes) -> 1 .. Len(fed)]
        BY <2>1, <2>2
    <2> QED
        BY <2>2, <2>3, Counted
<1>6. z.section >= 0 => z.next_label = IF z.sections[z.section].labels = {} THEN -1
                                       ELSE Least({l.offset : l \in z.sections[z.section].labels})
    BY <1>1 DEF Known, Labels
<1> QED
    BY <1>1, <1>2, <1>4, <1>5, <1>6 DEF ListingTypeOK

(* What is known at a heading: the origin, if it is in the listing.        *)
LEMMA OriginKnown ==
    ASSUME ListingInv, NEW n \in DOMAIN z.sections, HeadingsOf(z, n) # {}, OriginShown(n),
           z.sections[n].ref_only => Given(z, n)
    PROVE  Originated(z, n)
<1> DEFINE e == z.sections[n]
<1>1. z \in Objects /\ Titled(z) /\ Kept(z, module) /\ IsModule(module)
    BY DEF ListingInv, AlwaysInv, InputInv, Lasts
<1>2. e.org = 0 \/ e.ref_only \/ (e.offset /\ n > 4)
    BY DEF OriginShown
<1>3. CASE e.offset /\ n > 4
    <2> DEFINE d == Entry(module, n)
    <2>1. n \in 0 .. 255
        BY <1>1, EntryFields
    <2>2. d \in SectionEntry /\ (d.offset => d.valid) /\ SameSection(e, d)
        BY <1>1, <2>1, EntryType DEF Kept
    <2> HIDE DEF d
    <2>3. e.offset = d.offset /\ e.valid = d.valid
        BY <2>2 DEF SameSection, SectionEntry
    <2>4. PICK k \in HeadingsOf(z, n) : Titles(z, n, k)
        BY <1>1 DEF Titled
    <2>5. z.listing[k].origin = e.org
        BY <1>3, <2>2, <2>3, <2>4 DEF Titles
    <2>6. Given(z, n)
        BY <2>4, <2>5 DEF Given, HeadingsOf
    <2> QED
        BY <2>6 DEF Originated
<1> QED
    BY <1>2, <1>3 DEF Originated

(* The two assemblers are at the same place.                               *)
LEMMA SameHere ==
    ASSUME ListingInv, Legible, NEW k \in 0 .. Len(z.listing),
           NEW p, p = Knowing(z)[k], NEW a, a = Assembled[k]
    PROVE  /\ a.section = p.section
           /\ /\ p.section \in DOMAIN z.sections /\ OriginShown(p.section)
              /\ z.sections[p.section].ref_only => Given(z, p.section)
              => Here(a) = Here(p)
<1>1. z \in Objects /\ Titled(z) /\ Readable(z)
    BY DEF ListingInv, AlwaysInv, Lasts, Legible, Item, Readable
<1>2. SameAt(z, k) /\ a = Reading(z)[k]
    BY <1>1, SamePlaces DEF Assembled
<1>3. a.section = p.section
    BY <1>2 DEF SameAt
<1>4. ASSUME p.section \in DOMAIN z.sections, OriginShown(p.section),
             z.sections[p.section].ref_only => Given(z, p.section)
      PROVE  Here(a) = Here(p)
    <2>1. p.section \in 0 .. 255
        BY <1>1, <1>4, EntryFields
    <2>2. \A j \in 0 .. 255 : j # -1
        OBVIOUS
    <2>3. Headed(z, p.section, k)
        BY <1>2, <2>1, <2>2 DEF SameAt
    <2>4. Originated(z, p.section)
        BY <1>4, <2>3, OriginKnown DEF Headed
    <2>5. a.at[p.section] = p.at[p.section]
        BY <1>2, <1>4, <2>3, <2>4 DEF SameAt
    <2> QED
        BY <1>3, <2>5 DEF Here
<1> QED
    BY <1>3, <1>4

LEMMA BytesFollow ==
    ASSUME ListingInv
    PROVE  BytesReassemble
<1>1. z \in Objects /\ Listed(z, fed) /\ Carried(z, fed, Len(fed))
    BY DEF ListingInv, AlwaysInv, Lasts
<1>2. /\ Knowing(z)[Len(z.listing)].bytes \o z.bytes = [b \in 1 .. Len(fed) |-> b]
      /\ \A b \in DOMAIN z.bytes : fed[z.bytes[b]] = << z.section, z.pc + b - 1 >>
    BY <1>1 DEF Carried, Come, Count
<1>3. Len(z.listing) \in 0 .. Len(z.listing) /\ DOMAIN z.listing \subseteq 0 .. Len(z.listing)
    BY <1>1, KnowingRuns
<1>4. Assembled[Len(z.listing)].bytes = Knowing(z)[Len(z.listing)].bytes
    BY <1>1, <1>3, SameBytes DEF Assembled
<1>5. ASSUME Legible, NEW k \in DOMAIN z.listing, Item(k).kind \in Lines
      PROVE  /\ ~z.sections[Assembled[k].section].ref_only /\ OriginShown(Assembled[k].section)
                 => Item(k).at = Here(Assembled[k]) - Len(Item(k).bytes)
             /\ \A b \in DOMAIN Item(k).bytes :
                    fed[Item(k).bytes[b]] = << Assembled[k].section, Item(k).at + b - 1 >>
    <2> DEFINE i == z.listing[k]
               p == Knowing(z)[k]
               a == Assembled[k]
    <2>1. /\ ~z.sections[p.section].ref_only => i.at = Here(p) - Len(i.bytes)
          /\ \A b \in DOMAIN i.bytes : fed[i.bytes[b]] = << p.section, i.at + b - 1 >>
          /\ p.section \in DOMAIN z.sections
        BY <1>1, <1>5 DEF Listed, ItemFits, LineFits, Item
    <2> HIDE DEF i, p, a
    <2>2. a.section = p.section
          /\ (~z.sections[p.section].ref_only /\ OriginShown(p.section) => Here(a) = Here(p))
        BY <1>3, <1>5, <2>1, SameHere DEF a, p
    <2>3. /\ ~z.sections[a.section].ref_only /\ OriginShown(a.section)
              => i.at = Here(a) - Len(i.bytes)
          /\ \A b \in DOMAIN i.bytes : fed[i.bytes[b]] = << a.section, i.at + b - 1 >>
        BY <2>1, <2>2
    <2> QED
        BY <2>3 DEF i, a, Item
<1> QED
    BY <1>2, <1>4, <1>5 DEF BytesReassemble

LEMMA SpaceFollows ==
    ASSUME ListingInv
    PROVE  SpaceReassembles
<1>1. /\ z \in Objects /\ Titled(z)
      /\ \A n \in DOMAIN z.sections : ~z.sections[n].ref_only =>
            home[n] = Come(z).at[n] + IF n = z.section THEN Len(z.bytes) + Pending ELSE 0
    BY DEF ListingInv, AlwaysInv, Lasts
<1>2. Len(z.listing) \in 0 .. Len(z.listing) /\ DOMAIN z.listing = 1 .. Len(z.listing)
    BY <1>1, KnowingRuns
<1>3. ASSUME Legible, NEW n \in DOMAIN z.sections, ~z.sections[n].ref_only,
             z.sections[n].processed, OriginShown(n)
      PROVE  Assembled[Len(z.listing)].at[n] = Come(z).at[n]
    <2>1. Readable(z)
        BY <1>3 DEF Legible, Item, Readable
    <2>2. SameAt(z, Len(z.listing))
        BY <1>1, <1>2, <2>1, SamePlaces
    <2>3. HeadingsOf(z, n) # {}
        BY <1>1, <1>3 DEF Titled
    <2>4. Headed(z, n, Len(z.listing))
        BY <1>2, <2>3 DEF Headed, HeadingsOf
    <2>5. Originated(z, n)
        BY <1>3, <2>3, OriginKnown
    <2> QED
        BY <2>2, <2>4, <2>5 DEF SameAt, Assembled, Come
<1> QED
    BY <1>1, <1>3 DEF SpaceReassembles, Pending

LEMMA PlacedFollows ==
    ASSUME ListingInv
    PROVE  LabelsPlaced
<1>1. z \in Objects /\ Listed(z, fed)
    BY DEF ListingInv, AlwaysInv, Lasts
<1>2. DOMAIN z.listing \subseteq 0 .. Len(z.listing)
    BY <1>1, KnowingRuns
<1>3. ASSUME Legible, NEW k \in DOMAIN z.listing, z.listing[k].kind = "labels",
             NEW l \in z.listing[k].which
      PROVE  LET a == Assembled[k]
             IN  /\ l.section = a.section
                 /\ OriginShown(l.section) => BeforeOrigin(l) \/ l.offset = Here(a)
    <2> DEFINE p == Knowing(z)[k]
               a == Assembled[k]
    <2>1. /\ p.section \in DOMAIN z.sections /\ l.section = p.section
          /\ BeforeOrigin(l) \/ l.offset = Here(p)
          /\ z.sections[p.section].ref_only => Given(z, p.section)
        BY <1>1, <1>3 DEF Listed, ItemFits, LabelsFit, BeforeOrigin
    <2> HIDE DEF p, a
    <2>2. a.section = p.section /\ (OriginShown(p.section) => Here(a) = Here(p))
        BY <1>2, <1>3, <2>1, SameHere DEF a, p
    <2>3. l.section = a.section /\ (OriginShown(l.section) => BeforeOrigin(l) \/ l.offset = Here(a))
        BY <2>1, <2>2
    <2> QED
        BY <2>3 DEF a
<1> QED
    BY <1>3 DEF LabelsPlaced, Item

LEMMA FoundFollows ==
    ASSUME ListingInv
    PROVE  LabelsFound
<1> DEFINE Times(l) == Cardinality({k \in DOMAIN z.listing :
                                        Item(k).kind = "labels" /\ l \in Item(k).which})
           Seen == entered \cup {n \in DOMAIN z.sections : z.sections[n].ref_only}
           Stops(l, k) == /\ Assembled[k].section = l.section /\ Here(Assembled[k]) = l.offset
                          /\ ~Cut(l.section, k)
           Reached(l) == \E k \in DOMAIN z.listing : Stops(l, k)
<1> SUFFICES ASSUME phase \in {"done", "endedEarly"}, Legible, OriginsForward,
                    \A n \in DOMAIN z.sections : OriginShown(n), NEW l \in module.symbols,
                    IsLabel(l), l.section \in DOMAIN module.sections, ~BeforeOrigin(l)
             PROVE  Times(l) = IF l.section \in Seen /\ Reached(l) THEN 1 ELSE 0
    BY DEF LabelsFound
<1>0. /\ z \in Objects /\ Listed(z, fed)
      /\ DOMAIN z.listing = 1 .. Len(z.listing) /\ Len(z.listing) \in Nat
    BY KnowingRuns DEF ListingInv, AlwaysInv, Lasts
<1>1. Forward(z)
    <2> SUFFICES ASSUME NEW k \in DOMAIN z.listing, z.listing[k].kind = "org",
                        NEW p, p = Knowing(z)[k - 1], p.section \in DOMAIN z.sections,
                        ~z.sections[p.section].ref_only
                 PROVE  z.listing[k].to >= Here(p)
        BY DEF Forward
    <2>1. k - 1 \in 0 .. Len(z.listing)
        BY <1>0
    <2>2. Here(Assembled[k - 1]) = Here(p)
        BY <2>1, SameHere
    <2> QED
        BY <2>2 DEF OriginsForward, Item
<1>2. l \in AllLabels(z, module)
    BY DEF AllLabels, BeforeOrigin
<1>3. Told(l)
    BY <1>1, <1>2 DEF ListingInv, OverInv
<1>4. l.section \in DOMAIN z.sections
    <2>1. Kept(z, module) /\ IsModule(module)
        BY DEF ListingInv, AlwaysInv, InputInv, Lasts
    <2> QED
        BY <2>1, ConstructedType, ZenonT(40) DEF Kept
<1>5. l.section \in Seen <=> Visited(l.section)
    BY <1>4 DEF Visited
<1>6. Times(l) = Cardinality(PrintedAt(z, l))
    BY DEF PrintedAt, Item
<1>7. ASSUME NEW k \in DOMAIN z.listing, z.sections[l.section].ref_only => Given(z, l.section)
      PROVE  Stops(l, k) <=> ComesTo(z, l, k)
    <2> DEFINE p == Knowing(z)[k]
               a == Assembled[k]
    <2>1. Cut(l.section, k) <=> CutAt(z, l.section, k)
        BY DEF Cut, CutAt, Item
    <2>2. k \in 0 .. Len(z.listing)
        BY <1>0
    <2> HIDE DEF p, a
    <2>3. a.section = p.section /\ (p.section = l.section => Here(a) = Here(p))
        BY <1>4, <1>7, <2>2, SameHere DEF a, p
    <2>4. ComesTo(z, l, k) <=> /\ p.section = l.section /\ Here(p) = l.offset
                               /\ ~CutAt(z, l.section, k)
        BY DEF ComesTo, p
    <2>5. Stops(l, k) <=> /\ a.section = l.section /\ Here(a) = l.offset
                          /\ ~Cut(l.section, k)
        BY DEF a
    <2> HIDE DEF Stops
    <2> QED
        BY <2>1, <2>3, <2>4, <2>5
<1>8. Cardinality({}) = 0 /\ \A k : Cardinality({k}) = 1
    BY FS_EmptySet, FS_Singleton
<1> HIDE DEF Times, Seen, Stops
<1>9. CASE IsPrinted(z, l) /\ Visited(l.section)
    <2>1. PICK k \in DOMAIN z.listing : PrintedAt(z, l) = {k} /\ ComesTo(z, l, k)
        BY <1>9 DEF IsPrinted
    <2>2. z.listing[k].kind = "labels" /\ Knowing(z)[k].section = l.section
        BY <2>1 DEF PrintedAt, ComesTo
    <2>3. z.sections[l.section].ref_only => Given(z, l.section)
        BY <1>0, <2>2 DEF Listed, ItemFits
    <2>4. Reached(l)
        BY <1>7, <2>1, <2>3
    <2> QED
        BY <1>5, <1>6, <1>8, <1>9, <2>1, <2>4
<1>10. CASE /\ PrintedAt(z, l) = {} /\ \A k \in DOMAIN z.listing : ~ComesTo(z, l, k)
            /\ ~z.sections[l.section].ref_only
    <2>1. ~Reached(l)
        BY <1>7, <1>10
    <2> QED
        BY <1>6, <1>8, <1>10, <2>1
<1>11. CASE PrintedAt(z, l) = {} /\ ~Visited(l.section)
    BY <1>5, <1>6, <1>8, <1>11
<1> HIDE DEF Reached
<1> QED
    BY <1>3, <1>9, <1>10, <1>11 DEF Told

LEMMA DeclaredFollows ==
    ASSUME ListingInv
    PROVE  DeclaredOnce
<1> DEFINE Times(kind, field, k) == {i \in DOMAIN z.listing :
                                         Item(i).kind = kind /\ k \in Item(i)[field]}
           Once(b) == IF b THEN 1 ELSE 0
           Named(k) == k.section \in DOMAIN module.sections \cup entered
<1> SUFFICES ASSUME phase \in {"done", "endedEarly"}, NEW k \in module.symbols
             PROVE  /\ Cardinality(Times("symbols", "externs", k)) = Once(k.kind = "undefined")
                    /\ Cardinality(Times("symbols", "variables", k)) = Once(k.variable)
                    /\ Cardinality(Times("section", "equs", k)) = Once(k.kind = "equ" /\ Named(k))
                    /\ (k.variable \/ k.kind = "undefined" => ~Named(k)) =>
                           Cardinality(Times("symbols", "publics", k))
                           + Cardinality(Times("section", "publics", k))
                           = Once(k.global /\ (k.variable \/ Named(k)))
    BY DEF DeclaredOnce
<1> DEFINE n == k.section
<1>1. /\ z \in Objects /\ Kept(z, module) /\ IsModule(module) /\ Declared(z)
      /\ Apart(z, module, entered) /\ entered \subseteq DOMAIN z.sections
      /\ \A m \in DOMAIN module.sections : z.sections[m].processed
    BY DEF ListingInv, AlwaysInv, InputInv, Lasts, OverInv
<1>2. DOMAIN module.sections \subseteq DOMAIN z.sections
    BY <1>1, ConstructedType DEF Kept
<1>3. Named(k) <=> n \in DOMAIN z.sections /\ z.sections[n].processed
    <2>1. \A m \in DOMAIN z.sections \ DOMAIN module.sections :
              m \in entered <=> z.sections[m].processed
        BY <1>1 DEF Apart
    <2> QED
        BY <1>1, <1>2, <2>1
<1>4. ASSUME NEW m \in DOMAIN z.sections
      PROVE  /\ k \in z.sections[m].publics <=> k.global /\ n = m
             /\ k \in z.sections[m].equs <=> k.kind = "equ" /\ n = m
    <2> DEFINE e == z.sections[m]
               d == Entry(module, m)
    <2>1. m \in 0 .. 255
        BY <1>1, EntryFields
    <2>2. d \in SectionEntry /\ SameSection(e, d)
        BY <1>1, <2>1, EntryType DEF Kept
    <2>3. d.publics = {j \in module.symbols : j.global /\ j.section = m}
          /\ d.equs = {j \in module.symbols : j.kind = "equ" /\ j.section = m}
        BY DEF Entry
    <2> HIDE DEF d, e
    <2>4. e.publics = d.publics /\ e.equs = d.equs
        BY <2>2 DEF SameSection, SectionEntry
    <2> QED
        BY <2>3, <2>4 DEF e
<1>5. ASSUME NEW i \in DOMAIN z.listing, z.listing[i].kind = "section", z.listing[i].number # n
      PROVE  k \notin z.listing[i].publics /\ k \notin z.listing[i].equs
    <2> DEFINE m == z.listing[i].number
    <2>1. m \in DOMAIN z.sections /\ i \in HeadingsOf(z, m)
        BY <1>1, <1>5 DEF Declared, HeadingsOf
    <2>2. HeadingsOf(z, m) # {}
        BY <2>1
    <2>3. PICK h \in HeadingsOf(z, m) : Declares(z, h)
          /\ \A g \in HeadingsOf(z, m) \ {h} : Silent(z, g)
        BY <1>1, <2>1, <2>2 DEF Declared
    <2>4. CASE i = h
        <3>1. z.listing[i].publics = z.sections[m].publics
              /\ z.listing[i].equs = z.sections[m].equs
            BY <2>3, <2>4 DEF Declares
        <3> QED
            BY <1>4, <1>5, <2>1, <3>1
    <2>5. CASE i # h
        BY <2>1, <2>3, <2>5 DEF Silent
    <2> QED
        BY <2>4, <2>5
<1>6. Cardinality({}) = 0 /\ \A j : Cardinality({j}) = 1
    BY FS_EmptySet, FS_Singleton
<1>7. /\ Cardinality(Times("section", "publics", k)) = Once(k.global /\ Named(k))
      /\ Cardinality(Times("section", "equs", k)) = Once(k.kind = "equ" /\ Named(k))
    <2> HIDE DEF Named
    <2>1. CASE Named(k)
        <3>1. n \in DOMAIN z.sections /\ z.sections[n].processed
            BY <1>3, <2>1
        <3>2. PICK j \in HeadingsOf(z, n) : Declares(z, j)
              /\ \A i \in HeadingsOf(z, n) \ {j} : Silent(z, i)
            BY <1>1, <3>1 DEF Declared
        <3>3. j \in DOMAIN z.listing /\ z.listing[j].kind = "section" /\ z.listing[j].number = n
            BY <3>2 DEF HeadingsOf
        <3>4. (k \in z.listing[j].publics <=> k.global)
              /\ (k \in z.listing[j].equs <=> k.kind = "equ")
            BY <1>4, <3>1, <3>2, <3>3 DEF Declares
        <3>5. ASSUME NEW i \in DOMAIN z.listing, z.listing[i].kind = "section", i # j
              PROVE  k \notin z.listing[i].publics /\ k \notin z.listing[i].equs
            <4>1. CASE z.listing[i].number = n
                BY <3>2, <3>5, <4>1 DEF HeadingsOf, Silent
            <4> QED
                BY <1>5, <3>5, <4>1
        <3>6. Times("section", "publics", k) = (IF k.global THEN {j} ELSE {})
            BY <3>3, <3>4, <3>5 DEF Item
        <3>7. Times("section", "equs", k) = (IF k.kind = "equ" THEN {j} ELSE {})
            BY <3>3, <3>4, <3>5 DEF Item
        <3> HIDE DEF Times
        <3> QED
            BY <1>6, <2>1, <3>6, <3>7
    <2>2. CASE ~Named(k)
        <3>1. \A i \in DOMAIN z.listing : z.listing[i].kind = "section" => z.listing[i].number # n
            BY <1>1, <1>3, <2>2 DEF Declared, HeadingsOf
        <3>2. Times("section", "publics", k) = {} /\ Times("section", "equs", k) = {}
            BY <1>5, <3>1 DEF Item
        <3> HIDE DEF Times
        <3> QED
            BY <1>6, <2>2, <3>2
    <2> QED
        BY <2>1, <2>2
<1>8. /\ Cardinality(Times("symbols", "externs", k)) = Once(k.kind = "undefined")
      /\ Cardinality(Times("symbols", "variables", k)) = Once(k.variable)
      /\ Cardinality(Times("symbols", "publics", k)) = Once(k.variable /\ k.global)
    <2> DEFINE d == Declarations(z)
    <2>1. z.symbols = module.symbols
        BY <1>1 DEF Kept
    <2>2. /\ d.kind = "symbols" /\ (k \in d.externs <=> k.kind = "undefined")
          /\ (k \in d.variables <=> k.variable)
          /\ (k \in d.publics <=> k.variable /\ k.global)
        BY <2>1 DEF Declarations
    <2> HIDE DEF d
    <2>3. /\ 1 \in DOMAIN z.listing /\ z.listing[1] = d
          /\ \A i \in DOMAIN z.listing : i # 1 => z.listing[i].kind # "symbols"
        BY <1>1 DEF Declared, Opens, d
    <2>4. Times("symbols", "externs", k) = (IF k.kind = "undefined" THEN {1} ELSE {})
        BY <2>2, <2>3 DEF Item
    <2>5. Times("symbols", "variables", k) = (IF k.variable THEN {1} ELSE {})
        BY <2>2, <2>3 DEF Item
    <2>6. Times("symbols", "publics", k) = (IF k.variable /\ k.global THEN {1} ELSE {})
        BY <2>2, <2>3 DEF Item
    <2> HIDE DEF Times
    <2> QED
        BY <1>6, <2>4, <2>5, <2>6
<1>9. (k.variable \/ k.kind = "undefined" => ~Named(k)) =>
          Once(k.variable /\ k.global) + Once(k.global /\ Named(k))
          = Once(k.global /\ (k.variable \/ Named(k)))
    <2> HIDE DEF Named
    <2>1. CASE k.variable
        BY <2>1
    <2>2. CASE ~k.variable
        BY <2>2
    <2> QED
        BY <2>1, <2>2
<1> HIDE DEF Times, Named
<1> QED
    BY <1>7, <1>8, <1>9

LEMMA ReservedFollows ==
    ASSUME ListingInv
    PROVE  ReferencesReserved
<1> SUFFICES ASSUME Legible, NEW n \in DOMAIN module.sections, module.sections[n].ref_only,
                    module.sections[n].org = 0, n \notin entered
             PROVE  LET ends == {module.sections[n].size}
                                \cup {l.offset : l \in {k \in module.symbols :
                                                            IsLabel(k) /\ k.section = n}}
                    IN  Assembled[Len(z.listing)].at[n] = CHOOSE m \in ends : \A x \in ends : x <= m
    BY DEF ReferencesReserved
<1> DEFINE ends == {module.sections[n].size} \cup {l.offset : l \in ModuleLabels(module, n)}
           a == Come(z).at[n]
<1>1. /\ z \in Objects /\ Kept(z, module) /\ IsModule(module) /\ Apart(z, module, entered)
    BY DEF ListingInv, AlwaysInv, InputInv, Lasts
<1>2. n \in DOMAIN z.sections
    BY <1>1, ConstructedType, ZenonT(40) DEF Kept
<1>3. z.sections[n].ref_only /\ z.sections[n].org = 0
    <2> DEFINE e == z.sections[n]
               d == Entry(module, n)
    <2>1. n \in 0 .. 255
        BY <1>1, <1>2, EntryFields
    <2>2. d \in SectionEntry /\ SameSection(e, d)
        BY <1>1, <1>2, <2>1, EntryType DEF Kept
    <2>3. d.ref_only = module.sections[n].ref_only /\ d.org = module.sections[n].org
        BY <1>1, <2>1, EntryType
    <2> HIDE DEF d, e
    <2>4. e.ref_only = d.ref_only /\ e.org = d.org
        BY <2>2 DEF SameSection, SectionEntry
    <2> QED
        BY <2>3, <2>4 DEF e
<1>4. IsEnd(z, module, n)
    BY <1>1, <1>3 DEF Apart
<1>5. a \in ends /\ \A x \in ends : x <= a
    BY <1>4 DEF IsEnd
<1>6. \A x \in ends : x \in Nat
    <2>1. module.sections[n].size \in Nat
        BY <1>1 DEF IsModule, ObjectSection
    <2>2. \A l \in ModuleLabels(module, n) : l.offset \in Nat
        BY <1>1 DEF IsModule, ObjectSymbol, ModuleLabels
    <2> QED
        BY <2>1, <2>2
<1>7. (CHOOSE m \in ends : \A x \in ends : x <= m) = a
    <2> HIDE DEF ends, a
    <2>1. \A m \in ends : (\A x \in ends : x <= m) => m = a
        BY <1>5, <1>6
    <2> QED
        BY <1>5, <2>1
<1>8. Assembled[Len(z.listing)].at[n] = a
    <2>1. Titled(z) /\ Readable(z) /\ Len(z.listing) \in 0 .. Len(z.listing)
        BY <1>1, KnowingRuns DEF ListingInv, AlwaysInv, Lasts, Legible, Item, Readable
    <2>2. SameAt(z, Len(z.listing))
        BY <1>1, <2>1, SamePlaces
    <2> QED
        BY <1>2, <1>3, <2>2 DEF SameAt, Originated, Assembled, Come
<1> QED
    BY <1>7, <1>8 DEF ModuleLabels

-----------------------------------------------------------------------------
(* What is still to do is less after each step. *)

Less(d, e) == \E k \in DOMAIN d : e[k] < d[k] /\ \A j \in 1 .. k - 1 : e[j] = d[j]
Flag(b) == IF b THEN 1 ELSE 0
LeftInside ==
    IF phase = "space" THEN rest
    ELSE IF rest > 0 THEN Len(Record.bytes) - rest
    ELSE IF At("DATA") THEN Len(Record.bytes) ELSE 0

LEMMA ToDoIs ==
    /\ DOMAIN ToDo = 1 .. 9
    /\ ToDo[1] = Flag(~Ended) /\ ToDo[2] = Len(files) /\ ToDo[3] = Flag(phase # "files")
    /\ ToDo[4] = Len(modules) /\ ToDo[5] = Flag(phase \in {"records", "space"})
    /\ ToDo[6] = Len(module.records) + 1 - next /\ ToDo[7] = Flag(phase # "space")
    /\ ToDo[8] = LeftInside
BY DEF ToDo, Flag, LeftInside

LEMMA LessAt ==
    ASSUME NEW d, NEW e, DOMAIN d = 1 .. 9,
           \/ e[1] < d[1]
           \/ e[1] = d[1] /\ e[2] < d[2]
           \/ e[1] = d[1] /\ e[2] = d[2] /\ e[3] < d[3]
           \/ e[1] = d[1] /\ e[2] = d[2] /\ e[3] = d[3] /\ e[4] < d[4]
           \/ e[1] = d[1] /\ e[2] = d[2] /\ e[3] = d[3] /\ e[4] = d[4] /\ e[5] < d[5]
           \/ /\ e[1] = d[1] /\ e[2] = d[2] /\ e[3] = d[3] /\ e[4] = d[4] /\ e[5] = d[5]
              /\ e[6] < d[6]
           \/ /\ e[1] = d[1] /\ e[2] = d[2] /\ e[3] = d[3] /\ e[4] = d[4] /\ e[5] = d[5]
              /\ e[6] = d[6] /\ e[7] < d[7]
           \/ /\ e[1] = d[1] /\ e[2] = d[2] /\ e[3] = d[3] /\ e[4] = d[4] /\ e[5] = d[5]
              /\ e[6] = d[6] /\ e[7] = d[7] /\ e[8] < d[8]
    PROVE  Less(d, e)
<1>1. ASSUME NEW k \in 1 .. 8, e[k] < d[k], \A j \in 1 .. k - 1 : e[j] = d[j]
      PROVE  Less(d, e)
    <2>1. k \in DOMAIN d
        OBVIOUS
    <2> QED
        BY <1>1, <2>1 DEF Less
<1>2. /\ 1 - 1 = 0 /\ 2 - 1 = 1 /\ 3 - 1 = 2 /\ 4 - 1 = 3 /\ 5 - 1 = 4 /\ 6 - 1 = 5 /\ 7 - 1 = 6
         /\ 8 - 1 = 7
    OBVIOUS
<1>3. /\ \A j \in 1 .. 0 : FALSE
      /\ \A j \in 1 .. 1 : j = 1
      /\ \A j \in 1 .. 2 : j = 1 \/ j = 2
      /\ \A j \in 1 .. 3 : j = 1 \/ j = 2 \/ j = 3
      /\ \A j \in 1 .. 4 : j = 1 \/ j = 2 \/ j = 3 \/ j = 4
      /\ \A j \in 1 .. 5 : j = 1 \/ j = 2 \/ j = 3 \/ j = 4 \/ j = 5
      /\ \A j \in 1 .. 6 : j = 1 \/ j = 2 \/ j = 3 \/ j = 4 \/ j = 5 \/ j = 6
      /\ \A j \in 1 .. 7 : j = 1 \/ j = 2 \/ j = 3 \/ j = 4 \/ j = 5 \/ j = 6 \/ j = 7
    OBVIOUS
<1>4. CASE e[1] < d[1]
    BY <1>1, <1>2, <1>3, <1>4
<1>5. CASE e[1] = d[1] /\ e[2] < d[2]
    BY <1>1, <1>2, <1>3, <1>5
<1>6. CASE e[1] = d[1] /\ e[2] = d[2] /\ e[3] < d[3]
    BY <1>1, <1>2, <1>3, <1>6
<1>7. CASE e[1] = d[1] /\ e[2] = d[2] /\ e[3] = d[3] /\ e[4] < d[4]
    BY <1>1, <1>2, <1>3, <1>7
<1>8. CASE e[1] = d[1] /\ e[2] = d[2] /\ e[3] = d[3] /\ e[4] = d[4] /\ e[5] < d[5]
    BY <1>1, <1>2, <1>3, <1>8
<1>9. CASE /\ e[1] = d[1] /\ e[2] = d[2] /\ e[3] = d[3] /\ e[4] = d[4] /\ e[5] = d[5]
           /\ e[6] < d[6]
    BY <1>1, <1>2, <1>3, <1>9
<1>10. CASE /\ e[1] = d[1] /\ e[2] = d[2] /\ e[3] = d[3] /\ e[4] = d[4] /\ e[5] = d[5]
            /\ e[6] = d[6] /\ e[7] < d[7]
    BY <1>1, <1>2, <1>3, <1>10
<1>11. CASE /\ e[1] = d[1] /\ e[2] = d[2] /\ e[3] = d[3] /\ e[4] = d[4] /\ e[5] = d[5]
            /\ e[6] = d[6] /\ e[7] = d[7] /\ e[8] < d[8]
    BY <1>1, <1>2, <1>3, <1>11
<1> QED
    BY <1>4, <1>5, <1>6, <1>7, <1>8, <1>9, <1>10, <1>11

LEMMA ListingLessens ==
    ASSUME ListingInv, Next, ~(Ended /\ UNCHANGED vars)
    PROVE  Less(ToDo, ToDo')
<1> DEFINE d == ToDo
           e == ToDo'
<1>1. /\ DOMAIN d = 1 .. 9
      /\ d[1] = Flag(~Ended) /\ d[2] = Len(files) /\ d[3] = Flag(phase # "files")
      /\ d[4] = Len(modules) /\ d[5] = Flag(phase \in {"records", "space"})
      /\ d[6] = Len(module.records) + 1 - next /\ d[7] = Flag(phase # "space")
      /\ d[8] = LeftInside
    BY ToDoIs
<1>2. /\ e[1] = Flag(~Ended') /\ e[2] = Len(files') /\ e[3] = Flag(phase' # "files")
      /\ e[4] = Len(modules') /\ e[5] = Flag(phase' \in {"records", "space"})
      /\ e[6] = Len(module'.records) + 1 - next' /\ e[7] = Flag(phase' # "space")
      /\ e[8] = LeftInside'
    BY DEF ToDo, Flag, LeftInside
<1> HIDE DEF d, e
<1>3. /\ files \in Seq(Range(files)) /\ modules \in Seq(Range(modules)) /\ IsModule(module)
      /\ Len(module.records) \in Nat /\ next \in 1 .. Len(module.records) + 1 /\ rest \in Nat
    <2>1. /\ files \in Seq(Range(files)) /\ modules \in Seq(Range(modules)) /\ IsModule(module)
          /\ next \in 1 .. Len(module.records) + 1 /\ rest \in Nat
        BY DEF ListingInv, InputInv
    <2>2. Len(module.records) \in Nat
        BY <2>1 DEF IsModule
    <2> QED
        BY <2>1, <2>2
<1>4. next \in Nat
    BY <1>3
<1>5. (Flag(TRUE) = 1 /\ Flag(FALSE) = 0) /\ 0 < 1
    BY DEF Flag
<1>6. CASE phase' \in {"exited", "endedEarly", "failed"} /\ ~Ended
    <2>1. e[1] = 0 /\ d[1] = 1
        BY <1>1, <1>2, <1>6 DEF Flag, Ended
    <2>2. e[1] < d[1]
        BY <2>1
    <2> QED
        BY <1>1, <2>2, LessAt DEF d, e
<1>7. CASE OpenFile
    <2>1. phase = "files" /\ files # << >> /\ phase' = "opened" /\ files' = Tail(files)
        BY <1>7 DEF OpenFile
    <2>2. e[1] = d[1]
        BY <1>1, <1>2, <2>1 DEF Ended, Flag
    <2>3. Len(Tail(files)) = Len(files) - 1 /\ Len(files) \in Nat
        BY <1>3, <2>1, TailIs
    <2>4. e[2] < d[2]
        BY <1>1, <1>2, <2>1, <2>3
    <2> QED
        BY <1>1, <2>2, <2>4, LessAt DEF d, e
<1>8. CASE BeginModule
    <2>1. phase \in {"opened", "done"} /\ modules # << >> /\ phase' = "records"
          /\ modules' = Tail(modules)
          /\ files' = files
        BY <1>8 DEF BeginModule
    <2>2. e[1] = d[1] /\ e[2] = d[2] /\ e[3] = d[3]
        BY <1>1, <1>2, <2>1 DEF Ended, Flag
    <2>3. Len(Tail(modules)) = Len(modules) - 1 /\ Len(modules) \in Nat
        BY <1>3, <2>1, TailIs
    <2>4. e[4] < d[4]
        BY <1>1, <1>2, <2>1, <2>3
    <2> QED
        BY <1>1, <2>2, <2>4, LessAt DEF d, e
<1>9. CASE FileDone
    <2>1. phase \in {"opened", "done"} /\ phase' = "files" /\ files' = files
        BY <1>9 DEF FileDone, inputs
    <2>2. e[1] = d[1] /\ e[2] = d[2] /\ e[3] = 0 /\ d[3] = 1
        BY <1>1, <1>2, <2>1 DEF Ended, Flag
    <2>3. e[3] < d[3]
        BY <2>2
    <2> QED
        BY <1>1, <2>2, <2>3, LessAt DEF d, e
<1>10. CASE End /\ phase' = "done"
    <2>1. phase = "records" /\ files' = files /\ modules' = modules
        BY <1>10 DEF End, At, Stop, inputs
    <2>2. e[1] = d[1] /\ e[2] = d[2] /\ e[3] = d[3] /\ e[4] = d[4] /\ e[5] = 0 /\ d[5] = 1
        BY <1>1, <1>2, <1>10, <2>1 DEF Ended, Flag
    <2>3. e[5] < d[5]
        BY <2>2
    <2> QED
        BY <1>1, <2>2, <2>3, LessAt DEF d, e
(* The next record. *)
<1>11. CASE /\ phase \in {"records", "space"} /\ phase' \in {"records", "space"}
            /\ files' = files /\ modules' = modules /\ module' = module /\ next' = next + 1
    <2>1. e[1] = d[1] /\ e[2] = d[2] /\ e[3] = d[3] /\ e[4] = d[4] /\ e[5] = d[5]
        BY <1>1, <1>2, <1>11 DEF Ended, Flag
    <2>2. e[6] < d[6]
        <3>1. e[6] = Len(module.records) + 1 - (next + 1)
            BY <1>2, <1>11
        <3>2. d[6] = Len(module.records) + 1 - next
            BY <1>1
        <3> DEFINE a == Len(module.records)
        <3>3. a \in Nat
            BY <1>3
        <3> HIDE DEF a
        <3>4. a + 1 - (next + 1) < a + 1 - next
            BY <1>4, <3>3
        <3> QED
            BY <3>1, <3>2, <3>4 DEF a
    <2> QED
        BY <1>1, <2>1, <2>2, LessAt DEF d, e
<1>12. CASE Space
    <2>1. phase = "records" /\ phase' = "space" /\ files' = files /\ modules' = modules
          /\ module' = module /\ next' = next
        BY <1>12 DEF Space, At, inputs
    <2>2. e[1] = d[1] /\ e[2] = d[2] /\ e[3] = d[3] /\ e[4] = d[4] /\ e[5] = d[5] /\ e[6] = d[6]
          /\ e[7] = 0 /\ d[7] = 1
        BY <1>1, <1>2, <2>1 DEF Ended, Flag
    <2>3. e[7] < d[7]
        BY <2>2
    <2> QED
        BY <1>1, <2>2, <2>3, LessAt DEF d, e
(* Some of a record. *)
<1>13. CASE /\ phase \in {"records", "space"} /\ phase' = phase
            /\ files' = files /\ modules' = modules /\ module' = module /\ next' = next
            /\ LeftInside' < LeftInside
    <2>1. e[1] = d[1] /\ e[2] = d[2] /\ e[3] = d[3] /\ e[4] = d[4] /\ e[5] = d[5] /\ e[6] = d[6]
          /\ e[7] = d[7]
        BY <1>1, <1>2, <1>13 DEF Ended, Flag
    <2>2. e[8] < d[8]
        BY <1>1, <1>2, <1>13
    <2> QED
        BY <1>1, <2>1, <2>2, LessAt DEF d, e
<1>14. CASE SpaceChunk
    <2>1. phase = "space" /\ phase' = phase /\ files' = files /\ modules' = modules
          /\ module' = module /\ next' = next /\ rest' = rest - Chunk(z, rest)
        BY <1>14 DEF SpaceChunk, inputs
    <2>2. Chunk(z, rest) \in 1 .. rest
        BY <1>14, SpaceChunkStep
    <2>3. rest' < rest
        BY <1>3, <2>1, <2>2
    <2>4. LeftInside' < LeftInside
        <3>1. LeftInside = rest
            BY <2>1 DEF LeftInside
        <3>2. LeftInside' = rest'
            BY <2>1 DEF LeftInside
        <3> QED
            BY <2>3, <3>1, <3>2
    <2> QED
        BY <1>13, <2>1, <2>4
<1>15. CASE DataByte
    <2>1. At("DATA") /\ phase = "records" /\ phase' = phase /\ files' = files /\ modules' = modules
          /\ module' = module /\ next \in DOMAIN module.records
        BY <1>15 DEF DataByte, At, inputs
    <2>2. CASE rest + 1 = Len(Record.bytes)
        <3>1. next' = next + 1
            BY <1>15, <2>2 DEF DataByte
        <3> QED
            BY <1>11, <2>1, <3>1
    <2>3. CASE rest + 1 # Len(Record.bytes)
        <3>1. next' = next /\ rest' = rest + 1
            BY <1>15, <2>3 DEF DataByte
        <3>2. Len(Record.bytes) \in Nat
            <4>1. Record \in ObjectRecord /\ Record.kind = "DATA"
                BY <1>3, <2>1, RecordFacts DEF At
            <4>2. Record.bytes \in Seq(Op)
                BY <4>1 DEF ObjectRecord
            <4> QED
                BY <4>2
        <3>3. Record' = Record
            BY <2>1, <3>1 DEF Record
        <3>4. LeftInside' = Len(Record.bytes) - (rest + 1)
            <4>1. rest + 1 > 0 /\ phase' # "space"
                BY <1>3, <2>1
            <4> QED
                BY <3>1, <3>3, <4>1 DEF LeftInside
        <3>5. LeftInside = Len(Record.bytes) - rest
            <4>1. CASE rest > 0
                BY <2>1, <4>1 DEF LeftInside
            <4>2. CASE rest = 0
                BY <2>1, <3>2, <4>2 DEF LeftInside
            <4> QED
                BY <1>3, <4>1, <4>2
        <3>6. LeftInside' < LeftInside
            BY <1>3, <3>2, <3>4, <3>5
        <3> QED
            BY <1>13, <2>1, <3>1, <3>6
    <2> QED
        BY <2>2, <2>3
<1>16. CASE Expression \/ Debug \/ Section \/ SetOrg \/ Line
    <2>1. Advance /\ phase = "records"
        BY <1>16 DEF Expression, Debug, Section, SetOrg, Line, At
    <2> QED
        BY <1>11, <2>1 DEF Advance, inputs
<1>17. CASE SpaceDone
    BY <1>11, <1>17 DEF SpaceDone, inputs
<1>18. CASE BadFile \/ BadModule \/ Exit \/ BadExpression \/ BadDebug \/ BadRecord
    <2>1. phase' \in {"exited", "failed"} /\ phase \in {"files", "opened", "done", "records"}
        BY <1>18 DEF BadFile, BadModule, Exit, BadExpression, BadDebug, BadRecord, Stop, At
    <2> QED
        BY <1>6, <2>1 DEF Ended
<1>19. CASE End
    <2>1. phase = "records" /\ phase' \in {"done", "endedEarly"}
        BY <1>19 DEF End, At, Stop
    <2> QED
        BY <1>6, <1>10, <1>19, <2>1 DEF Ended
<1> QED
    BY <1>7, <1>8, <1>9, <1>12, <1>14, <1>15, <1>16, <1>17, <1>18, <1>19 DEF Next

(* The object keeps its type: never more bytes in hand than _bytes holds.  *)
THEOREM ListingTypes == Spec => []ListingTypeOK
<1>1. ListingInv => ListingTypeOK
    BY TypeFollows
<1> QED
    BY <1>1, ListingInvariant, PTL

(* An assembler that reads a listing of any file gets the bytes of the     *)
(* records, in their order; and each where the records have it, if every   *)
(* heading says its section. The address in the comment of a line is where *)
(* the assembler is, if the section's origin is in the listing.            *)
THEOREM BytesComeBack == Spec => []BytesReassemble
<1>1. ListingInv => BytesReassemble
    BY BytesFollow
<1> QED
    BY <1>1, ListingInvariant, PTL

(* In a listing with no blank heading it gets as far in each section as    *)
(* the records do, over the space that space() prints in pieces, if the    *)
(* section's origin is in the listing.                                     *)
THEOREM SpaceComesBack == Spec => []SpaceReassembles
<1>1. ListingInv => SpaceReassembles
    BY SpaceFollows
<1> QED
    BY <1>1, ListingInvariant, PTL

(* Every label that is printed is printed in its section, in a listing     *)
(* with no blank heading, and at its offset, if the section's origin is in *)
(* the listing.                                                            *)
THEOREM LabelsInPlace == Spec => []LabelsPlaced
<1>1. ListingInv => LabelsPlaced
    BY PlacedFollows
<1> QED
    BY <1>1, ListingInvariant, PTL

(* And at the end of such a listing with all its origins, if they lead     *)
(* forward: once each label that the listing has stopped at, and no other. *)
THEOREM LabelsAllFound == Spec => []LabelsFound
<1>1. ListingInv => LabelsFound
    BY FoundFollows
<1> QED
    BY <1>1, ListingInvariant, PTL

(* At the end every import, every variable and every equate is declared    *)
(* once, and every public symbol: a variable or an import as long as its   *)
(* section is not in the module.                                           *)
THEOREM SymbolsDeclared == Spec => []DeclaredOnce
<1>1. ListingInv => DeclaredOnce
    BY DeclaredFollows
<1> QED
    BY <1>1, ListingInvariant, PTL

(* The sections that only name places are as long as the module has them,  *)
(* until a record enters them, in a listing with no blank heading.         *)
THEOREM ReferencesGiven == Spec => []ReferencesReserved
<1>1. ListingInv => ReferencesReserved
    BY ReservedFollows
<1> QED
    BY <1>1, ListingInvariant, PTL

(* Each step does some of what is to do, so a listing of any file ends.    *)
THEOREM ListingGoesOn == Spec => ListingAdvances
<1>1. ListingInv /\ [Next]_vars
      => [\E k \in DOMAIN ToDo : ToDo'[k] < ToDo[k]
          /\ \A j \in 1 .. k - 1 : ToDo'[j] = ToDo[j]]_vars
    <2> SUFFICES ASSUME ListingInv, Next, ~UNCHANGED vars
                 PROVE  \E k \in DOMAIN ToDo : ToDo'[k] < ToDo[k]
                        /\ \A j \in 1 .. k - 1 : ToDo'[j] = ToDo[j]
        OBVIOUS
    <2> QED
        BY ListingLessens DEF Less
<1> QED
    BY <1>1, ListingInvariant, PTL DEF Spec, ListingAdvances
=============================================================================
