------------------------------ MODULE MCLinker ------------------------------
(* Small command lines for the linking phases. *)
EXTENDS LinkerProperties, SequencesExt

InitialSymbols == InitialNames \cup Range(PredefinedName)
MCSectionNames == {"", "tab"}
MCNames == InitialSymbols \cup MCSectionNames \cup
           {"a", "b", "c", "d", "_BEG_TAB", "_END_TAB"}
MCBegName == [s \in MCSectionNames |-> IF s = "" THEN "" ELSE "_BEG_TAB"]
MCEndName == [s \in MCSectionNames |-> IF s = "" THEN "" ELSE "_END_TAB"]

TAB == 6    \* the local number of a user section

-----------------------------------------------------------------------------
(* What an assembler writes. *)

Extern(n)       == [name |-> n, type |-> "UND", flags |-> {}, offset |-> 0, section |-> 0]
Public(n, s, o) == [name |-> n, type |-> "REL", flags |-> Global, offset |-> o, section |-> s]
Private(n, s, o) == [Public(n, s, o) EXCEPT !.flags = {"DEF"}]
Constant(n, v)  == [name |-> n, type |-> "ABS", flags |-> Global, offset |-> v, section |-> 0]

Emit(op, n, stack) == [op |-> op, n |-> n, stack |-> stack]
Data(n)     == Emit("DATA", n, << >>)
Sect(s)     == Emit("SECT", s, << >>)
Expr(stack) == Emit("EXPR", 2, stack)

(* The declared size of a section is the bytes that the records put there. *)
Uses(number, name, flags, size) ==
    [number |-> number, name |-> name, flags |-> flags, size |-> size]
Code(size) == Uses(CODE, "", {"NONAME"}, size)
Vars(size) == Uses(DATA, "", {"DATA", "NONAME"}, size)
Bss(size)  == Uses(UDATA, "", {"DATA", "NONAME", "REF_ONLY"}, size)
Tab(size)  == Uses(TAB, "tab", {"DATA"}, size)
Anon(n, size) == Uses(n, "", {"DATA", "NONAME"}, size)

Mod(secs, syms, recs) ==
    [intact |-> TRUE, secs |-> secs, syms |-> syms, recs |-> recs]
Truncated == [NoModule EXCEPT !.intact = FALSE]

Object(mods)    == [kind |-> "object", mods |-> mods]
NoFile(kind)    == [kind |-> kind, mods |-> << >>]
Lib0(kind)      == [kind |-> kind, mods |-> << >>, dict |-> << >>]
Archive(mods, dict) == [kind |-> "library", mods |-> mods, dict |-> dict]

-----------------------------------------------------------------------------
(* Modules that refer to each other, forwards and backwards. *)

(* Calls b; defines a after its first byte. *)
CallsB == Mod(<< Code(5) >>, << Extern("b"), Public("a", CODE, 1) >>,
              << Data(1), Expr(<< Sym(1) >>), Expr(<< Sym(2) >>) >>)

(* Defines b in the data; the difference of two of its labels is folded.   *)
DefinesB == Mod(<< Code(3), Vars(2) >>,
                << Public("b", DATA, 1), Private("a", DATA, 0), Extern("_END_DATA") >>,
                << Data(1), Expr(<< Sym(3), Sym(1), Op("SUB") >>), Sect(DATA), Data(1),
                   Emit("SPACE", 1, << >>) >>)

(* Uses a from elsewhere, with an addend, and a table section of its own.  *)
WithTable == Mod(<< Code(2), Tab(3) >>,
                 << Extern("a"), Public("c", TAB, 2), Extern("_END_TAB") >>,
                 << Expr(<< Sym(1), Val(3), Op("ADD") >>), Emit("DEBUG", 0, << >>),
                    Sect(TAB), Data(1), Emit("RELEXP", 2, << Sym(2) >>) >>)

(* The same table section under another number, and an anonymous one.      *)
MoreTable == Mod(<< Anon(TAB, 1), Uses(TAB + 1, "tab", {"DATA"}, 2) >>,
                 << Extern("c"), Constant("d", 3), Public("b", TAB + 1, 0) >>,
                 << Sect(TAB + 1), Expr(<< Sym(1), Sym(3), Op("SUB"), Sym(2), Op("ADD") >>),
                    Sect(TAB), Data(1) >>)

(* Defines a again, and the constant with another value.                   *)
Again == Mod(<< Code(2) >>, << Public("a", CODE, 0), Constant("d", 4), Extern("d") >>,
             << Expr(<< Sym(3) >>) >>)

Pool == {CallsB, DefinesB, WithTable, MoreTable, Again}

Links(objs) == {[objs |-> o, libs |-> << >>] : o \in objs}

(* One module to a file, or all in one file.                               *)
MCObjects ==
    Links({[k \in DOMAIN s |-> Object(<< s[k] >>)] : s \in SeqOf(Pool, 3) \ {<< >>}}
          \cup {<< Object(s) >> : s \in SeqOf(Pool, 2)})

-----------------------------------------------------------------------------
(* Libraries whose modules need each other, across rounds and libraries.   *)

Needs(syms) == Mod(<< Code(2) >>, syms, << Expr(<< Sym(1) >>) >>)
Start  == Needs(<< Extern("a"), Extern("b") >>)
GivesA == Needs(<< Extern("c"), Public("a", CODE, 0) >>)
GivesB == Needs(<< Extern("a"), Public("b", CODE, 1) >>)
GivesC == Needs(<< Extern("d"), Public("c", CODE, 0), Extern("_END_CODE") >>)
GivesD == Mod(<< Code(1) >>, << Constant("d", 5) >>, << Data(1) >>)

CycleLib == Archive(<< GivesC, GivesB, GivesA >>, [c |-> 1, b |-> 2, a |-> 3])
TailLib  == Archive(<< GivesD, GivesC >>, [d |-> 1, c |-> 2])
FrontLib == Archive(<< GivesB, GivesA >>, [b |-> 1, a |-> 2])
StaleLib == Archive(<< GivesD, Truncated >>, [d |-> 1, a |-> 2])

Shelf == {CycleLib, TailLib, FrontLib, StaleLib, Lib0("missing"), Lib0("invalid")}

(* Up to two -l options, each looked for in no, one or two -L directories. *)
Searches(dirs) == SeqOf({d \in SeqOf(Shelf, dirs) : Len(d) = dirs}, 2)

MCLibraries ==
    {[objs |-> << Object(<< Start >>) >>, libs |-> s] :
        s \in Searches(0) \cup Searches(1) \cup {t \in Searches(2) : Len(t) < 2}}
    \cup {[objs |-> << Object(<< Start, GivesA >>) >>, libs |-> s] : s \in Searches(1)}
    \cup {[objs |-> << Object(<< Start >>) >>, libs |-> << <<TailLib>>, <<CycleLib>>, <<TailLib>> >>]}

-----------------------------------------------------------------------------
(* Files and modules that something is wrong with. *)

Wrong == {
    Mod(<< Code(0) >>, << Public("a", TAB, 0) >>, << >>),
    Mod(<< Uses(TAB, "tab", {}, 0) >>, << >>, << >>),
    Mod(<< Code(0) >>, << >>, << Emit("ORG", 0, << >>) >>),
    Mod(<< Code(0) >>, << >>, << Sect(PAGE0) >>),
    Mod(<< Code(0) >>, << >>, << Sect(TAB) >>),
    Mod(<< Code(0) >>, << >>, << Expr(<< Sym(1) >>) >>),
    Mod(<< Code(0) >>, << >>, << Expr(<< Loc(TAB, 0) >>) >>),
    Mod(<< Code(2) >>, << >>, << Expr(<< Val(1), Val(2) >>) >>),
    Mod(<< Code(2) >>, << >>, << Expr(<< Val(1), Op("NEG") >>) >>),
    Mod(<< Code(2) >>, << >>, << Expr(<< Val(1), Val(0), Op("DIV") >>) >>),
    Truncated }

MCErrors ==
    Links({<< Object(<< WithTable, m, CallsB >>), Object(<< DefinesB >>) >> : m \in Wrong}
          \cup {<< NoFile(k), Object(<< CallsB, DefinesB >>) >> :
                    k \in {"missing", "invalid", "library"}})

MCInputs  == MCLibraries \cup MCErrors
MCModules == MCObjects \cup MCInputs

-----------------------------------------------------------------------------
(* Command lines on which the program differs from its own comments. *)

(* Each module refers to the first byte of its code by section and offset. *)
Local(n) == Mod(<< Code(3) >>, << >>, << Data(n), Expr(<< Loc(CODE, 0) >>) >>)
MCLocations == Links({<< Object(<< Local(1), Local(1) >>) >>})

(* Each module has a variable at the start of its udata. *)
Var(n) == Mod(<< Code(0), Bss(4) >>, << Public(n, UDATA, 0) >>, << >>)
MCRefOnly == Links({<< Object(<< Var("a") >>), Object(<< Var("b") >>) >>})

(* A module refers to the end of a section, or to a section, of the next.  *)
UsesName(n) == Mod(<< Code(2) >>, << Extern(n) >>, << Expr(<< Sym(1) >>) >>)
HasTable == Mod(<< Tab(2) >>, << >>, << Sect(TAB), Data(2) >>)
MCSectionEnd  == Links({<< Object(<< UsesName("_END_TAB"), HasTable >>) >>})
MCSectionName == Links({<< Object(<< HasTable, UsesName("tab") >>) >>})
=============================================================================
