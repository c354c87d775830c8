----------------------------- MODULE MCWdcLink -----------------------------
(* Small command lines for wdclink as a whole. *)
EXTENDS WdcLink, MCLinker

Relative(n, stack) == Emit("RELEXP", n, stack)
Wide(n, stack)     == Emit("EXPR", n, stack)
Proc(size) == Uses(TAB, "tab", {}, size)          \* code in a segment of its own
Page(size) == Uses(PAGE0, "", {"DATA", "NONAME", "DIRECT", "REF_ONLY"}, size)

(* Branches over a long address of a label elsewhere. *)
Branching == Mod(<< Code(7), Page(3) >>,
                 << Public("a", CODE, 1), Extern("b"), Private("d", CODE, 6) >>,
                 << Relative(1, << Sym(3) >>), Wide(3, << Sym(2) >>),
                    Relative(2, << Sym(1) >>), Data(1) >>)

(* The high and low parts of addresses; a branch from one segment to next. *)
Parts == Mod(<< Proc(6), Vars(1), Bss(2) >>,
             << Public("b", TAB, 4), Extern("a"), Public("c", DATA, 0) >>,
             << Sect(DATA), Data(1), Sect(TAB),
                Wide(2, << Sym(2), Val(16), Op("SHR") >>),
                Wide(2, << Sym(1), Val(2), Op("SHL") >>), Data(2) >>)

(* The distance between labels of two data sections, and a far branch.     *)
Distances == Mod(<< Code(3), Vars(2), Anon(TAB, 4) >>,
                 << Public("c", TAB, 1), Private("d", DATA, 1), Extern("a"), Extern("b") >>,
                 << Relative(1, << Sym(3) >>), Expr(<< Sym(1), Sym(2), Op("SUB") >>),
                    Sect(DATA), Data(2), Sect(TAB), Data(1),
                    Wide(3, << Sym(4), Val(1), Op("ADD") >>) >>)

(* What to_omf() refuses, and what it takes although it should not.        *)
Refused == Mod(<< Code(12), Page(1) >>,
               << Extern("a"), Extern("b"), Private("d", PAGE0, 0) >>,
               << Wide(0, << Val(1) >>), Wide(1, << >>),
                  Wide(2, << Sym(1), Val(25), Op("SHR") >>),
                  Wide(5, << Sym(2) >>), Wide(2, << Sym(3) >>),
                  Relative(2, << Sym(1), Sym(2), Op("MUL") >>) >>)

(* An expression in a section that is not placed; the negation of a        *)
(* distance that is only known when the sections are placed.               *)
NoPlace == Mod(<< Uses(TAB, "tab", {"DATA", "REF_ONLY"}, 2) >>, << >>,
               << Sect(TAB), Expr(<< Val(1) >>) >>)
Negated == Mod(<< Code(2), Vars(1), Anon(TAB, 1) >>,
               << Public("c", TAB, 0), Private("d", DATA, 0) >>,
               << Expr(<< Sym(1), Sym(2), Op("SUB"), Op("NEG") >>),
                  Sect(DATA), Data(1), Sect(TAB), Data(1) >>)

(* Code in a segment of its own that branches in it and out of it. *)
Far == Mod(<< Proc(4) >>, << Public("b", TAB, 1), Extern("a") >>,
           << Sect(TAB), Data(1), Relative(1, << Sym(1) >>), Relative(2, << Sym(2) >>) >>)

(* A branch back over n bytes: the furthest is 7 of them and its own. *)
Back(n) == Mod(<< Code(n + 1) >>, << Private("d", CODE, 0) >>,
               << Data(n), Relative(1, << Sym(1) >>) >>)

ToolPool == {Branching, Parts, Distances, Far}
MCConverted == Links({<< Object(s) >> : s \in {t \in SeqOf(ToolPool, 3) : Len(t) >= 2}})
MCRefused == Links({<< Object(<< Branching, Parts, Refused >>) >>,
                    << Object(<< Refused, Distances, Branching, Far >>) >>,
                    << Object(<< Branching, Far, Negated >>) >>,
                    << Object(<< NoPlace >>) >>, << Object(<< Back(7) >>) >>,
                    << Object(<< Back(8) >>) >>})
(* A module of a library, which is found in the second directory.          *)
MCSearched == {[objs |-> << Object(<< Branching >>) >>,
                libs |-> << << Lib0("missing"), FrontLib >> >>]}

(* Code with addresses in several pages, and other bytes between them.     *)
Loads == Mod(<< Code(9) >>, << Extern("b"), Public("a", CODE, 4) >>,
             << Wide(3, << Sym(1) >>), Data(6) >>)
MCPages == Links({<< Object(<< Loads, Loads, Loads, Loads, Far >>) >>})

MCTool == MCConverted \cup MCRefused \cup MCSearched \cup MCPages
MCBranch == Links({<< Object(<< Far, Again >>) >>})
MCStack  == Links({<< Object(<< Branching, Parts >>) >>})
=============================================================================
