----------------------------- MODULE MCFolding -----------------------------
(* Small expressions to fold. *)
EXTENDS Folding

MCOperands == {Val(0), Val(2), Val(WordSize - 1), Loc(1, 0), Loc(1, 2), Loc(2, 3)}
MCPlacements == {<< 0, 0 >>, << 5, 17 >>}
=============================================================================
