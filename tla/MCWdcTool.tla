----------------------------- MODULE MCWdcTool -----------------------------
(* Small command lines for wdclink from the object files to the output. *)
EXTENDS WdcTool, MCWdcLink

MCNameLength == [s \in {"", "tab"} |-> IF s = "" THEN 0 ELSE 3]
=============================================================================
