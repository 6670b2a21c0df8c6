----------------------------- MODULE MCConnection -----------------------------
(* Values of the constants for model checking: "quit" is two bytes long.   *)
EXTENDS Connection

MCQuit == <<"q", "t">>
===============================================================================
