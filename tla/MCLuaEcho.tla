------------------------------ MODULE MCLuaEcho -------------------------------
(* "quit" is two bytes long. *)
EXTENDS LuaEcho

MCQuit == <<"q", "t">>
===============================================================================
