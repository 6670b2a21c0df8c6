--------------------------- MODULE MCAuthentication ---------------------------
(* Two users, one of them without a password, and every kind of stack. *)
EXTENDS Authentication, TLC

MCCreds == "ann" :> "xx"

MCAccount == ("ann" :> "xx") @@ ("bob" :> Empty) @@ ("eve" :> "yy")

MCPermitted == {"ann", "bob"}

MCStacks == {<<>>, <<"ECHO_OFF">>, <<"TEXT_INFO", "ECHO_OFF">>,
             <<"ECHO_OFF", "TEXT_INFO">>, <<"ECHO_ON", "ECHO_OFF">>,
             <<"ECHO_OFF", "UNKNOWN">>}
===============================================================================
