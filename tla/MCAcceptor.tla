------------------------------ MODULE MCAcceptor ------------------------------
(* Two sockets that share the global limit. *)
EXTENDS Acceptor

CONSTANTS plain, other

OneEach == [a \in Sockets |-> 1]

OneOnFirst == [a \in Sockets |-> IF a = plain THEN 1 ELSE 0]

Unlimited == [a \in Sockets |-> 0]

===============================================================================
