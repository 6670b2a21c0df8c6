-------------------------------- MODULE Session --------------------------------
(***************************************************************************)
(* What one connection promises its client: it is admitted or refused;     *)
(* while it is served every complete line it sends comes back, whole, once *)
(* and in order, unless it is dismissed first; a dismissed client is       *)
(* disconnected and never served again.                                    *)
(*                                                                         *)
(* The promise is read off smerpConnection::nextOperation and              *)
(* connection::start; it has no buffer, no timer and no pending operation. *)
(***************************************************************************)
EXTENDS Integers, Sequences

CONSTANTS Byte, NL

VARIABLES phase, received, echoed

svars == <<phase, received, echoed>>

Init == phase = "new" /\ received = <<>> /\ echoed = <<>>

(* The client may be heard in any step of an admitted connection. *)
Hears ==
    /\ Len(received) <= Len(received')
    /\ SubSeq(received', 1, Len(received)) = received

Admit == phase = "new" /\ phase' = "serving" /\ UNCHANGED <<received, echoed>>

Refuse == phase = "new" /\ phase' = "closed" /\ UNCHANGED <<received, echoed>>

Listen == phase = "serving" /\ phase' = "serving" /\ Hears /\ UNCHANGED echoed

(* The first complete line that has not been answered is sent back. *)
Answer ==
    /\ phase = "serving" /\ phase' = "serving" /\ Hears
    /\ \E last \in Len(echoed) + 1 .. Len(received') :
          /\ received'[last] = NL
          /\ \A i \in Len(echoed) + 1 .. last - 1 : received'[i] # NL
          /\ echoed' = SubSeq(received', 1, last)

Dismiss ==
    /\ phase \in {"serving", "leaving"} /\ phase' = "leaving"
    /\ Hears /\ UNCHANGED echoed

Close ==
    /\ phase \in {"serving", "leaving", "closed"} /\ phase' = "closed"
    /\ Hears /\ UNCHANGED echoed

Next == Admit \/ Refuse \/ Listen \/ Answer \/ Dismiss \/ Close

Spec == Init /\ [][Next]_svars

(* A dismissed client is disconnected. *)
Ends == phase = "leaving" ~> phase = "closed"
===============================================================================
