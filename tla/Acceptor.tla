------------------------------- MODULE Acceptor -------------------------------
(***************************************************************************)
(* The acceptors of the server, the per-socket and global connection lists *)
(* that enforce the connection limits, and the orderly stop                *)
(* (src/src/acceptor.cpp, connection.cpp, connection.hpp, server.cpp).     *)
(*                                                                         *)
(* Every acceptor and every connection has a strand; the handlers run on   *)
(* Threads threads.  A handler that admits a connection is two steps, the  *)
(* test of the limits and the push into the list, because another thread   *)
(* may run between them.  Every other handler is one step.  The lists are  *)
(* std::lists without a lock; the model takes a single list operation as   *)
(* atomic.  A connection that is served is module Connection, of which     *)
(* only its end is visible here.                                           *)
(***************************************************************************)
EXTENDS Integers, FiniteSets

CONSTANTS
    Sockets,        \* the acceptors, one per listening endpoint
    Secure,         \* those that are SSLacceptors
    Conn,           \* the client connections of a run
    SocketMax,      \* maxConnections of each endpoint, 0 for no limit
    GlobalMax,      \* maxConnections of the server, 0 for no limit
    Threads         \* threadPoolSize_

ASSUME AcceptorAssumption ==
    /\ Secure \subseteq Sockets
    /\ IsFiniteSet(Conn)
    /\ SocketMax \in [Sockets -> Nat]
    /\ GlobalMax \in Nat
    /\ Threads \in Nat \ {0}

VARIABLES
    phase,          \* of each connection, see Phases
    at,             \* the acceptor a connection came in on
    listed,         \* the connection is in its acceptor's connList_
    signalled,      \* handleSignal was dispatched to the connection
    listening,      \* acceptor_ is open
    accepting,      \* an async_accept is pending
    stop,           \* handleStop of each acceptor: "no", "posted", "done"
    crashed         \* an exception left io_service::run()

vars == <<phase, at, listed, signalled, listening, accepting, stop, crashed>>

Phases == {"new",           \* no client yet
           "accepted",      \* handleAccept is queued
           "handshake",     \* async_handshake is pending
           "passed",        \* isFull() said no, not yet pushed
           "full",          \* isFull() said yes, not yet turned away
           "serving",       \* pushed, the handler runs
           "refused", "closed"}

Init ==
    /\ phase = [c \in Conn |-> "new"]
    /\ at \in [Conn -> Sockets]
    /\ listed = [c \in Conn |-> FALSE]
    /\ signalled = [c \in Conn |-> FALSE]
    /\ listening = [a \in Sockets |-> TRUE]
    /\ accepting = [a \in Sockets |-> TRUE]
    /\ stop = [a \in Sockets |-> "no"]
    /\ crashed = FALSE

-------------------------------------------------------------------------------
ConnList(a) == {c \in Conn : listed[c] /\ at[c] = a}

AllListed == {c \in Conn : listed[c]}

(* Bug: conns > maxConn_ instead of >=. *)
GlobalIsFullLate == GlobalMax > 0 /\ Cardinality(AllListed) > GlobalMax

GlobalIsFull == GlobalMax > 0 /\ Cardinality(AllListed) >= GlobalMax

IsFull(a) ==
    \/ SocketMax[a] > 0 /\ Cardinality(ConnList(a)) >= SocketMax[a]
    \/ GlobalIsFull

(* The handlers in the middle of an admission, each on a thread. *)
Deciding == {c \in Conn : phase[c] \in {"passed", "full"}}

ThreadFree == ~crashed /\ Cardinality(Deciding) < Threads

(* connection::start() runs inside handleAccept and keeps the strand. *)
StrandFree(a) == a \in Secure \/ \A c \in Deciding : at[c] # a

Becomes(c, p) == phase' = [phase EXCEPT ![c] = p]

(* Bug: the overload of local_endpoint() that does not throw. *)
AcceptNextQuiet(a) ==
    accepting' = [accepting EXCEPT ![a] = listening[a]] /\ UNCHANGED crashed

(* handleAccept goes on to local_endpoint() and the next async_accept; on  *)
(* a closed acceptor local_endpoint() throws.                              *)
AcceptNext(a) ==
    IF listening[a]
    THEN accepting' = [accepting EXCEPT ![a] = TRUE] /\ UNCHANGED crashed
    ELSE crashed' = TRUE /\ UNCHANGED accepting

(* After start() a plain acceptor's handler goes on; an SSL connection     *)
(* decided on its own strand, its acceptor went on long ago.               *)
Decided(c) ==
    IF at[c] \in Secure THEN UNCHANGED <<accepting, crashed>>
                        ELSE AcceptNext(at[c])

-------------------------------------------------------------------------------
(* The kernel completes the pending async_accept. *)
Connect(c) ==
    /\ ~crashed
    /\ phase[c] = "new" /\ accepting[at[c]]
    /\ Becomes(c, "accepted")
    /\ accepting' = [accepting EXCEPT ![at[c]] = FALSE]
    /\ UNCHANGED <<at, listed, signalled, listening, stop, crashed>>

(* handleAccept with an error, such as no more descriptors: no new         *)
(* async_accept is started.                                                *)
AcceptError(a) ==
    /\ ThreadFree /\ StrandFree(a)
    /\ accepting[a]
    /\ accepting' = [accepting EXCEPT ![a] = FALSE]
    /\ UNCHANGED <<phase, at, listed, signalled, listening, stop, crashed>>

(* isFull(), at the head of an admission. *)
TestLimits(c) ==
    /\ Becomes(c, IF IsFull(at[c]) THEN "full" ELSE "passed")
    /\ UNCHANGED <<at, listed, signalled, listening, accepting, stop, crashed>>

(* Bug: the plain connection is started later, as after a handshake. *)
HandleAcceptPosted(c) ==
    /\ ThreadFree
    /\ phase[c] = "accepted" /\ at[c] \notin Secure
    /\ Becomes(c, "handshake")
    /\ AcceptNext(at[c])
    /\ UNCHANGED <<at, listed, signalled, listening, stop>>

(* acceptor::handleAccept up to isFull(). *)
HandleAccept(c) ==
    /\ ThreadFree
    /\ phase[c] = "accepted" /\ at[c] \notin Secure
    /\ TestLimits(c)

(* SSLacceptor::handleAccept: the handshake decides later. *)
HandleAcceptSSL(c) ==
    /\ ThreadFree
    /\ phase[c] = "accepted" /\ at[c] \in Secure
    /\ Becomes(c, "handshake")
    /\ AcceptNext(at[c])
    /\ UNCHANGED <<at, listed, signalled, listening, stop>>

(* SSLconnection::handleHandshake up to isFull(). *)
HandleHandshake(c) ==
    /\ ThreadFree
    /\ phase[c] = "handshake"
    /\ TestLimits(c)

HandleHandshakeError(c) ==
    /\ ThreadFree
    /\ phase[c] = "handshake"
    /\ Becomes(c, "refused")
    /\ UNCHANGED <<at, listed, signalled, listening, accepting, stop, crashed>>

(* The rest of the admission: push and serve ... *)
Admit(c) ==
    /\ ~crashed
    /\ phase[c] = "passed"
    /\ Becomes(c, "serving")
    /\ listed' = [listed EXCEPT ![c] = TRUE]
    /\ Decided(c)
    /\ UNCHANGED <<at, signalled, listening, stop>>

(* Bug: handleAccept returns once a client is refused. *)
RefuseDeaf(c) ==
    /\ ~crashed
    /\ phase[c] = "full"
    /\ Becomes(c, "refused")
    /\ UNCHANGED <<at, listed, signalled, listening, accepting, stop, crashed>>

(* ... or send REFUSE_MSG and shut the socket down. *)
Refuse(c) ==
    /\ ~crashed
    /\ phase[c] = "full"
    /\ Becomes(c, "refused")
    /\ Decided(c)
    /\ UNCHANGED <<at, listed, signalled, listening, stop>>

(* The client is gone before it was served: remote_endpoint() or the       *)
(* blocking write_some() throws out of the handler.                        *)
PeerGone(c) ==
    /\ ~crashed
    /\ phase[c] \in {"accepted", "passed", "full"}
    /\ crashed' = TRUE
    /\ UNCHANGED <<phase, at, listed, signalled, listening, accepting, stop>>

(* Bug: the connection does not unregister. *)
LeaveListed(c) ==
    /\ ThreadFree
    /\ phase[c] = "serving"
    /\ Becomes(c, "closed")
    /\ UNCHANGED <<at, listed, signalled, listening, accepting, stop, crashed>>

(* A connection that is served closes and unregisters itself. *)
Leave(c) ==
    /\ ThreadFree
    /\ phase[c] = "serving"
    /\ Becomes(c, "closed")
    /\ listed' = [listed EXCEPT ![c] = FALSE]
    /\ UNCHANGED <<at, signalled, listening, accepting, stop, crashed>>

(* Bug: the loop over SSLacceptor_ is left out. *)
StopPlainOnly ==
    /\ ~crashed
    /\ \A a \in Sockets : stop[a] = "no"
    /\ stop' = [a \in Sockets \ Secure |-> "posted"]
    /\ UNCHANGED <<phase, at, listed, signalled, listening, accepting, crashed>>

(* server::stop(), from the main thread: every acceptor is told. *)
Stop ==
    /\ ~crashed
    /\ \A a \in Sockets : stop[a] = "no"
    /\ stop' = [a \in Sockets |-> "posted"]
    /\ UNCHANGED <<phase, at, listed, signalled, listening, accepting, crashed>>

(* Bug: acceptor_ is not closed. *)
HandleStopOpen(a) ==
    /\ ThreadFree /\ StrandFree(a)
    /\ stop[a] = "posted"
    /\ stop' = [stop EXCEPT ![a] = "done"]
    /\ signalled' = [c \in Conn |-> signalled[c] \/ c \in ConnList(a)]
    /\ listed' = [c \in Conn |-> listed[c] /\ at[c] # a]
    /\ UNCHANGED <<phase, at, listening, accepting, crashed>>

(* acceptor::handleStop(): close, then pop and signal every connection.    *)
(* An accept that has completed stays queued behind this handler.          *)
HandleStop(a) ==
    /\ ThreadFree /\ StrandFree(a)
    /\ stop[a] = "posted"
    /\ stop' = [stop EXCEPT ![a] = "done"]
    /\ listening' = [listening EXCEPT ![a] = FALSE]
    /\ accepting' = [accepting EXCEPT ![a] = FALSE]
    /\ signalled' = [c \in Conn |-> signalled[c] \/ c \in ConnList(a)]
    /\ listed' = [c \in Conn |-> listed[c] /\ at[c] # a]
    /\ UNCHANGED <<phase, at, crashed>>

Next ==
    \/ \E c \in Conn :
          \/ Connect(c) \/ HandleAccept(c) \/ HandleAcceptSSL(c)
          \/ HandleHandshake(c) \/ HandleHandshakeError(c)
          \/ Admit(c) \/ Refuse(c) \/ PeerGone(c) \/ Leave(c)
    \/ Stop
    \/ \E a \in Sockets : AcceptError(a) \/ HandleStop(a)

Spec == Init /\ [][Next]_vars

(* Handlers that are queued run.  A client may stay as long as it likes,   *)
(* unless it was signalled: Connection's ClientsLeave.  Nobody makes a     *)
(* handshake end.                                                          *)
FairSpec ==
    /\ Spec
    /\ \A c \in Conn :
          /\ WF_vars(HandleAccept(c)) /\ WF_vars(HandleAcceptSSL(c))
          /\ WF_vars(Admit(c) \/ Refuse(c))
          /\ SF_vars(signalled[c] /\ Leave(c))
    /\ \A a \in Sockets : SF_vars(HandleStop(a))

-------------------------------------------------------------------------------
(* Every variable has its type. *)
TypeOK ==
    /\ phase \in [Conn -> Phases]
    /\ at \in [Conn -> Sockets]
    /\ listed \in [Conn -> BOOLEAN] /\ signalled \in [Conn -> BOOLEAN]
    /\ listening \in [Sockets -> BOOLEAN] /\ accepting \in [Sockets -> BOOLEAN]
    /\ stop \in [Sockets -> {"no", "posted", "done"}]
    /\ crashed \in BOOLEAN

(* A plain socket never serves more than its own limit, because its        *)
(* acceptor's strand admits one connection at a time.                      *)
PlainSocketLimit ==
    \A a \in Sockets \ Secure :
        SocketMax[a] > 0 => Cardinality(ConnList(a)) <= SocketMax[a]

(* What smerp.conf promises of the server's maxConnections. *)
GlobalLimit == GlobalMax > 0 => Cardinality(AllListed) <= GlobalMax

(* The global limit is overshot by at most the threads that can be between *)
(* the test and the push; with one thread it is exact.                     *)
OvershootBounded ==
    GlobalMax > 0 => Cardinality(AllListed) <= GlobalMax + Threads - 1

(* A slot of the list is held by a connection that is served, and a served *)
(* connection holds one until handleStop takes it away and signals it: the *)
(* lists count exactly the clients, no slot leaks and none is given back   *)
(* twice.                                                                  *)
SlotsMatchClients ==
    \A c \in Conn :
        /\ listed[c] => phase[c] = "serving"
        /\ phase[c] = "serving" => listed[c] # signalled[c]

(* As long as the process lives, a plain acceptor that has stopped leaves  *)
(* no client unsignalled.                                                  *)
StopReachesPlain ==
    ~crashed => \A c \in Conn :
        stop[at[c]] = "done" /\ at[c] \notin Secure /\ phase[c] = "serving"
            => signalled[c]

(* acceptor::handleStop: "at this point no more connections are accepted": *)
(* no handler starts a connection of a stopped acceptor.                   *)
NoMoreAccepted ==
    [][\A c \in Conn :
          stop[at[c]] = "done" /\ phase[c] = "accepted"
              => phase'[c] \notin {"passed", "handshake"}]_vars

(* A stop that was posted is carried out, and every client it signals is   *)
(* gone in the end, unless an exception ends the process.                  *)
StopEnds ==
    \A a \in Sockets :
        stop[a] = "posted" ~>
            \/ crashed
            \/ /\ stop[a] = "done" /\ ~listening[a]
               /\ \A c \in Conn : at[c] = a /\ signalled[c] => phase[c] = "closed"

(* Admitted or refused, a client does not leave its acceptor deaf: it      *)
(* accepts again, unless it was closed or the process has crashed.         *)
AcceptsAgain ==
    \A c \in Conn :
        phase[c] = "accepted" ~>
            accepting[at[c]] \/ ~listening[at[c]] \/ crashed
===============================================================================
