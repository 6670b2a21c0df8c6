-------------------------------- MODULE QtClient --------------------------------
(***************************************************************************)
(* The Qt client's connection to the server: SMERPClient                   *)
(* (src/clients/qt/SMERPClient.cpp), told what to do by the lines a user   *)
(* enters in the DebugTerminal (src/clients/qt/DebugTerminal.cpp).  Slots  *)
(* run one at a time in the GUI thread.                                    *)
(*                                                                         *)
(* Qt's socket is external.  An error it reports about an established      *)
(* connection is followed by its disconnected() signal, and readyRead() is *)
(* emitted only when something new has arrived.                            *)
(*                                                                         *)
(* The server does what Session promises: it greets, sends every line back *)
(* in order, dismisses when it likes and says good-bye to a "quit".        *)
(*                                                                         *)
(* Left out: what is only reported to the user.                            *)
(***************************************************************************)
EXTENDS Naturals, SequencesExt

CONSTANTS
    Line,           \* lines that are sent
    Long,           \* those longer than what is read at one time
    MaxLines,       \* bound: lines entered in a run
    MaxConnects     \* bound: connections in a run

ASSUME ClientAssumption ==
    /\ Long \subseteq Line /\ "quit" \notin Line
    /\ MaxLines \in Nat /\ MaxConnects \in Nat

VARIABLES
    state,          \* SMERPClient::m_state
    secure,         \* whether m_socket was connected to be encrypted
    ssl,            \* m_initializedSsl and m_hasErrors
    socket,         \* what m_socket is doing
    toServer,       \* lines written and not yet read by the server
    server,         \* the server's end of the connection
    toClient,       \* pieces of lines the server sent, under way
    buffer,         \* pieces that have arrived and were not read
    cut,            \* a part of the next piece has arrived, too
    written,        \* lines written to the current connection
    shown,          \* pieces received from it, as shown to the user
    lines, connects \* how many there were

network == <<toServer, server, toClient, buffer, cut>>
bounds  == <<lines, connects>>
vars    == <<state, secure, ssl, socket, network, written, shown, bounds>>

(* What is read at one time of a line. *)
Pieces(line) ==
    IF line \in Long THEN <<[of |-> line, ends |-> FALSE], [of |-> line, ends |-> TRUE]>>
    ELSE <<[of |-> line, ends |-> TRUE]>>

Said(text) == [of |-> text, ends |-> TRUE]

(* m_initializedSsl is not initialised. *)
Init ==
    /\ state = "Disconnected" /\ socket = "unconnected" /\ server = "none"
    /\ secure = FALSE
    /\ ssl \in [initialized : BOOLEAN, loaded : {FALSE}, errors : {FALSE}]
    /\ toServer = <<>> /\ toClient = <<>> /\ buffer = <<>> /\ cut = FALSE
    /\ written = <<>> /\ shown = <<>>
    /\ lines = 0 /\ connects = 0

Established == socket \in {"handshake", "connected"}

(* Both ends forget the connection, and what was not read.                 *)
SocketClosed ==
    /\ socket' = "unconnected"
    /\ toServer' = <<>> /\ server' = "none"
    /\ toClient' = <<>> /\ buffer' = <<>> /\ cut' = FALSE

-------------------------------------------------------------------------------
(* The lines a user enters.  Others are dealt with in the terminal.        *)

(* initializeSsl() loads the certificates once. *)
InitializeSsl ==
    ssl' = IF ssl.initialized THEN ssl
           ELSE [ssl EXCEPT !.initialized = TRUE, !.loaded = TRUE]

(* "connect" and "sconnect"; a socket that is in use does not let itself   *)
(* be connected.  Each sets m_secure, and it is only read there. *)
EnterConnect(s) ==
    /\ connects < MaxConnects
    /\ connects' = connects + 1
    /\ IF state = "Disconnected"
       THEN /\ state' = "AboutToConnect"
            /\ IF s THEN InitializeSsl ELSE UNCHANGED ssl
            /\ IF socket = "unconnected"
               THEN /\ socket' = "connecting"
                    /\ secure' = s
                    /\ written' = <<>> /\ shown' = <<>>
               ELSE UNCHANGED <<socket, secure, written, shown>>
       ELSE UNCHANGED <<state, ssl, socket, secure, written, shown>>
    /\ UNCHANGED <<network, lines>>

(* write(): a socket that is not connected takes nothing; one that is      *)
(* about to be keeps it. *)
Send(line) ==
    IF socket = "unconnected"
    THEN UNCHANGED <<toServer, written>>
    ELSE /\ toServer' = Append(toServer, line)
         /\ written' = Append(written, line)

(* Bug: the server is not told. *)
EnterQuitSilently ==
    /\ ssl' = [ssl EXCEPT !.errors = FALSE]
    /\ CASE state = "Connected" ->
                state' = "AboutToDisconnect" /\ UNCHANGED <<toServer, written>>
         [] state = "AboutToDisconnect" ->
                state' = "Disconnected" /\ UNCHANGED <<toServer, written>>
         [] OTHER -> UNCHANGED <<state, toServer, written>>
    /\ UNCHANGED <<secure, socket, server, toClient, buffer, cut, shown, bounds>>

(* "quit": disconnect(). *)
EnterQuit ==
    /\ ssl' = [ssl EXCEPT !.errors = FALSE]
    /\ CASE state = "Connected" -> state' = "AboutToDisconnect" /\ Send("quit")
         [] state = "AboutToDisconnect" ->
                state' = "Disconnected" /\ UNCHANGED <<toServer, written>>
         [] OTHER -> UNCHANGED <<state, toServer, written>>
    /\ UNCHANGED <<secure, socket, server, toClient, buffer, cut, shown, bounds>>

(* sendLine(), in every state. *)
EnterLine(line) ==
    /\ lines < MaxLines
    /\ lines' = lines + 1
    /\ Send(line)
    /\ UNCHANGED <<state, secure, ssl, socket, server, toClient, buffer, cut,
                   shown, connects>>

-------------------------------------------------------------------------------
(* Qt's signals.                                                           *)

(* connected().  The server accepts, or drops what is too much for it. *)
Connected ==
    /\ socket = "connecting"
    /\ socket' = IF secure THEN "handshake" ELSE "connected"
    /\ state' = IF state = "AboutToConnect" THEN "Connected" ELSE state
    /\ \/ server' = "serving" /\ toClient' = <<Said("welcome")>>
       \/ server' = "closed" /\ toClient' = <<>>
    /\ UNCHANGED <<secure, ssl, toServer, buffer, cut, written, shown, bounds>>

(* encrypted(), after errors that sslErrors() or peerVerifyError() ignore. *)
Encrypted ==
    /\ socket = "handshake"
    /\ socket' = "connected"
    /\ \E e \in BOOLEAN : ssl' = [ssl EXCEPT !.errors = @ \/ e]
    /\ UNCHANGED <<state, secure, network, written, shown, bounds>>

(* error() of anything but the server's closing, and the disconnected()    *)
(* that follows it.  A client that is connected stays so. *)
Breaks ==
    /\ socket # "unconnected"
    /\ state' = IF state = "Connected" THEN state ELSE "Disconnected"
    /\ SocketClosed
    /\ UNCHANGED <<secure, ssl, written, shown, bounds>>

(* error( RemoteHostClosedError), whatever the state. *)
RemoteHostClosed ==
    /\ Established /\ server = "closed" /\ toClient = <<>> /\ ~cut
    /\ state' = "Disconnected"
    /\ SocketClosed
    /\ UNCHANGED <<secure, ssl, written, shown, bounds>>

CanReadLine(arrived) == \E i \in DOMAIN arrived : arrived[i].ends

(* Bug: what has arrived is taken for a line. *)
ShowAnything(arrived, part) ==
    IF state \in {"Connected", "AboutToDisconnect"} /\ (arrived # <<>> \/ part)
    THEN IF arrived = <<>>
         THEN shown' = Append(shown, Said("part")) /\ buffer' = arrived
         ELSE shown' = Append(shown, Head(arrived)) /\ buffer' = Tail(arrived)
    ELSE buffer' = arrived /\ UNCHANGED shown

(* dataAvailable(): one line, or as much of it as is read at one time; a   *)
(* part of a line has to wait.                                             *)
Show(arrived, part) ==
    IF state \in {"Connected", "AboutToDisconnect"} /\ CanReadLine(arrived)
    THEN shown' = Append(shown, Head(arrived)) /\ buffer' = Tail(arrived)
    ELSE buffer' = arrived /\ UNCHANGED shown

(* readyRead(): n more pieces have arrived, and perhaps a part of the next.*)
ReadyRead ==
    /\ socket = "connected" /\ toClient # <<>>
    /\ \E n \in 0 .. Len(toClient), part \in BOOLEAN :
          /\ n > 0 \/ (part /\ ~cut)
          /\ part => n < Len(toClient)
          /\ cut' = part
          /\ toClient' = SubSeq(toClient, n + 1, Len(toClient))
          /\ Show(buffer \o SubSeq(toClient, 1, n), part)
    /\ UNCHANGED <<state, secure, ssl, socket, toServer, server, written, bounds>>

-------------------------------------------------------------------------------
(* The server: the greeting is sent by Connected.                          *)
Serve ==
    /\ socket = "connected" /\ server = "serving" /\ toServer # <<>>
    /\ toServer' = Tail(toServer)
    /\ IF Head(toServer) = "quit"
       THEN server' = "closed" /\ toClient' = Append(toClient, Said("thanks"))
       ELSE UNCHANGED server /\ toClient' = toClient \o Pieces(Head(toServer))
    /\ UNCHANGED <<state, secure, ssl, socket, buffer, cut, written, shown, bounds>>

(* A timeout, a line too long or a shutdown. *)
Dismiss ==
    /\ socket = "connected" /\ server = "serving"
    /\ server' = "closed"
    /\ toClient' = Append(toClient, Said("good-bye"))
    /\ UNCHANGED <<state, secure, ssl, socket, toServer, buffer, cut, written,
                   shown, bounds>>

Next ==
    \/ \E s \in BOOLEAN : EnterConnect(s)
    \/ EnterQuit
    \/ \E line \in Line : EnterLine(line)
    \/ Connected \/ Encrypted \/ Breaks \/ RemoteHostClosed \/ ReadyRead
    \/ Serve \/ Dismiss

Spec == Init /\ [][Next]_vars

(* An attempt to connect and a handshake end, what is sent arrives, and    *)
(* the server serves.                                                      *)
FairSpec ==
    /\ Spec
    /\ WF_vars(Connected \/ Encrypted \/ ReadyRead \/ RemoteHostClosed)
    /\ WF_vars(Serve)

-------------------------------------------------------------------------------
(* Every variable has its type.                                            *)
TypeOK ==
    /\ state \in {"Disconnected", "AboutToConnect", "Connected", "AboutToDisconnect"}
    /\ secure \in BOOLEAN
    /\ ssl \in [initialized : BOOLEAN, loaded : BOOLEAN, errors : BOOLEAN]
    /\ socket \in {"unconnected", "connecting", "handshake", "connected"}
    /\ server \in {"none", "serving", "closed"}
    /\ cut \in BOOLEAN
    /\ toServer \in Seq(Line \cup {"quit"}) /\ written \in Seq(Line \cup {"quit"})
    /\ lines \in Nat /\ connects \in Nat

Farewell == {Said("thanks"), Said("good-bye")}

Answers == FlattenSeq([i \in DOMAIN written |-> Pieces(written[i])])

(* What the user sees of a connection is the greeting, then the lines      *)
(* entered for this connection, whole and in order, and at most one        *)
(* farewell: nothing of an earlier connection and no torn line, although   *)
(* one line is read per readyRead() and the rest is left in the socket.    *)
AnswersInOrder ==
    \E k \in 0 .. Len(shown) :
        /\ IsPrefix(SubSeq(shown, 1, k), <<Said("welcome")>> \o Answers)
        /\ Len(shown) \in {k, k + 1}
        /\ Len(shown) = k + 1 => shown[k + 1] \in Farewell

(* As long as its socket works the client does not remain between two      *)
(* states: it gets connected or disconnected, even when the user repeats   *)
(* "quit" and connects again while the old connection is still open.       *)
TransitionsEnd ==
    /\ state = "AboutToConnect" ~> state # "AboutToConnect"
    /\ state = "AboutToDisconnect" /\ Established ~> state # "AboutToDisconnect"
===============================================================================
