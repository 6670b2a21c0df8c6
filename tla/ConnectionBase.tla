---------------------------- MODULE ConnectionBase ----------------------------
(***************************************************************************)
(* The network side of one accepted connection: the template               *)
(* connectionBase<socketType> (src/src/connectionBase.hpp), which owns the *)
(* socket, the deadline timer and the asynchronous operations in flight.   *)
(*                                                                         *)
(* boost::asio is modelled by how connectionBase uses it.  An operation    *)
(* that was started is pending until the strand runs its handler, in any   *)
(* order with the other pending handlers.  Cancelling the timer cannot     *)
(* recall a wait that has already expired: its handler is queued on the    *)
(* strand and runs later as a "late" timeout.                              *)
(*                                                                         *)
(* The three cases of connectionBase::nextOperation() are the actions      *)
(* Read, Write and Close.  Their argument n is the network state the       *)
(* running handler has produced so far; they complete the step by giving   *)
(* base its next value.                                                    *)
(***************************************************************************)
EXTENDS Integers, Sequences

CONSTANTS
    ReadBufSize,    \* smerpConnection::ReadBufSize
    MaxLate         \* bound: timer handlers queued on the strand at one time

ASSUME BaseAssumption == ReadBufSize \in Nat \ {0} /\ MaxLate \in Nat

VARIABLE base

(* What the server says, named instead of spelled out. *)
Message == {"welcome", "line", "thanks", "toolong", "timeout", "shutdown"}

(* The messages after which the handler closes the connection. *)
Farewell == Message \ {"welcome", "line"}

BaseType ==
    [socket  : {"open", "closed"},
     listed  : BOOLEAN,                  \* in the acceptor's connection list
     reads   : Nat,                      \* async_read_some operations pending
     readAt  : 0..ReadBufSize,           \* offset of the last read's target
     readLen : 0..ReadBufSize,           \* and its size
     writes  : [Message -> Nat],         \* async_write operations pending
     armed   : BOOLEAN,                  \* the timer is running
     late    : 0..MaxLate,               \* expired waits not yet handled
     signal  : BOOLEAN]                  \* handleSignal is queued

NoWrites    == [m \in Message |-> 0]
OneWrite(w) == [m \in Message |-> IF m = w THEN 1 ELSE 0]

(* A connection as the acceptor constructs it, its socket just accepted. *)
Accepted ==
    [socket |-> "open", listed |-> FALSE, reads |-> 0, readAt |-> 0,
     readLen |-> 0, writes |-> NoWrites, armed |-> FALSE,
     late |-> 0, signal |-> FALSE]

Busy(n) == n.reads > 0 \/ \E m \in Message : n.writes[m] > 0

(* Nothing will ever call into this connection again. *)
Quiet(n) == ~Busy(n) /\ ~n.armed /\ n.late = 0 /\ ~n.signal

(* setTimeout(0): timer_.cancel() stops a running wait, or comes too late. *)
Cancelled(n) ==
    {[n EXCEPT !.armed = FALSE]}
        \cup IF n.armed /\ n.late < MaxLate
             THEN {[n EXCEPT !.armed = FALSE, !.late = @ + 1]}
             ELSE {}

(* Bug: the READ case forgets setTimeout( netOp.timeout()). *)
ReadUntimed(n, at, len) ==
    base' = [n EXCEPT !.reads = @ + 1, !.readAt = at, !.readLen = len]

(* NetworkOperation::READ, always with the idle timeout. *)
Read(n, at, len) ==
    \E c \in Cancelled(n) :
        base' = [c EXCEPT !.armed = TRUE, !.reads = @ + 1,
                          !.readAt = at, !.readLen = len]

(* NetworkOperation::WRITE, always without a timeout. *)
Write(n, m) == base' = [n EXCEPT !.writes[m] = @ + 1]

(* Bug: the CLOSE case forgets unregister(). *)
CloseListed(n) ==
    \E c \in Cancelled(n) : base' = [c EXCEPT !.socket = "closed"]

(* NetworkOperation::CLOSE: cancel the timer, shut the socket, unregister. *)
Close(n) ==
    \E c \in Cancelled(n) :
        base' = [c EXCEPT !.socket = "closed", !.listed = FALSE]

(* The network state once the handler of a read, of a write, of an expired *)
(* wait or of a signal has been taken off the strand.                      *)
ReadDone(n)     == [n EXCEPT !.reads = @ - 1]
WriteDone(n, m) == [n EXCEPT !.writes[m] = @ - 1]
Expired(n)      == [n EXCEPT !.armed = FALSE]
LateExpired(n)  == [n EXCEPT !.late = @ - 1]
SignalTaken(n)  == [n EXCEPT !.signal = FALSE]

(* The acceptor's handleStop pops the connection and dispatches            *)
(* handleSignal on its strand.                                             *)
Signal ==
    /\ base.listed
    /\ base' = [base EXCEPT !.listed = FALSE, !.signal = TRUE]
===============================================================================
