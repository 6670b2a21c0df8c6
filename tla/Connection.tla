------------------------------ MODULE Connection ------------------------------
(***************************************************************************)
(* One client connection: the smerpConnection handler                      *)
(* (src/src/smerpHandler.cpp) driven by connectionBase.  The strand runs   *)
(* one handler at a time; each action below is one such handler, from the  *)
(* callback into smerpConnection to the operation nextOperation() starts.  *)
(*                                                                         *)
(* The echo example's handler (src/examples/echo/echoHandler.cpp) is the   *)
(* same state machine.                                                     *)
(***************************************************************************)
EXTENDS ConnectionBase

CONSTANTS
    Byte,           \* the bytes a client may send
    NL,             \* the newline
    Quit,           \* the command "quit", a sequence of bytes
    MaxReceived     \* bound: bytes one client sends

ASSUME HandlerAssumption ==
    /\ NL \in Byte
    /\ Quit \in Seq(Byte) /\ Quit # <<>>
    /\ MaxReceived \in Nat

VARIABLES
    handler,        \* the fields of smerpConnection
    received,       \* every byte handed to networkInput, in order
    echoed          \* every byte of every line written back, in order

vars == <<base, handler, received, echoed>>

State == {"NEW", "HELLO_SENT", "READ_INPUT", "OUTPUT_MSG",
          "TIMEOUT", "SIGNALLED", "TERMINATE", "FINISHED"}

Serving == {"HELLO_SENT", "READ_INPUT", "OUTPUT_MSG"}

Offset == 0 .. ReadBufSize - 1

HandlerType ==
    [state : State, readBuf : [Offset -> Byte],
     dataStart : 0..ReadBufSize, dataSize : 0..ReadBufSize]

(* readBuf_ is not initialised: it may hold anything. *)
Init ==
    /\ base = Accepted
    /\ handler \in [state : {"NEW"}, readBuf : [Offset -> Byte],
                    dataStart : {0}, dataSize : {0}]
    /\ received = <<>>
    /\ echoed = <<>>

-------------------------------------------------------------------------------
(* smerpConnection::nextOperation()                                        *)

(* strncmp( "quit", dataStart_, 4 ) looks at the buffer whatever dataSize_ *)
(* says, and past its end when dataStart_ is close to it: what is found    *)
(* there is any byte.                                                      *)
MayMatchQuit(h) ==
    \A k \in DOMAIN Quit : h.dataStart + k <= ReadBufSize
                           => h.readBuf[h.dataStart + k - 1] = Quit[k]

MayDifferFromQuit(h) ==
    MayMatchQuit(h) => h.dataStart + Len(Quit) > ReadBufSize

(* Bug: the scan for a newline stops one byte early. *)
LineEndsShort(h) ==
    {k \in 1 .. h.dataSize - 1 : h.readBuf[h.dataStart + k - 1] = NL}

(* The lengths of the unread prefixes that end in a newline. *)
LineEnds(h) == {k \in 1 .. h.dataSize : h.readBuf[h.dataStart + k - 1] = NL}

(* Bug: the scan runs from the end of the data. *)
LastLine(h) == CHOOSE k \in LineEnds(h) : \A j \in LineEnds(h) : k >= j

FirstLine(h) == CHOOSE k \in LineEnds(h) : \A j \in LineEnds(h) : k <= j

Unread(h, len) == [k \in 1..len |-> h.readBuf[h.dataStart + k - 1]]

(* Bug: nothing is written, it is left to the client to go away. *)
SayFarewellSilently(h, n, m) ==
    /\ handler' = [h EXCEPT !.state = "TERMINATE"]
    /\ base' = n
    /\ UNCHANGED echoed

SayFarewell(h, n, m) ==
    /\ handler' = [h EXCEPT !.state = "TERMINATE"]
    /\ Write(n, m)
    /\ UNCHANGED echoed

(* Bug: the newline is skipped twice. *)
EchoLineSkipping(h, n) ==
    LET len == FirstLine(h) IN
    /\ handler' = [h EXCEPT !.state = "OUTPUT_MSG",
                            !.dataStart = @ + len + 1, !.dataSize = @ - len]
    /\ Write(n, "line")
    /\ echoed' = echoed \o Unread(h, len)

EchoLine(h, n) ==
    LET len == FirstLine(h) IN
    /\ handler' = [h EXCEPT !.state = "OUTPUT_MSG",
                            !.dataStart = @ + len, !.dataSize = @ - len]
    /\ Write(n, "line")
    /\ echoed' = echoed \o Unread(h, len)

(* Bug: the memmove() is missing. *)
ReadMoreUnmoved(h, n) ==
    /\ handler' = [h EXCEPT !.state = "READ_INPUT"]
    /\ Read(n, h.dataSize, ReadBufSize - h.dataSize)
    /\ UNCHANGED echoed

(* memmove( readBuf_, dataStart_, dataSize_ ), then read behind it. *)
ReadMore(h, n) ==
    /\ handler' = [h EXCEPT
            !.state = "READ_INPUT",
            !.readBuf = [i \in Offset |-> IF i < h.dataSize
                                          THEN h.readBuf[h.dataStart + i]
                                          ELSE h.readBuf[i]]]
    /\ Read(n, h.dataSize, ReadBufSize - h.dataSize)
    /\ UNCHANGED echoed

(* Bug: dataSize_ > ReadBufSize instead of >=. *)
ProcessOffByOne(h, n) ==
    \/ MayMatchQuit(h) /\ SayFarewell(h, n, "thanks")
    \/ /\ MayDifferFromQuit(h)
       /\ \/ LineEnds(h) # {} /\ EchoLine(h, n)
          \/ LineEnds(h) = {} /\ ReadMore(h, n)

(* The READ_INPUT and OUTPUT_MSG cases. *)
Process(h, n) ==
    \/ MayMatchQuit(h) /\ SayFarewell(h, n, "thanks")
    \/ /\ MayDifferFromQuit(h)
       /\ \/ LineEnds(h) # {} /\ EchoLine(h, n)
          \/ /\ LineEnds(h) = {} /\ h.dataSize >= ReadBufSize
             /\ SayFarewell(h, n, "toolong")
          \/ /\ LineEnds(h) = {} /\ h.dataSize < ReadBufSize
             /\ ReadMore(h, n)

Finish(h, n) ==
    /\ handler' = [h EXCEPT !.state = "FINISHED"]
    /\ Close(n)
    /\ UNCHANGED echoed

(* h and n are the handler and the network as the callback left them. *)
NextOperation(h, n) ==
    \/ /\ h.state = "NEW"
       /\ handler' = [h EXCEPT !.state = "HELLO_SENT"]
       /\ Write(n, "welcome")
       /\ UNCHANGED echoed
    \/ /\ h.state = "HELLO_SENT"
       /\ handler' = [h EXCEPT !.state = "READ_INPUT"]
       /\ Read(n, 0, ReadBufSize)
       /\ UNCHANGED echoed
    \/ h.state = "READ_INPUT" /\ Process([h EXCEPT !.dataStart = 0], n)
    \/ h.state = "OUTPUT_MSG" /\ Process(h, n)
    \/ h.state = "TIMEOUT"    /\ SayFarewell(h, n, "timeout")
    \/ h.state = "SIGNALLED"  /\ SayFarewell(h, n, "shutdown")
    \/ h.state \in {"TERMINATE", "FINISHED"} /\ Finish(h, n)

-------------------------------------------------------------------------------
(* The callbacks of connectionHandler.                                     *)

(* Bug: fresh input puts the state machine back to READ_INPUT. *)
NetworkInputResumes(h, data) ==
    [h EXCEPT !.state = "READ_INPUT", !.dataSize = 0]

(* The kernel has put data behind readAt; networkInput() counts it. *)
NetworkInput(h, data) ==
    [h EXCEPT
        !.dataSize = @ + Len(data),
        !.readBuf = [i \in Offset |->
                        IF i \in base.readAt .. base.readAt + Len(data) - 1
                        THEN data[i - base.readAt + 1]
                        ELSE h.readBuf[i]]]

(* Bug: a callback of connectionHandler is not overridden. *)
CallbackMissing(h) == h

TimeoutOccured(h) == [h EXCEPT !.state = "TIMEOUT"]
SignalOccured(h)  == [h EXCEPT !.state = "SIGNALLED"]
ErrorOccured(h)   == [h EXCEPT !.state = "TERMINATE"]

-------------------------------------------------------------------------------
(* connection::start(): admitted and greeted, or refused because the list  *)
(* is full.  A refused connection is dropped with its last reference.      *)
Start(full) ==
    /\ handler.state = "NEW" /\ base.socket = "open"
    /\ IF full
       THEN /\ base' = [base EXCEPT !.socket = "closed"]
            /\ UNCHANGED <<handler, echoed>>
       ELSE NextOperation(handler, [base EXCEPT !.listed = TRUE])
    /\ UNCHANGED received

(* handleRead() with data.  A read that completed before the socket was    *)
(* closed may be handled after it.                                         *)
HandleRead ==
    /\ base.reads > 0
    /\ \E len \in 1 .. base.readLen :
       \E data \in [1..len -> Byte], n \in Cancelled(ReadDone(base)) :
          /\ Len(received) + len <= MaxReceived
          /\ received' = received \o data
          /\ NextOperation(NetworkInput(handler, data), n)

(* handleRead() with an error: end of file, reset, or cancelled. *)
HandleReadError ==
    /\ base.reads > 0
    /\ \E n \in Cancelled(ReadDone(base)) : NextOperation(ErrorOccured(handler), n)
    /\ UNCHANGED received

(* handleWrite() of a message that was sent. *)
HandleWrite(m) ==
    /\ base.writes[m] > 0
    /\ \E n \in Cancelled(WriteDone(base, m)) : NextOperation(handler, n)
    /\ UNCHANGED received

(* handleWrite() with an error. *)
HandleWriteError(m) ==
    /\ base.writes[m] > 0
    /\ \E n \in Cancelled(WriteDone(base, m)) : NextOperation(ErrorOccured(handler), n)
    /\ UNCHANGED received

(* handleTimeout() of a wait that expired; a cancelled one does nothing. *)
HandleTimeout ==
    /\ base.armed
    /\ NextOperation(TimeoutOccured(handler), Expired(base))
    /\ UNCHANGED received

(* handleTimeout() of a wait that was cancelled after it had expired. *)
HandleLateTimeout ==
    /\ base.late > 0
    /\ NextOperation(TimeoutOccured(handler), LateExpired(base))
    /\ UNCHANGED received

HandleSignal ==
    /\ base.signal
    /\ NextOperation(SignalOccured(handler), SignalTaken(base))
    /\ UNCHANGED received

(* The acceptor is stopped. *)
Stopped == Signal /\ UNCHANGED <<handler, received, echoed>>

Next ==
    \/ \E full \in BOOLEAN : Start(full)
    \/ HandleRead
    \/ HandleReadError
    \/ \E m \in Message : HandleWrite(m) \/ HandleWriteError(m)
    \/ HandleTimeout
    \/ HandleLateTimeout
    \/ HandleSignal
    \/ Stopped

Spec == Init /\ [][Next]_vars

(* The client reads what it is sent or goes away, so a write ends; closing *)
(* the socket aborts what is pending; a signal that was dispatched runs.   *)
Progress ==
    /\ \A m \in Message : WF_vars(HandleWrite(m) \/ HandleWriteError(m))
    /\ WF_vars(base.socket = "closed" /\ HandleReadError)
    /\ WF_vars(HandleSignal)

FairSpec == Spec /\ Progress

(* Time passes: a timer that runs expires, an expired wait is handled. *)
TimersExpire == WF_vars(HandleTimeout) /\ WF_vars(HandleLateTimeout)

-------------------------------------------------------------------------------
(* Every variable has its type. *)
TypeOK ==
    /\ handler \in HandlerType
    /\ base \in BaseType
    /\ received \in Seq(Byte)
    /\ echoed \in Seq(Byte)

(* A pending read writes exactly the free part of readBuf_, behind the     *)
(* unread data, and that part is not empty: the kernel never overruns the  *)
(* buffer or overwrites what is unread, and the abort() on a read of 0     *)
(* bytes in nextOperation() is unreachable.  At most one read is pending.  *)
ReadFits ==
    base.reads > 0 =>
        /\ base.reads = 1
        /\ base.readAt = handler.dataSize
        /\ base.readLen = ReadBufSize - handler.dataSize
        /\ base.readLen > 0

(* While a client is served its socket is open and exactly one operation   *)
(* is pending, the one its state waits for: outMsg_ is never rewritten     *)
(* under a write and no two messages mix on the wire.  (A timeout or a     *)
(* signal ends this regime.)                                               *)
HalfDuplex ==
    /\ handler.state \in Serving => base.socket = "open"
    /\ handler.state = "HELLO_SENT" =>
          base.reads = 0 /\ base.writes = OneWrite("welcome")
    /\ handler.state = "READ_INPUT" =>
          base.reads = 1 /\ base.writes = NoWrites
    /\ handler.state = "OUTPUT_MSG" =>
          base.reads = 0 /\ base.writes = OneWrite("line")

(* A connection is never left with nobody to call it: as long as it is not *)
(* finished a read or a write is pending, and once nothing is pending it   *)
(* is closed and out of the acceptor's list.                               *)
NoOrphan ==
    ~Busy(base) =>
        \/ handler.state = "NEW"
        \/ /\ handler.state = "FINISHED"
           /\ base.socket = "closed" /\ ~base.listed

Window == IF handler.state = "OUTPUT_MSG" THEN handler.dataStart ELSE 0

(* What was written back is a prefix of what was received, and while a     *)
(* client is served the unread window of readBuf_ holds exactly the rest:  *)
(* memmove, dataStart_ and dataSize_ lose, repeat and reorder nothing.     *)
EchoFaithful ==
    /\ Len(echoed) <= Len(received)
    /\ \A i \in 1 .. Len(echoed) : echoed[i] = received[i]
    /\ handler.state \in Serving =>
         /\ Len(received) = Len(echoed) + handler.dataSize
         /\ Window + handler.dataSize <= ReadBufSize
         /\ \A i \in 0 .. handler.dataSize - 1 :
               handler.readBuf[Window + i] = received[Len(echoed) + i + 1]

(* The server never waits for more input while it holds a complete line or *)
(* a whole "quit" command that it has not answered.                        *)
NothingUnanswered ==
    handler.state = "READ_INPUT" =>
        LET rest == SubSeq(received, Len(echoed) + 1, Len(received)) IN
        /\ \A i \in DOMAIN rest : rest[i] # NL
        /\ Len(rest) < Len(Quit) \/ \E k \in DOMAIN Quit : rest[k] # Quit[k]

(* After a timeout, a signal, an error or a farewell the connection starts *)
(* no read, echoes no line and never serves again, whatever handlers are   *)
(* still queued on the strand.                                             *)
NoServiceAfterLeaving ==
    [][handler.state \in {"TERMINATE", "FINISHED"} =>
          /\ handler'.state \in {"TERMINATE", "FINISHED"}
          /\ base'.reads <= base.reads
          /\ echoed' = echoed]_vars

Gone == base.socket = "closed" /\ ~base.listed /\ Quiet(base)

(* As time passes a client that stops sending is disconnected, and the     *)
(* connection is then dropped: no handler of it is pending.  A signalled   *)
(* connection closes without any timer having to expire.                   *)
ClientsLeave ==
    /\ TimersExpire => (handler.state # "NEW" ~> Gone)
    /\ base.signal ~> base.socket = "closed"

-------------------------------------------------------------------------------
Phase ==
    IF base.socket = "closed" THEN "closed"
    ELSE IF handler.state = "NEW" THEN "new"
    ELSE IF handler.state \in Serving THEN "serving" ELSE "leaving"

Promise == INSTANCE Session WITH phase <- Phase

(* The connection implements the session a client is promised. *)
ImplementsSession == Promise!Spec

(* Session's liveness, under the fairness of the connection. *)
SessionEnds == Promise!Ends
===============================================================================
