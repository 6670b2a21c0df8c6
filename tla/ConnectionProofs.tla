--------------------------- MODULE ConnectionProofs ---------------------------
(***************************************************************************)
(* Proofs about one connection, for every buffer size, every alphabet and  *)
(* every number of bytes and late timers.                                  *)
(*                                                                         *)
(* The strengthening that makes the invariants inductive relates the state *)
(* of the handler to the operations in flight.  nextOperation() is entered *)
(* with a handler h and a network n that the callback has just changed;    *)
(* Ready(h, n) says what every handler on the strand guarantees there, and *)
(* the lemma NextOperationKeeps says what nextOperation() makes of it.     *)
(*                                                                         *)
(* DataInv adds that the unread window holds what was received and not yet *)
(* echoed.  With it every handler is shown to enter nextOperation() in one *)
(* way (Entered), and the proofs about single steps, the refinement of     *)
(* Session among them, are about Entered instead of each handler.          *)
(***************************************************************************)
EXTENDS Connection, WellFoundedInduction, TLAPS

(* The unread window lies in readBuf_; before the first read it is empty. *)
WindowFits(h) ==
    /\ h.state = "OUTPUT_MSG" => h.dataStart + h.dataSize <= ReadBufSize
    /\ h.state \in {"NEW", "HELLO_SENT"} => h.dataSize = 0

ReadFitsIn(h, n) ==
    n.reads > 0 => /\ n.reads = 1
                   /\ n.readAt = h.dataSize
                   /\ n.readLen = ReadBufSize - h.dataSize
                   /\ n.readLen > 0

HalfDuplexIn(h, n) ==
    /\ h.state \in Serving => n.socket = "open"
    /\ h.state = "HELLO_SENT" => n.reads = 0 /\ n.writes = OneWrite("welcome")
    /\ h.state = "READ_INPUT" => n.reads = 1 /\ n.writes = NoWrites
    /\ h.state = "OUTPUT_MSG" => n.reads = 0 /\ n.writes = OneWrite("line")

(* What nextOperation() leaves behind. *)
Kept(h, n) ==
    /\ h \in HandlerType
    /\ n \in BaseType
    /\ WindowFits(h)
    /\ ReadFitsIn(h, n)
    /\ HalfDuplexIn(h, n)

(* A handler that still serves is entered with no operation in flight. *)
Ready(h, n) ==
    /\ h \in HandlerType
    /\ n \in BaseType
    /\ WindowFits(h)
    /\ ReadFitsIn(h, n)
    /\ h.state \in Serving \cup {"NEW"} =>
          n.reads = 0 /\ n.writes = NoWrites /\ n.socket = "open"

(* Before start() nothing is in flight. *)
Untouched ==
    handler.state = "NEW" =>
        /\ base.reads = 0 /\ base.writes = NoWrites
        /\ ~base.armed /\ base.late = 0 /\ ~base.listed /\ ~base.signal

ControlInv == Kept(handler, base) /\ Untouched

-------------------------------------------------------------------------------
(* What the cases of connectionBase::nextOperation() keep and change.      *)

(* setTimeout(0) touches the timer alone. *)
LEMMA CancelledKeeps ==
    ASSUME NEW n \in BaseType, NEW c \in Cancelled(n)
    PROVE  /\ c \in BaseType
           /\ ~c.armed
           /\ c.reads = n.reads /\ c.readAt = n.readAt /\ c.readLen = n.readLen
           /\ c.writes = n.writes /\ c.socket = n.socket
           /\ c.listed = n.listed /\ c.signal = n.signal
  <1>1. CASE c = [n EXCEPT !.armed = FALSE]
    BY <1>1 DEF BaseType
  <1>2. CASE n.late < MaxLate /\ c = [n EXCEPT !.armed = FALSE, !.late = n.late + 1]
    <2>1. n.late + 1 \in 0..MaxLate
      BY <1>2, BaseAssumption DEF BaseType
    <2>. QED
      BY <1>2, <2>1 DEF BaseType
  <1>. QED
    BY <1>1, <1>2 DEF Cancelled

(* The WRITE case adds one write. *)
LEMMA WriteKeeps ==
    ASSUME NEW n \in BaseType, NEW w \in Message, Write(n, w)
    PROVE  /\ base' \in BaseType
           /\ base'.reads = n.reads /\ base'.readAt = n.readAt
           /\ base'.readLen = n.readLen /\ base'.socket = n.socket
           /\ base'.writes = [n.writes EXCEPT ![w] = @ + 1]
           /\ n.writes = NoWrites => base'.writes = OneWrite(w)
  <1>1. n.writes \in [Message -> Nat] /\ n.writes[w] + 1 \in Nat
    BY DEF BaseType
  <1>2. [n.writes EXCEPT ![w] = @ + 1] \in [Message -> Nat]
    BY <1>1
  <1>3. base' = [n EXCEPT !.writes = [n.writes EXCEPT ![w] = @ + 1]]
    BY DEF Write, BaseType
  <1>4. base' \in BaseType
    BY <1>2, <1>3 DEF BaseType
  <1>5. n.writes = NoWrites => [n.writes EXCEPT ![w] = @ + 1] = OneWrite(w)
    BY DEF NoWrites, OneWrite
  <1>. QED
    BY <1>3, <1>4, <1>5 DEF BaseType

(* The READ case adds one read and arms the timer. *)
LEMMA ReadKeeps ==
    ASSUME NEW n \in BaseType, NEW at \in 0..ReadBufSize,
           NEW len \in 0..ReadBufSize, Read(n, at, len)
    PROVE  /\ base' \in BaseType
           /\ base'.reads = n.reads + 1 /\ base'.readAt = at
           /\ base'.readLen = len /\ base'.socket = n.socket
           /\ base'.writes = n.writes /\ base'.armed
  <1>1. PICK c \in Cancelled(n) :
            base' = [c EXCEPT !.armed = TRUE, !.reads = @ + 1,
                              !.readAt = at, !.readLen = len]
    BY DEF Read
  <1>2. c \in BaseType /\ c.reads = n.reads /\ c.socket = n.socket
        /\ c.writes = n.writes
    BY CancelledKeeps
  <1>3. c.reads + 1 \in Nat
    BY <1>2 DEF BaseType
  <1>4. base' = [c EXCEPT !.armed = TRUE, !.reads = c.reads + 1,
                          !.readAt = at, !.readLen = len]
    BY <1>1
  <1>. QED
    BY <1>2, <1>3, <1>4 DEF BaseType

(* The CLOSE case shuts the socket and leaves what is pending alone. *)
LEMMA CloseKeeps ==
    ASSUME NEW n \in BaseType, Close(n)
    PROVE  /\ base' \in BaseType
           /\ base'.reads = n.reads /\ base'.readAt = n.readAt
           /\ base'.readLen = n.readLen /\ base'.writes = n.writes
           /\ base'.socket = "closed" /\ ~base'.listed
  <1>1. PICK c \in Cancelled(n) :
            base' = [c EXCEPT !.socket = "closed", !.listed = FALSE]
    BY DEF Close
  <1>2. c \in BaseType /\ c.reads = n.reads /\ c.readAt = n.readAt
        /\ c.readLen = n.readLen /\ c.writes = n.writes
    BY CancelledKeeps
  <1>. QED
    BY <1>1, <1>2 DEF BaseType

(* What was started keeps the connection busy.                             *)
LEMMA WriteIsBusy ==
    ASSUME NEW n \in BaseType, NEW w \in Message, Write(n, w)
    PROVE  Busy(base)'
  <1>1. n.writes \in [Message -> Nat] /\ n.writes[w] + 1 > 0
    BY DEF BaseType
  <1>2. base'.writes = [n.writes EXCEPT ![w] = @ + 1]
    BY WriteKeeps
  <1>3. base'.writes[w] > 0
    BY <1>1, <1>2
  <1>. QED
    BY <1>3 DEF Busy

LEMMA ReadIsBusy ==
    ASSUME NEW n \in BaseType, NEW at \in 0..ReadBufSize,
           NEW len \in 0..ReadBufSize, Read(n, at, len)
    PROVE  Busy(base)'
  <1>1. base'.reads = n.reads + 1
    BY ReadKeeps
  <1>2. n.reads + 1 > 0
    BY DEF BaseType
  <1>. QED
    BY <1>1, <1>2 DEF Busy

-------------------------------------------------------------------------------
LEMMA FarewellKeeps ==
    ASSUME NEW h \in HandlerType, NEW n \in BaseType, NEW m \in Message,
           ReadFitsIn(h, n), SayFarewell(h, n, m)
    PROVE  Kept(handler', base') /\ handler'.state = "TERMINATE"
  <1>1. /\ handler' \in HandlerType /\ handler'.state = "TERMINATE"
        /\ handler'.dataSize = h.dataSize
    BY DEF SayFarewell, HandlerType, State
  <1>2. /\ base' \in BaseType /\ base'.reads = n.reads
        /\ base'.readAt = n.readAt /\ base'.readLen = n.readLen
    BY WriteKeeps DEF SayFarewell
  <1>. QED
    BY <1>1, <1>2 DEF Kept, WindowFits, ReadFitsIn, HalfDuplexIn, Serving

LEMMA FinishKeeps ==
    ASSUME NEW h \in HandlerType, NEW n \in BaseType,
           ReadFitsIn(h, n), Finish(h, n)
    PROVE  Kept(handler', base') /\ handler'.state = "FINISHED"
  <1>1. /\ handler' \in HandlerType /\ handler'.state = "FINISHED"
        /\ handler'.dataSize = h.dataSize
    BY DEF Finish, HandlerType, State
  <1>2. /\ base' \in BaseType /\ base'.reads = n.reads
        /\ base'.readAt = n.readAt /\ base'.readLen = n.readLen
    BY CloseKeeps DEF Finish
  <1>. QED
    BY <1>1, <1>2 DEF Kept, WindowFits, ReadFitsIn, HalfDuplexIn, Serving

LEMMA FirstLineIsLineEnd ==
    ASSUME NEW h \in HandlerType, LineEnds(h) # {}
    PROVE  /\ FirstLine(h) \in LineEnds(h)
           /\ \A j \in LineEnds(h) : FirstLine(h) <= j
  <1>1. LineEnds(h) \subseteq Nat
    BY DEF LineEnds, HandlerType
  <1>2. PICK k \in LineEnds(h) :
            \A j \in LineEnds(h) : ~(<<j, k>> \in OpToRel(<, Nat))
    BY <1>1, NatLessThanWellFounded, WFMin
  <1>3. \A j \in LineEnds(h) : ~(j < k)
    BY <1>1, <1>2 DEF OpToRel
  <1>4. \A j \in LineEnds(h) : k <= j
    BY <1>1, <1>3
  <1>. QED
    BY <1>4 DEF FirstLine

LEMMA EchoKeeps ==
    ASSUME NEW h \in HandlerType, NEW n \in BaseType,
           h.dataStart + h.dataSize <= ReadBufSize,
           n.reads = 0, n.writes = NoWrites, n.socket = "open",
           LineEnds(h) # {}, EchoLine(h, n)
    PROVE  Kept(handler', base') /\ handler'.state = "OUTPUT_MSG"
  <1>. DEFINE len == FirstLine(h)
  <1>1. len \in 1 .. h.dataSize
    BY FirstLineIsLineEnd DEF LineEnds
  <1>2. /\ h.dataStart \in 0..ReadBufSize /\ h.dataSize \in 0..ReadBufSize
        /\ ReadBufSize \in Nat
    BY BaseAssumption DEF HandlerType
  <1>. DEFINE start == h.dataStart + len
              size == h.dataSize - len
  <1>3. /\ start \in 0..ReadBufSize /\ size \in 0..ReadBufSize
        /\ start + size <= ReadBufSize
    BY <1>1, <1>2
  <1>4. handler' = [h EXCEPT !.state = "OUTPUT_MSG",
                             !.dataStart = start, !.dataSize = size]
    BY DEF EchoLine
  <1>. HIDE DEF len, start, size
  <1>5. /\ handler' \in HandlerType /\ handler'.state = "OUTPUT_MSG"
        /\ handler'.dataStart = start /\ handler'.dataSize = size
    BY <1>3, <1>4 DEF HandlerType, State
  <1>6. /\ base' \in BaseType /\ base'.reads = 0 /\ base'.socket = "open"
        /\ base'.writes = OneWrite("line")
    BY WriteKeeps DEF EchoLine, Message
  <1>. QED
    BY <1>3, <1>5, <1>6 DEF Kept, WindowFits, ReadFitsIn, HalfDuplexIn, Serving

LEMMA ReadMoreKeeps ==
    ASSUME NEW h \in HandlerType, NEW n \in BaseType,
           h.dataStart + h.dataSize <= ReadBufSize, h.dataSize < ReadBufSize,
           n.reads = 0, n.writes = NoWrites, n.socket = "open",
           ReadMore(h, n)
    PROVE  Kept(handler', base') /\ handler'.state = "READ_INPUT"
  <1>. DEFINE moved == [i \in Offset |-> IF i < h.dataSize
                                         THEN h.readBuf[h.dataStart + i]
                                         ELSE h.readBuf[i]]
  <1>1. /\ h.dataStart \in 0..ReadBufSize /\ h.dataSize \in 0..ReadBufSize
        /\ ReadBufSize \in Nat /\ h.readBuf \in [Offset -> Byte]
    BY BaseAssumption DEF HandlerType
  <1>2. \A i \in Offset : i < h.dataSize => h.dataStart + i \in Offset
    BY <1>1 DEF Offset
  <1>3. moved \in [Offset -> Byte]
    BY <1>1, <1>2
  <1>4. handler' = [h EXCEPT !.state = "READ_INPUT", !.readBuf = moved]
    BY DEF ReadMore
  <1>. HIDE DEF moved
  <1>5. /\ handler' \in HandlerType /\ handler'.state = "READ_INPUT"
        /\ handler'.dataSize = h.dataSize
    BY <1>3, <1>4 DEF HandlerType, State
  <1>6. ReadBufSize - h.dataSize \in 0..ReadBufSize
    BY <1>1
  <1>7. /\ base' \in BaseType /\ base'.reads = 1 /\ base'.socket = "open"
        /\ base'.writes = NoWrites /\ base'.readAt = h.dataSize
        /\ base'.readLen = ReadBufSize - h.dataSize
    BY <1>1, <1>6, ReadKeeps DEF ReadMore
  <1>. QED
    BY <1>1, <1>5, <1>7 DEF Kept, WindowFits, ReadFitsIn, HalfDuplexIn, Serving

LEMMA ProcessKeeps ==
    ASSUME NEW h \in HandlerType, NEW n \in BaseType,
           h.dataStart + h.dataSize <= ReadBufSize,
           n.reads = 0, n.writes = NoWrites, n.socket = "open",
           Process(h, n)
    PROVE  Kept(handler', base') /\ handler'.state # "NEW"
  <1>1. ReadFitsIn(h, n)
    BY DEF ReadFitsIn
  <1>2. CASE \E m \in {"thanks", "toolong"} : SayFarewell(h, n, m)
    BY <1>1, <1>2, FarewellKeeps DEF Message
  <1>3. CASE LineEnds(h) # {} /\ EchoLine(h, n)
    BY <1>3, EchoKeeps
  <1>4. CASE h.dataSize < ReadBufSize /\ ReadMore(h, n)
    BY <1>4, ReadMoreKeeps
  <1>. QED
    BY <1>2, <1>3, <1>4 DEF Process

(* nextOperation() turns what the callbacks guarantee into what the next   *)
(* handler relies on.                                                      *)
LEMMA NextOperationKeeps ==
    ASSUME NEW h, NEW n, Ready(h, n), NextOperation(h, n)
    PROVE  Kept(handler', base') /\ handler'.state # "NEW"
  <1>. USE DEF Ready
  <1>1. CASE /\ h.state = "NEW"
             /\ handler' = [h EXCEPT !.state = "HELLO_SENT"]
             /\ Write(n, "welcome")
    <2>1. /\ handler' \in HandlerType /\ handler'.state = "HELLO_SENT"
          /\ handler'.dataSize = 0
      BY <1>1 DEF HandlerType, State, WindowFits
    <2>2. /\ base' \in BaseType /\ base'.reads = 0 /\ base'.socket = "open"
          /\ base'.writes = OneWrite("welcome")
      BY <1>1, WriteKeeps DEF Message
    <2>. QED
      BY <2>1, <2>2 DEF Kept, WindowFits, ReadFitsIn, HalfDuplexIn, Serving
  <1>2. CASE /\ h.state = "HELLO_SENT"
             /\ handler' = [h EXCEPT !.state = "READ_INPUT"]
             /\ Read(n, 0, ReadBufSize)
    <2>1. /\ handler' \in HandlerType /\ handler'.state = "READ_INPUT"
          /\ handler'.dataSize = 0
      BY <1>2 DEF HandlerType, State, WindowFits
    <2>2. /\ base' \in BaseType /\ base'.reads = 1 /\ base'.socket = "open"
          /\ base'.writes = NoWrites
          /\ base'.readAt = 0 /\ base'.readLen = ReadBufSize
      BY <1>2, ReadKeeps, BaseAssumption DEF Serving
    <2>. QED
      BY <2>1, <2>2, BaseAssumption DEF Kept, WindowFits, ReadFitsIn, HalfDuplexIn, Serving
  <1>3. CASE h.state = "READ_INPUT" /\ Process([h EXCEPT !.dataStart = 0], n)
    <2>. DEFINE g == [h EXCEPT !.dataStart = 0]
    <2>1. /\ g \in HandlerType /\ g.dataStart = 0
          /\ g.dataSize \in 0..ReadBufSize
      BY BaseAssumption DEF HandlerType
    <2>2. g.dataStart + g.dataSize <= ReadBufSize
      BY <2>1, BaseAssumption
    <2>3. Process(g, n)
      BY <1>3
    <2>. HIDE DEF g
    <2>. QED
      BY <1>3, <2>1, <2>2, <2>3, ProcessKeeps DEF Serving
  <1>4. CASE h.state = "OUTPUT_MSG" /\ Process(h, n)
    BY <1>4, ProcessKeeps DEF WindowFits, Serving
  <1>5. CASE \E m \in {"timeout", "shutdown"} : SayFarewell(h, n, m)
    BY <1>5, FarewellKeeps DEF Message
  <1>6. CASE Finish(h, n)
    BY <1>6, FinishKeeps
  <1>. QED
    BY <1>1, <1>2, <1>3, <1>4, <1>5, <1>6 DEF NextOperation

-------------------------------------------------------------------------------
(* Each callback, from ControlInv, makes the handler ready.                *)

LEMMA NetworkInputReady ==
    ASSUME ControlInv, base.reads > 0,
           NEW len \in 1 .. base.readLen, NEW data \in [1..len -> Byte],
           NEW n \in Cancelled(ReadDone(base))
    PROVE  Ready(NetworkInput(handler, data), n)
  <1>. USE BaseAssumption
  <1>. DEFINE g == NetworkInput(handler, data)
              buf == [i \in Offset |->
                        IF i \in base.readAt .. base.readAt + Len(data) - 1
                        THEN data[i - base.readAt + 1]
                        ELSE handler.readBuf[i]]
              size == handler.dataSize + Len(data)
  <1>1. /\ handler \in HandlerType /\ base \in BaseType
        /\ WindowFits(handler) /\ ReadFitsIn(handler, base)
        /\ HalfDuplexIn(handler, base)
    BY DEF ControlInv, Kept
  <1>2. /\ base.reads = 1 /\ base.readAt = handler.dataSize
        /\ base.readLen = ReadBufSize - handler.dataSize
    BY <1>1 DEF ReadFitsIn, BaseType
  <1>3. Len(data) = len /\ len \in Nat
    BY <1>1 DEF BaseType
  <1>4. handler.dataSize \in 0..ReadBufSize /\ handler.readBuf \in [Offset -> Byte]
    BY <1>1 DEF HandlerType
  <1>5. size \in 0..ReadBufSize
    BY <1>2, <1>3, <1>4
  <1>6. buf \in [Offset -> Byte]
    <2>1. ASSUME NEW i \in Offset,
                 i \in base.readAt .. base.readAt + Len(data) - 1
          PROVE  data[i - base.readAt + 1] \in Byte
      <3>1. i - base.readAt + 1 \in 1..len
        BY <2>1, <1>2, <1>3, <1>4 DEF Offset
      <3>. QED
        BY <3>1
    <2>. QED
      BY <2>1, <1>4
  <1>7. g = [handler EXCEPT !.dataSize = size, !.readBuf = buf]
    BY DEF NetworkInput
  <1>. HIDE DEF size, buf
  <1>8. g \in HandlerType /\ g.state = handler.state /\ g.dataSize = size
    BY <1>1, <1>5, <1>6, <1>7 DEF HandlerType
  <1>9. ReadDone(base) \in BaseType /\ ReadDone(base).reads = 0
        /\ ReadDone(base).writes = base.writes
        /\ ReadDone(base).socket = base.socket
    <2>1. ReadDone(base) = [base EXCEPT !.reads = 0]
      BY <1>1, <1>2 DEF ReadDone, BaseType
    <2>. QED
      BY <1>1, <2>1 DEF BaseType
  <1>10. n \in BaseType /\ n.reads = 0 /\ n.writes = base.writes
         /\ n.socket = base.socket
    BY <1>9, CancelledKeeps
  <1>11. handler.state \notin {"NEW", "HELLO_SENT", "OUTPUT_MSG"}
    BY <1>1, <1>2 DEF HalfDuplexIn, ControlInv, Untouched
  <1>. HIDE DEF g
  <1>12. Ready(g, n)
    BY <1>1, <1>8, <1>10, <1>11
       DEF Ready, WindowFits, ReadFitsIn, HalfDuplexIn, Serving
  <1>. QED
    BY <1>12 DEF g

LEMMA WriteReady ==
    ASSUME ControlInv, NEW m \in Message, base.writes[m] > 0,
           NEW n \in Cancelled(WriteDone(base, m))
    PROVE  /\ Ready(handler, n)
           /\ handler.state # "NEW"
  <1>1. /\ handler \in HandlerType /\ base \in BaseType
        /\ WindowFits(handler) /\ ReadFitsIn(handler, base)
        /\ HalfDuplexIn(handler, base)
    BY DEF ControlInv, Kept
  <1>. DEFINE fewer == [base.writes EXCEPT ![m] = @ - 1]
  <1>2. base.writes \in [Message -> Nat]
    BY <1>1 DEF BaseType
  <1>3. fewer \in [Message -> Nat]
    BY <1>2
  <1>4. \A w \in Message : base.writes = OneWrite(w) => fewer = NoWrites
    BY <1>2 DEF OneWrite, NoWrites
  <1>5. base.writes # NoWrites
    BY DEF NoWrites
  <1>6. WriteDone(base, m) = [base EXCEPT !.writes = fewer]
    BY <1>1 DEF WriteDone, BaseType
  <1>. HIDE DEF fewer
  <1>7. /\ WriteDone(base, m) \in BaseType
        /\ WriteDone(base, m).reads = base.reads
        /\ WriteDone(base, m).readAt = base.readAt
        /\ WriteDone(base, m).readLen = base.readLen
        /\ WriteDone(base, m).socket = base.socket
        /\ WriteDone(base, m).writes = fewer
    BY <1>1, <1>3, <1>6 DEF BaseType
  <1>8. /\ n \in BaseType /\ n.reads = base.reads /\ n.readAt = base.readAt
        /\ n.readLen = base.readLen /\ n.socket = base.socket /\ n.writes = fewer
    BY <1>7, CancelledKeeps
  <1>9. handler.state # "NEW"
    BY <1>5 DEF ControlInv, Untouched
  <1>10. handler.state \in Serving => n.reads = 0 /\ n.writes = NoWrites
    BY <1>1, <1>4, <1>5, <1>8 DEF HalfDuplexIn, Serving, Message
  <1>. QED
    BY <1>1, <1>8, <1>9, <1>10 DEF Ready, ReadFitsIn, HalfDuplexIn

(* An interruption overrides the state, whatever the handler was doing. *)
LEMMA InterruptReady ==
    ASSUME NEW h \in HandlerType, NEW n \in BaseType, ReadFitsIn(h, n),
           NEW s \in {"TIMEOUT", "SIGNALLED", "TERMINATE"}
    PROVE  Ready([h EXCEPT !.state = s], n)
  <1>. DEFINE g == [h EXCEPT !.state = s]
  <1>1. g \in HandlerType /\ g.state = s /\ g.dataSize = h.dataSize
    BY DEF HandlerType, State
  <1>. HIDE DEF g
  <1>2. Ready(g, n)
    BY <1>1 DEF Ready, WindowFits, ReadFitsIn, Serving
  <1>. QED
    BY <1>2 DEF g

-------------------------------------------------------------------------------
LEMMA ControlInit == Init => ControlInv
  <1>. SUFFICES ASSUME Init PROVE ControlInv
    OBVIOUS
  <1>1. handler \in HandlerType /\ handler.state = "NEW" /\ handler.dataSize = 0
    BY BaseAssumption DEF Init, HandlerType, State
  <1>2. base = Accepted
    BY DEF Init
  <1>3. NoWrites \in [Message -> Nat]
    BY DEF NoWrites
  <1>4. /\ base \in BaseType /\ base.reads = 0 /\ base.writes = NoWrites
        /\ ~base.armed /\ base.late = 0 /\ ~base.listed /\ ~base.signal
    BY <1>2, <1>3, BaseAssumption DEF Accepted, BaseType
  <1>. QED
    BY <1>1, <1>4 DEF ControlInv, Kept, Untouched, WindowFits, ReadFitsIn,
                      HalfDuplexIn, Serving

LEMMA ReadTaken ==
    ASSUME ControlInv, base.reads > 0, NEW n \in Cancelled(ReadDone(base))
    PROVE  n \in BaseType /\ ReadFitsIn(handler, n)
  <1>1. base \in BaseType /\ base.reads = 1
    BY DEF ControlInv, Kept, ReadFitsIn
  <1>2. ReadDone(base) = [base EXCEPT !.reads = 0]
    BY <1>1 DEF ReadDone, BaseType
  <1>3. ReadDone(base) \in BaseType /\ ReadDone(base).reads = 0
    BY <1>1, <1>2 DEF BaseType
  <1>. QED
    BY <1>3, CancelledKeeps DEF ReadFitsIn

(* Every handler on the strand preserves the invariant. *)
LEMMA ControlStep == ControlInv /\ [Next]_vars => ControlInv'
  <1>. SUFFICES ASSUME ControlInv, [Next]_vars PROVE ControlInv'
    OBVIOUS
  <1>. USE BaseAssumption
  <1>1. /\ handler \in HandlerType /\ base \in BaseType
        /\ WindowFits(handler) /\ ReadFitsIn(handler, base)
        /\ HalfDuplexIn(handler, base)
    BY DEF ControlInv, Kept
  <1>2. ASSUME NEW h, NEW n, Ready(h, n), NextOperation(h, n)
        PROVE  ControlInv'
    BY <1>2, NextOperationKeeps DEF ControlInv, Untouched, Kept, WindowFits,
       ReadFitsIn, HalfDuplexIn
  <1>3. CASE Start(TRUE)
    <2>1. handler' = handler /\ handler.state = "NEW"
          /\ base' = [base EXCEPT !.socket = "closed"]
      BY <1>3 DEF Start
    <2>2. base' \in BaseType /\ base'.reads = base.reads
          /\ base'.writes = base.writes /\ base'.armed = base.armed
          /\ base'.late = base.late /\ base'.listed = base.listed
          /\ base'.signal = base.signal
      BY <1>1, <2>1 DEF BaseType
    <2>. QED
      BY <1>1, <2>1, <2>2 DEF ControlInv, Kept, Untouched, WindowFits,
         ReadFitsIn, HalfDuplexIn, Serving
  <1>4. CASE Start(FALSE)
    <2>. DEFINE n == [base EXCEPT !.listed = TRUE]
    <2>1. n \in BaseType /\ n.reads = base.reads /\ n.writes = base.writes
          /\ n.socket = base.socket
      BY <1>1 DEF BaseType
    <2>2. handler.state = "NEW" /\ base.socket = "open" /\ NextOperation(handler, n)
      BY <1>4 DEF Start
    <2>. HIDE DEF n
    <2>3. Ready(handler, n)
      BY <1>1, <2>1, <2>2 DEF Ready, ReadFitsIn, ControlInv, Untouched
    <2>. QED
      BY <1>2, <2>2, <2>3
  <1>5. CASE HandleRead
    <2>1. PICK len \in 1 .. base.readLen :
          \E data \in [1..len -> Byte], n \in Cancelled(ReadDone(base)) :
             NextOperation(NetworkInput(handler, data), n)
      BY <1>5 DEF HandleRead
    <2>. QED
      BY <1>2, <1>5, <2>1, NetworkInputReady DEF HandleRead
  <1>6. CASE HandleReadError
    <2>1. PICK n \in Cancelled(ReadDone(base)) : NextOperation(ErrorOccured(handler), n)
      BY <1>6 DEF HandleReadError
    <2>2. n \in BaseType /\ ReadFitsIn(handler, n)
      BY <1>6, ReadTaken DEF HandleReadError
    <2>3. Ready(ErrorOccured(handler), n)
      BY <1>1, <2>2, InterruptReady DEF ErrorOccured
    <2>. QED
      BY <1>2, <2>1, <2>3
  <1>7. ASSUME NEW m \in Message, HandleWrite(m)
        PROVE  ControlInv'
    BY <1>2, <1>7, WriteReady DEF HandleWrite
  <1>8. ASSUME NEW m \in Message, HandleWriteError(m)
        PROVE  ControlInv'
    <2>1. PICK n \in Cancelled(WriteDone(base, m)) :
              NextOperation(ErrorOccured(handler), n)
      BY <1>8 DEF HandleWriteError
    <2>2. n \in BaseType /\ ReadFitsIn(handler, n)
      BY <1>8, WriteReady DEF HandleWriteError, Ready
    <2>3. Ready(ErrorOccured(handler), n)
      BY <1>1, <2>2, InterruptReady DEF ErrorOccured
    <2>. QED
      BY <1>2, <2>1, <2>3
  <1>9. CASE HandleTimeout
    <2>1. Expired(base) \in BaseType /\ ReadFitsIn(handler, Expired(base))
      BY <1>1 DEF Expired, BaseType, ReadFitsIn
    <2>2. Ready(TimeoutOccured(handler), Expired(base))
      BY <1>1, <2>1, InterruptReady DEF TimeoutOccured
    <2>. QED
      BY <1>2, <1>9, <2>2 DEF HandleTimeout
  <1>10. CASE HandleLateTimeout
    <2>1. base.late - 1 \in 0..MaxLate
      BY <1>1, <1>10 DEF HandleLateTimeout, BaseType
    <2>2. LateExpired(base) = [base EXCEPT !.late = base.late - 1]
      BY <1>1 DEF LateExpired, BaseType
    <2>3. LateExpired(base) \in BaseType /\ ReadFitsIn(handler, LateExpired(base))
      BY <1>1, <2>1, <2>2 DEF BaseType, ReadFitsIn
    <2>4. Ready(TimeoutOccured(handler), LateExpired(base))
      BY <1>1, <2>3, InterruptReady DEF TimeoutOccured
    <2>. QED
      BY <1>2, <1>10, <2>4 DEF HandleLateTimeout
  <1>11. CASE HandleSignal
    <2>1. SignalTaken(base) \in BaseType /\ ReadFitsIn(handler, SignalTaken(base))
      BY <1>1 DEF SignalTaken, BaseType, ReadFitsIn
    <2>2. Ready(SignalOccured(handler), SignalTaken(base))
      BY <1>1, <2>1, InterruptReady DEF SignalOccured
    <2>. QED
      BY <1>2, <1>11, <2>2 DEF HandleSignal
  <1>12. CASE Stopped
    <2>1. /\ base.listed /\ handler' = handler
          /\ base' = [base EXCEPT !.listed = FALSE, !.signal = TRUE]
      BY <1>12 DEF Stopped, Signal
    <2>2. base' \in BaseType /\ base'.reads = base.reads
          /\ base'.readAt = base.readAt /\ base'.readLen = base.readLen
          /\ base'.writes = base.writes /\ base'.socket = base.socket
      BY <1>1, <2>1 DEF BaseType
    <2>. QED
      BY <1>1, <2>1, <2>2 DEF ControlInv, Kept, Untouched, WindowFits,
         ReadFitsIn, HalfDuplexIn
  <1>13. CASE UNCHANGED vars
    BY <1>13 DEF vars, ControlInv, Kept, Untouched, WindowFits, ReadFitsIn,
       HalfDuplexIn
  <1>. QED
    BY <1>3, <1>4, <1>5, <1>6, <1>7, <1>8, <1>9, <1>10, <1>11, <1>12, <1>13
       DEF Next

(* The inductive invariant of the states and the pending operations. *)
THEOREM ControlInvariant == Spec => []ControlInv
  BY ControlInit, ControlStep, PTL DEF Spec

-------------------------------------------------------------------------------
(* The kernel never overruns readBuf_, never overwrites unread data and is *)
(* never asked for 0 bytes, and at most one read is pending.               *)
THEOREM ReadsFit == Spec => []ReadFits
  <1>1. ControlInv => ReadFits
    BY DEF ControlInv, Kept, ReadFitsIn, ReadFits
  <1>. QED
    BY <1>1, ControlInvariant, PTL

(* While a client is served exactly one operation is pending, the one the  *)
(* state of smerpConnection waits for.                                     *)
THEOREM ServedHalfDuplex == Spec => []HalfDuplex
  <1>1. ControlInv => HalfDuplex
    BY DEF ControlInv, Kept, HalfDuplexIn, HalfDuplex
  <1>. QED
    BY <1>1, ControlInvariant, PTL

-------------------------------------------------------------------------------
(* The bytes.  Tracks(h, e, r): the lines e written back are a prefix of   *)
(* the bytes r received, and a handler that serves holds the rest.         *)

WindowOf(h) == IF h.state = "OUTPUT_MSG" THEN h.dataStart ELSE 0

Prefix(e, r) == Len(e) <= Len(r) /\ \A i \in 1 .. Len(e) : e[i] = r[i]

Holds(h, at, e, r) ==
    /\ Len(r) = Len(e) + h.dataSize
    /\ at + h.dataSize <= ReadBufSize
    /\ \A i \in 0 .. h.dataSize - 1 : h.readBuf[at + i] = r[Len(e) + i + 1]

Tracks(h, e, r) ==
    /\ e \in Seq(Byte) /\ r \in Seq(Byte)
    /\ Prefix(e, r)
    /\ h.state \in Serving \cup {"NEW"} => Holds(h, WindowOf(h), e, r)

LEMMA EchoTracks ==
    ASSUME NEW h \in HandlerType, NEW n, NEW r \in Seq(Byte),
           echoed \in Seq(Byte), Prefix(echoed, r),
           Holds(h, h.dataStart, echoed, r),
           LineEnds(h) # {}, EchoLine(h, n)
    PROVE  Tracks(handler', echoed', r)
  <1>. DEFINE len == FirstLine(h)
              line == Unread(h, len)
              start == h.dataStart + len
              size == h.dataSize - len
  <1>1. len \in 1 .. h.dataSize
    BY FirstLineIsLineEnd DEF LineEnds
  <1>2. /\ h.dataStart \in Nat /\ h.dataSize \in Nat /\ ReadBufSize \in Nat
        /\ h.readBuf \in [Offset -> Byte]
        /\ h.dataStart + h.dataSize <= ReadBufSize
    BY BaseAssumption DEF HandlerType, Holds
  <1>3. /\ handler' = [h EXCEPT !.state = "OUTPUT_MSG",
                                !.dataStart = start, !.dataSize = size]
        /\ echoed' = echoed \o line
    BY DEF EchoLine
  <1>4. \A k \in 1..len : h.dataStart + k - 1 \in Offset
    BY <1>1, <1>2 DEF Offset
  <1>5. line = [k \in 1..len |-> h.readBuf[h.dataStart + k - 1]]
    BY DEF Unread
  <1>6. line \in Seq(Byte) /\ Len(line) = len
    BY SMTT(30), <1>1, <1>2, <1>4, <1>5
  <1>. HIDE DEF len, line
  <1>7. /\ echoed' \in Seq(Byte) /\ Len(echoed') = Len(echoed) + len
        /\ \A i \in 1 .. Len(echoed) : echoed'[i] = echoed[i]
        /\ \A i \in 1 .. len : echoed'[Len(echoed) + i] = line[i]
    BY <1>1, <1>3, <1>6
  <1>8. \A i \in 1..len : line[i] = r[Len(echoed) + i]
    <2>1. ASSUME NEW i \in 1..len PROVE line[i] = r[Len(echoed) + i]
      <3>1. i - 1 \in 0 .. h.dataSize - 1
        BY <1>1, <1>2
      <3>2. h.readBuf[h.dataStart + (i - 1)] = r[Len(echoed) + (i - 1) + 1]
        BY <3>1 DEF Holds
      <3>3. h.dataStart + (i - 1) = h.dataStart + i - 1
            /\ Len(echoed) + (i - 1) + 1 = Len(echoed) + i
        BY <1>1, <1>2
      <3>. QED
        BY <1>5, <3>2, <3>3
    <2>. QED
      BY <2>1
  <1>9. Prefix(echoed', r)
    <2>1. Len(echoed') <= Len(r)
      BY <1>1, <1>2, <1>7 DEF Holds
    <2>2. ASSUME NEW i \in 1 .. Len(echoed') PROVE echoed'[i] = r[i]
      <3>1. CASE i <= Len(echoed)
        BY <1>7, <3>1 DEF Prefix
      <3>2. CASE i > Len(echoed)
        <4>. DEFINE j == i - Len(echoed)
        <4>1. j \in 1..len /\ i = Len(echoed) + j
          BY <1>1, <1>7, <3>2
        <4>. QED
          BY <1>7, <1>8, <4>1
      <3>. QED
        BY <1>7, <3>1, <3>2
    <2>. QED
      BY <2>1, <2>2 DEF Prefix
  <1>10. /\ handler'.state = "OUTPUT_MSG" /\ handler'.dataStart = start
         /\ handler'.dataSize = size /\ handler'.readBuf = h.readBuf
    BY <1>3 DEF HandlerType
  <1>11. Holds(handler', start, echoed', r)
    <2>1. Len(r) = Len(echoed') + size /\ start + size <= ReadBufSize
      BY <1>1, <1>2, <1>7 DEF Holds
    <2>2. ASSUME NEW i \in 0 .. size - 1
          PROVE  h.readBuf[start + i] = r[Len(echoed') + i + 1]
      <3>1. len + i \in 0 .. h.dataSize - 1
        BY <1>1, <1>2
      <3>2. h.readBuf[h.dataStart + (len + i)] = r[Len(echoed) + (len + i) + 1]
        BY <3>1 DEF Holds
      <3>3. h.dataStart + (len + i) = start + i
            /\ Len(echoed) + (len + i) + 1 = Len(echoed') + i + 1
        BY <1>1, <1>2, <1>7
      <3>. QED
        BY <3>2, <3>3
    <2>. QED
      BY <1>10, <2>1, <2>2 DEF Holds
  <1>. QED
    BY <1>7, <1>9, <1>10, <1>11 DEF Tracks, WindowOf

LEMMA ReadMoreTracks ==
    ASSUME NEW h \in HandlerType, NEW n, NEW r \in Seq(Byte),
           echoed \in Seq(Byte), Prefix(echoed, r),
           Holds(h, h.dataStart, echoed, r), ReadMore(h, n)
    PROVE  Tracks(handler', echoed', r)
  <1>1. /\ h.dataStart \in Nat /\ h.dataSize \in Nat /\ ReadBufSize \in Nat
        /\ h.dataStart + h.dataSize <= ReadBufSize
    BY BaseAssumption DEF HandlerType, Holds
  <1>2. /\ handler'.state = "READ_INPUT" /\ handler'.dataSize = h.dataSize
        /\ handler'.readBuf = [i \in Offset |-> IF i < h.dataSize
                                                THEN h.readBuf[h.dataStart + i]
                                                ELSE h.readBuf[i]]
        /\ echoed' = echoed
    BY DEF ReadMore, HandlerType
  <1>3. ASSUME NEW i \in 0 .. h.dataSize - 1
        PROVE  handler'.readBuf[0 + i] = r[Len(echoed) + i + 1]
    <2>1. i \in Offset /\ i < h.dataSize /\ 0 + i = i
      BY <1>1 DEF Offset
    <2>2. handler'.readBuf[i] = h.readBuf[h.dataStart + i]
      BY <1>2, <2>1
    <2>3. h.readBuf[h.dataStart + i] = r[Len(echoed) + i + 1]
      BY DEF Holds
    <2>. QED
      BY <2>1, <2>2, <2>3
  <1>4. Len(r) = Len(echoed) + handler'.dataSize
        /\ 0 + handler'.dataSize <= ReadBufSize
    BY <1>1, <1>2 DEF Holds
  <1>5. Holds(handler', 0, echoed, r)
    BY <1>2, <1>3, <1>4 DEF Holds
  <1>. QED
    BY <1>2, <1>5 DEF Tracks, WindowOf

LEMMA ProcessTracks ==
    ASSUME NEW h \in HandlerType, NEW n, NEW r \in Seq(Byte),
           echoed \in Seq(Byte), Prefix(echoed, r),
           Holds(h, h.dataStart, echoed, r), Process(h, n)
    PROVE  Tracks(handler', echoed', r)
  <1>1. CASE \E m \in {"thanks", "toolong"} : SayFarewell(h, n, m)
    BY <1>1 DEF SayFarewell, HandlerType, Tracks, Serving
  <1>2. CASE LineEnds(h) # {} /\ EchoLine(h, n)
    BY <1>2, EchoTracks
  <1>3. CASE ReadMore(h, n)
    BY <1>3, ReadMoreTracks
  <1>. QED
    BY <1>1, <1>2, <1>3 DEF Process

LEMMA NextOperationTracks ==
    ASSUME NEW h \in HandlerType, NEW n, NEW r, Tracks(h, echoed, r),
           WindowFits(h), NextOperation(h, n)
    PROVE  Tracks(handler', echoed', r)
  <1>. USE DEF HandlerType
  <1>1. CASE /\ h.state \in {"NEW", "HELLO_SENT"}
             /\ \E s \in {"HELLO_SENT", "READ_INPUT"} :
                    handler' = [h EXCEPT !.state = s]
             /\ echoed' = echoed
    <2>1. /\ handler'.state \in {"HELLO_SENT", "READ_INPUT"}
          /\ handler'.dataSize = h.dataSize /\ handler'.readBuf = h.readBuf
      BY <1>1
    <2>2. Holds(h, 0, echoed, r)
      BY <1>1 DEF Tracks, WindowOf, Serving
    <2>. QED
      BY <1>1, <2>1, <2>2 DEF Tracks, WindowOf, Holds
  <1>2. CASE h.state = "READ_INPUT" /\ Process([h EXCEPT !.dataStart = 0], n)
    <2>. DEFINE g == [h EXCEPT !.dataStart = 0]
    <2>1. /\ g \in HandlerType /\ g.dataStart = 0
          /\ g.dataSize = h.dataSize /\ g.readBuf = h.readBuf
      BY BaseAssumption
    <2>2. Holds(h, 0, echoed, r)
      BY <1>2 DEF Tracks, WindowOf, Serving
    <2>3. Process(g, n)
      BY <1>2
    <2>. HIDE DEF g
    <2>4. Holds(g, g.dataStart, echoed, r)
      BY <2>1, <2>2 DEF Holds
    <2>. QED
      BY <2>1, <2>3, <2>4, ProcessTracks DEF Tracks
  <1>3. CASE h.state = "OUTPUT_MSG" /\ Process(h, n)
    BY <1>3, ProcessTracks DEF Tracks, WindowOf, Serving
  <1>4. CASE \E m \in {"timeout", "shutdown"} : SayFarewell(h, n, m)
    BY <1>4 DEF SayFarewell, Tracks, Serving
  <1>5. CASE Finish(h, n)
    BY <1>5 DEF Finish, Tracks, Serving
  <1>. QED
    BY <1>1, <1>2, <1>3, <1>4, <1>5 DEF NextOperation

LEMMA AppendTracks ==
    ASSUME NEW e \in Seq(Byte), NEW r \in Seq(Byte), NEW d \in Seq(Byte),
           Prefix(e, r)
    PROVE  Prefix(e, r \o d)
  BY DEF Prefix

LEMMA NetworkInputTracks ==
    ASSUME ControlInv, Tracks(handler, echoed, received), base.reads > 0,
           NEW len \in 1 .. base.readLen, NEW data \in [1..len -> Byte]
    PROVE  Tracks(NetworkInput(handler, data), echoed, received \o data)
  <1>. DEFINE g == NetworkInput(handler, data)
              r == received \o data
  <1>1. /\ handler \in HandlerType /\ base \in BaseType
        /\ base.reads = 1 /\ base.readAt = handler.dataSize
        /\ base.readLen = ReadBufSize - handler.dataSize
    BY DEF ControlInv, Kept, ReadFitsIn
  <1>2. /\ handler.dataSize \in Nat /\ ReadBufSize \in Nat
        /\ handler.readBuf \in [Offset -> Byte]
    BY <1>1, BaseAssumption DEF HandlerType
  <1>3. /\ len \in Nat /\ handler.dataSize + len <= ReadBufSize
    BY <1>1, <1>2
  <1>4. data \in Seq(Byte) /\ Len(data) = len
    BY <1>3
  <1>5. /\ g.state = handler.state /\ g.dataStart = handler.dataStart
        /\ g.dataSize = handler.dataSize + len
        /\ g.readBuf = [i \in Offset |->
                          IF i \in handler.dataSize .. handler.dataSize + len - 1
                          THEN data[i - handler.dataSize + 1]
                          ELSE handler.readBuf[i]]
    BY <1>1, <1>4 DEF NetworkInput, HandlerType
  <1>6. /\ r \in Seq(Byte) /\ Len(r) = Len(received) + len
        /\ \A i \in 1 .. Len(received) : r[i] = received[i]
        /\ \A i \in 1 .. len : r[Len(received) + i] = data[i]
    <2>1. received \in Seq(Byte)
      BY DEF Tracks
    <2>. QED
      BY <1>3, <1>4, <2>1
  <1>7. Prefix(echoed, r)
    BY <1>4, AppendTracks DEF Tracks
  <1>. HIDE DEF g, r
  <1>8. ASSUME g.state \in Serving \cup {"NEW"}
        PROVE  Holds(g, WindowOf(g), echoed, r)
    <2>1. g.state = "READ_INPUT" /\ WindowOf(g) = 0
      BY <1>1, <1>5, <1>8
         DEF ControlInv, Kept, HalfDuplexIn, Untouched, Serving, WindowOf
    <2>2. Holds(handler, 0, echoed, received)
      BY <1>5, <2>1 DEF Tracks, WindowOf, Serving
    <2>3. Len(received) = Len(echoed) + handler.dataSize /\ Len(echoed) \in Nat
      BY <2>2 DEF Holds, Tracks
    <2>4. Len(r) = Len(echoed) + g.dataSize /\ 0 + g.dataSize <= ReadBufSize
      BY <1>2, <1>3, <1>5, <1>6, <2>3
    <2>5. ASSUME NEW i \in 0 .. g.dataSize - 1
          PROVE  g.readBuf[0 + i] = r[Len(echoed) + i + 1]
      <3>1. i \in Offset /\ 0 + i = i
        BY <1>2, <1>3, <1>5 DEF Offset
      <3>2. CASE i < handler.dataSize
        <4>1. g.readBuf[i] = handler.readBuf[i]
          BY <1>2, <1>5, <3>1, <3>2
        <4>2. handler.readBuf[0 + i] = received[Len(echoed) + i + 1]
          BY <1>2, <2>2, <3>2 DEF Holds
        <4>3. Len(echoed) + i + 1 \in 1 .. Len(received)
          BY <1>2, <2>3, <3>2
        <4>. QED
          BY <1>6, <3>1, <4>1, <4>2, <4>3
      <3>3. CASE i >= handler.dataSize
        <4>. DEFINE j == i - handler.dataSize + 1
        <4>1. i \in handler.dataSize .. handler.dataSize + len - 1
          BY <1>2, <1>3, <1>5, <3>3
        <4>2. g.readBuf[i] = data[j]
          BY <1>5, <3>1, <4>1
        <4>3. j \in 1 .. len /\ Len(received) + j = Len(echoed) + i + 1
          BY SMTT(30), <1>2, <2>3, <4>1
        <4>. QED
          BY <1>6, <3>1, <4>2, <4>3
      <3>. QED
        BY <1>2, <3>2, <3>3
    <2>. QED
      BY <2>1, <2>4, <2>5 DEF Holds
  <1>9. Tracks(g, echoed, r)
    BY <1>6, <1>7, <1>8 DEF Tracks
  <1>. QED
    BY <1>9 DEF g, r

DataInv == ControlInv /\ Tracks(handler, echoed, received)

LEMMA DataInit == Init => DataInv
  <1>. SUFFICES ASSUME Init PROVE Tracks(handler, echoed, received)
    BY ControlInit DEF DataInv
  <1>1. received = <<>> /\ echoed = <<>>
    BY DEF Init
  <1>2. handler.state = "NEW" /\ handler.dataSize = 0
    BY DEF Init
  <1>. QED
    BY <1>1, <1>2, BaseAssumption DEF Tracks, Prefix, Holds, WindowOf

LEMMA InterruptTracks ==
    ASSUME NEW h \in HandlerType, NEW e, NEW r, Tracks(h, e, r),
           NEW s \in {"TIMEOUT", "SIGNALLED", "TERMINATE"}
    PROVE  Tracks([h EXCEPT !.state = s], e, r)
  BY DEF Tracks, HandlerType, Serving

LEMMA DataStep == DataInv /\ [Next]_vars => DataInv'
  <1>. SUFFICES ASSUME DataInv, [Next]_vars
                PROVE  Tracks(handler', echoed', received')
    BY ControlStep DEF DataInv
  <1>1. handler \in HandlerType /\ Tracks(handler, echoed, received)
    BY DEF DataInv, ControlInv, Kept
  <1>2. ASSUME NEW h, NEW n, Ready(h, n), NextOperation(h, n),
               Tracks(h, echoed, received')
        PROVE  Tracks(handler', echoed', received')
    BY <1>2, NextOperationTracks DEF Ready
  <1>3. CASE Start(TRUE) \/ Stopped \/ UNCHANGED vars
    BY <1>1, <1>3 DEF Start, Stopped, vars
  <1>4. CASE Start(FALSE)
    BY <1>1, <1>4, NextOperationTracks
       DEF Start, DataInv, ControlInv, Kept
  <1>5. CASE HandleRead
    <2>. PICK len \in 1 .. base.readLen :
         \E data \in [1..len -> Byte], n \in Cancelled(ReadDone(base)) :
             /\ received' = received \o data
             /\ NextOperation(NetworkInput(handler, data), n)
      BY <1>5 DEF HandleRead
    <2>1. PICK data \in [1..len -> Byte], n \in Cancelled(ReadDone(base)) :
             /\ received' = received \o data
             /\ NextOperation(NetworkInput(handler, data), n)
      OBVIOUS
    <2>2. Ready(NetworkInput(handler, data), n)
      BY <1>5, <2>1, NetworkInputReady DEF HandleRead, DataInv
    <2>3. Tracks(NetworkInput(handler, data), echoed, received')
      BY <1>5, <2>1, NetworkInputTracks DEF HandleRead, DataInv
    <2>. QED
      BY <1>2, <2>1, <2>2, <2>3
  <1>6. ASSUME NEW n, NEW s \in {"TIMEOUT", "SIGNALLED", "TERMINATE"},
               NextOperation([handler EXCEPT !.state = s], n),
               received' = received
        PROVE  Tracks(handler', echoed', received')
    <2>. DEFINE h == [handler EXCEPT !.state = s]
    <2>1. h \in HandlerType /\ h.state = s
      BY <1>1 DEF HandlerType, State
    <2>2. Tracks(h, echoed, received')
      BY <1>1, <1>6, InterruptTracks
    <2>3. NextOperation(h, n)
      BY <1>6
    <2>. HIDE DEF h
    <2>4. WindowFits(h)
      BY <2>1 DEF WindowFits
    <2>. QED
      BY <2>1, <2>2, <2>3, <2>4, NextOperationTracks
  <1>7. CASE HandleReadError \/ HandleTimeout \/ HandleLateTimeout \/ HandleSignal
    BY <1>6, <1>7 DEF HandleReadError, HandleTimeout, HandleLateTimeout,
       HandleSignal, ErrorOccured, TimeoutOccured, SignalOccured
  <1>8. ASSUME NEW m \in Message, HandleWrite(m)
        PROVE  Tracks(handler', echoed', received')
    BY <1>1, <1>2, <1>8, WriteReady DEF HandleWrite, DataInv
  <1>9. ASSUME NEW m \in Message, HandleWriteError(m)
        PROVE  Tracks(handler', echoed', received')
    BY <1>6, <1>9 DEF HandleWriteError, ErrorOccured
  <1>. QED
    BY <1>3, <1>4, <1>5, <1>7, <1>8, <1>9 DEF Next

(* The inductive invariant of the buffer and the bytes. *)
THEOREM DataInvariant == Spec => []DataInv
  BY DataInit, DataStep, PTL DEF Spec

(* What is written back is a prefix of what was received, and readBuf_     *)
(* holds exactly the rest while the client is served.                      *)
THEOREM EchoIsFaithful == Spec => []EchoFaithful
  <1>1. DataInv => EchoFaithful
    BY DEF DataInv, Tracks, Prefix, Holds, WindowOf, EchoFaithful, Window
  <1>. QED
    BY <1>1, DataInvariant, PTL

(* Type correctness, the bounds of dataStart_, dataSize_ and of the read's *)
(* target included.                                                        *)
THEOREM TypeCorrect == Spec => []TypeOK
  <1>1. DataInv => TypeOK
    BY DEF DataInv, ControlInv, Kept, Tracks, TypeOK
  <1>. QED
    BY <1>1, DataInvariant, PTL

-------------------------------------------------------------------------------
(* Once a handler does not serve any more nothing leads back. *)
LEMMA NextOperationLeaves ==
    ASSUME NEW h \in HandlerType, NEW n \in BaseType,
           h.state \in {"TIMEOUT", "SIGNALLED", "TERMINATE", "FINISHED"},
           NextOperation(h, n)
    PROVE  /\ handler'.state \in {"TERMINATE", "FINISHED"}
           /\ base'.reads = n.reads
           /\ echoed' = echoed
           /\ \/ base'.socket = "closed"
              \/ base'.socket = n.socket /\ handler'.state = "TERMINATE"
  <1>1. CASE \E m \in {"timeout", "shutdown"} : SayFarewell(h, n, m)
    BY <1>1, WriteKeeps DEF SayFarewell, HandlerType, Message
  <1>2. CASE Finish(h, n)
    BY <1>2, CloseKeeps DEF Finish, HandlerType
  <1>. QED
    BY <1>1, <1>2 DEF NextOperation

LEMMA ProcessNeverOrphans ==
    ASSUME NEW h \in HandlerType, NEW n \in BaseType, Process(h, n)
    PROVE  Busy(base)'
  <1>1. CASE \E m \in {"thanks", "toolong"} : SayFarewell(h, n, m)
    BY <1>1, WriteIsBusy DEF SayFarewell, Message
  <1>2. CASE EchoLine(h, n)
    BY <1>2, WriteIsBusy DEF EchoLine, Message
  <1>3. CASE h.dataSize < ReadBufSize /\ ReadMore(h, n)
    <2>1. h.dataSize \in 0..ReadBufSize /\ ReadBufSize - h.dataSize \in 0..ReadBufSize
      BY BaseAssumption DEF HandlerType
    <2>. QED
      BY <1>3, <2>1, ReadIsBusy DEF ReadMore
  <1>. QED
    BY <1>1, <1>2, <1>3 DEF Process

LEMMA NextOperationNeverOrphans ==
    ASSUME NEW h \in HandlerType, NEW n \in BaseType, NextOperation(h, n)
    PROVE  NoOrphan'
  <1>1. CASE Write(n, "welcome")
    BY <1>1, WriteIsBusy DEF Message, NoOrphan
  <1>2. CASE Read(n, 0, ReadBufSize)
    BY <1>2, ReadIsBusy, BaseAssumption DEF NoOrphan
  <1>3. CASE Process([h EXCEPT !.dataStart = 0], n)
    <2>. DEFINE g == [h EXCEPT !.dataStart = 0]
    <2>1. g \in HandlerType /\ Process(g, n)
      BY <1>3, BaseAssumption DEF HandlerType
    <2>. HIDE DEF g
    <2>. QED
      BY <2>1, ProcessNeverOrphans DEF NoOrphan
  <1>4. CASE Process(h, n)
    BY <1>4, ProcessNeverOrphans DEF NoOrphan
  <1>5. CASE \E m \in {"timeout", "shutdown"} : SayFarewell(h, n, m)
    BY <1>5, WriteIsBusy DEF SayFarewell, Message, NoOrphan
  <1>6. CASE Finish(h, n)
    BY <1>6, CloseKeeps DEF Finish, HandlerType, NoOrphan
  <1>. QED
    BY <1>1, <1>2, <1>3, <1>4, <1>5, <1>6 DEF NextOperation

(* What is heard in a step comes behind what was heard before. *)
Heard ==
    /\ Len(received) <= Len(received')
    /\ SubSeq(received', 1, Len(received)) = received

Leaving(h) == h.state \in {"TIMEOUT", "SIGNALLED", "TERMINATE", "FINISHED"}

(* nextOperation() is entered with h and n.  The handler goes back to no   *)
(* earlier state, and only start() enters it with a new one.               *)
Entered(h, n) ==
    /\ Ready(h, n)
    /\ NextOperation(h, n)
    /\ Tracks(h, echoed, received')
    /\ Heard
    /\ n.socket = base.socket
    /\ n.reads <= base.reads
    /\ \/ handler.state = "NEW" /\ h.state = "NEW" /\ received' = received
       \/ handler.state # "NEW" /\ (Leaving(h) \/ h.state = handler.state)

LEMMA InterruptEnters ==
    ASSUME DataInv, received' = received, handler.state # "NEW",
           NEW s \in {"TIMEOUT", "SIGNALLED", "TERMINATE"},
           NEW n \in BaseType, n.socket = base.socket, n.reads <= base.reads,
           ReadFitsIn(handler, n),
           NextOperation([handler EXCEPT !.state = s], n)
    PROVE  \E h : Entered(h, n)
  <1>. DEFINE h == [handler EXCEPT !.state = s]
  <1>1. handler \in HandlerType /\ Tracks(handler, echoed, received)
    BY DEF DataInv, ControlInv, Kept
  <1>2. h.state = s
    BY <1>1 DEF HandlerType
  <1>3. Ready(h, n)
    BY <1>1, InterruptReady
  <1>4. Tracks(h, echoed, received')
    BY <1>1, InterruptTracks
  <1>5. NextOperation(h, n)
    OBVIOUS
  <1>6. Heard
    BY <1>1 DEF Heard, Tracks
  <1>. HIDE DEF h
  <1>7. Entered(h, n)
    BY <1>2, <1>3, <1>4, <1>5, <1>6 DEF Entered, Leaving
  <1>. QED
    BY <1>7

LEMMA EveryHandlerEnters ==
    ASSUME DataInv, Next
    PROVE  Start(TRUE) \/ Stopped \/ \E h, n : Entered(h, n)
  <1>. USE BaseAssumption
  <1>1. /\ handler \in HandlerType /\ base \in BaseType
        /\ WindowFits(handler) /\ ReadFitsIn(handler, base)
        /\ HalfDuplexIn(handler, base) /\ Untouched
        /\ Tracks(handler, echoed, received)
    BY DEF DataInv, ControlInv, Kept
  <1>2. base.reads \in Nat /\ base.writes \in [Message -> Nat]
    BY <1>1 DEF BaseType
  <1>3. received' = received => Heard
    BY <1>1 DEF Heard, Tracks
  <1>4. CASE Start(FALSE)
    <2>. DEFINE n == [base EXCEPT !.listed = TRUE]
    <2>1. n \in BaseType /\ n.reads = base.reads /\ n.writes = base.writes
          /\ n.socket = base.socket
      BY <1>1 DEF BaseType
    <2>2. handler.state = "NEW" /\ base.socket = "open"
          /\ NextOperation(handler, n) /\ received' = received
      BY <1>4 DEF Start
    <2>. HIDE DEF n
    <2>3. Ready(handler, n)
      BY <1>1, <2>1, <2>2 DEF Ready, ReadFitsIn, Untouched
    <2>4. Entered(handler, n)
      BY <1>1, <1>2, <1>3, <2>1, <2>2, <2>3 DEF Entered
    <2>. QED
      BY <2>4
  <1>5. CASE HandleRead
    <2>1. PICK len \in 1 .. base.readLen :
          \E data \in [1..len -> Byte], n \in Cancelled(ReadDone(base)) :
             /\ received' = received \o data
             /\ NextOperation(NetworkInput(handler, data), n)
      BY <1>5 DEF HandleRead
    <2>2. PICK data \in [1..len -> Byte], n \in Cancelled(ReadDone(base)) :
             /\ received' = received \o data
             /\ NextOperation(NetworkInput(handler, data), n)
      BY <2>1
    <2>3. base.reads > 0 /\ handler.state # "NEW"
      BY <1>1, <1>5 DEF HandleRead, Untouched
    <2>. DEFINE h == NetworkInput(handler, data)
    <2>4. Ready(h, n)
      BY <2>2, <2>3, NetworkInputReady DEF DataInv
    <2>5. Tracks(h, echoed, received')
      BY <2>2, <2>3, NetworkInputTracks DEF DataInv
    <2>6. h.state = handler.state
      BY <1>1 DEF NetworkInput, HandlerType
    <2>7. n.socket = base.socket /\ n.reads <= base.reads
      <3>1. ReadDone(base) = [base EXCEPT !.reads = base.reads - 1]
        BY <1>1 DEF ReadDone, BaseType
      <3>. base.reads - 1 \in Nat
        BY <1>2, <2>3
      <3>2. ReadDone(base) \in BaseType
        BY <1>1, <3>1 DEF BaseType
      <3>3. n.socket = base.socket /\ n.reads = base.reads - 1
        BY <1>1, <3>1, <3>2, CancelledKeeps DEF BaseType
      <3>. QED
        BY <1>2, <3>3
    <2>8. Heard
      <3>1. data \in Seq(Byte) /\ received \in Seq(Byte)
        BY <1>1 DEF BaseType, Tracks
      <3>. QED
        BY <2>2, <3>1 DEF Heard
    <2>. HIDE DEF h
    <2>9. NextOperation(h, n)
      BY <2>2 DEF h
    <2>10. Entered(h, n)
      BY <2>3, <2>4, <2>5, <2>6, <2>7, <2>8, <2>9 DEF Entered
    <2>. QED
      BY <2>10
  <1>6. CASE HandleReadError
    <2>1. PICK n \in Cancelled(ReadDone(base)) : NextOperation(ErrorOccured(handler), n)
      BY <1>6 DEF HandleReadError
    <2>2. /\ base.reads > 0 /\ handler.state # "NEW" /\ received' = received
      BY <1>1, <1>6 DEF HandleReadError, Untouched
    <2>3. n \in BaseType /\ ReadFitsIn(handler, n)
      BY <2>2, ReadTaken DEF DataInv
    <2>4. ReadDone(base) = [base EXCEPT !.reads = base.reads - 1]
      BY <1>1 DEF ReadDone, BaseType
    <2>5. base.reads - 1 \in Nat
      BY <1>2, <2>2
    <2>6. ReadDone(base) \in BaseType
      BY <1>1, <2>4, <2>5 DEF BaseType
    <2>7. n.socket = base.socket /\ n.reads = base.reads - 1
      BY <1>1, <2>4, <2>6, CancelledKeeps DEF BaseType
    <2>8. n.reads <= base.reads
      BY <1>2, <2>7
    <2>9. \E h : Entered(h, n)
      BY <2>1, <2>2, <2>3, <2>7, <2>8, InterruptEnters DEF ErrorOccured
    <2>. QED
      BY <2>9
  <1>7. ASSUME NEW m \in Message, base.writes[m] > 0,
               NEW n \in Cancelled(WriteDone(base, m))
        PROVE  /\ Ready(handler, n) /\ handler.state # "NEW"
               /\ n.socket = base.socket /\ n.reads = base.reads
    <2>1. Ready(handler, n) /\ handler.state # "NEW"
      BY <1>7, WriteReady DEF DataInv
    <2>. DEFINE fewer == [base.writes EXCEPT ![m] = @ - 1]
    <2>2. fewer \in [Message -> Nat]
      BY <1>2, <1>7
    <2>3. WriteDone(base, m) = [base EXCEPT !.writes = fewer]
      BY <1>1 DEF WriteDone, BaseType
    <2>. HIDE DEF fewer
    <2>4. WriteDone(base, m) \in BaseType /\ WriteDone(base, m).reads = base.reads
          /\ WriteDone(base, m).socket = base.socket
      BY <1>1, <2>2, <2>3 DEF BaseType
    <2>. QED
      BY <2>1, <2>4, CancelledKeeps
  <1>8. ASSUME NEW m \in Message, HandleWrite(m)
        PROVE  \E h, n : Entered(h, n)
    <2>1. PICK n \in Cancelled(WriteDone(base, m)) : NextOperation(handler, n)
      BY <1>8 DEF HandleWrite
    <2>2. base.writes[m] > 0 /\ received' = received
      BY <1>8 DEF HandleWrite
    <2>3. Entered(handler, n)
      BY <1>1, <1>2, <1>3, <1>7, <2>1, <2>2 DEF Entered
    <2>. QED
      BY <2>3
  <1>9. ASSUME NEW m \in Message, HandleWriteError(m)
        PROVE  \E h, n : Entered(h, n)
    <2>1. PICK n \in Cancelled(WriteDone(base, m)) :
              NextOperation(ErrorOccured(handler), n)
      BY <1>9 DEF HandleWriteError
    <2>2. base.writes[m] > 0 /\ received' = received
      BY <1>9 DEF HandleWriteError
    <2>. QED
      BY <1>2, <1>7, <2>1, <2>2, InterruptEnters DEF ErrorOccured, Ready
  <1>10. CASE HandleTimeout
    <2>1. /\ base.armed /\ handler.state # "NEW" /\ received' = received
          /\ NextOperation(TimeoutOccured(handler), Expired(base))
      BY <1>1, <1>10 DEF HandleTimeout, Untouched
    <2>2. /\ Expired(base) \in BaseType
          /\ Expired(base).socket = base.socket
          /\ Expired(base).reads = base.reads
          /\ Expired(base).readAt = base.readAt
          /\ Expired(base).readLen = base.readLen
      BY <1>1 DEF Expired, BaseType
    <2>3. ReadFitsIn(handler, Expired(base)) /\ Expired(base).reads <= base.reads
      BY <1>1, <1>2, <2>2 DEF ReadFitsIn
    <2>. QED
      BY <2>1, <2>2, <2>3, InterruptEnters DEF TimeoutOccured
  <1>11. CASE HandleLateTimeout
    <2>1. /\ base.late > 0 /\ handler.state # "NEW" /\ received' = received
          /\ NextOperation(TimeoutOccured(handler), LateExpired(base))
      BY <1>1, <1>11 DEF HandleLateTimeout, Untouched
    <2>2. base.late - 1 \in 0..MaxLate
      BY <1>1, <2>1 DEF BaseType
    <2>3. LateExpired(base) = [base EXCEPT !.late = base.late - 1]
      BY <1>1 DEF LateExpired, BaseType
    <2>4. /\ LateExpired(base) \in BaseType
          /\ ReadFitsIn(handler, LateExpired(base))
          /\ LateExpired(base).socket = base.socket
          /\ LateExpired(base).reads <= base.reads
      BY <1>1, <1>2, <2>2, <2>3 DEF BaseType, ReadFitsIn
    <2>. QED
      BY <2>1, <2>4, InterruptEnters DEF TimeoutOccured
  <1>12. CASE HandleSignal
    <2>1. /\ base.signal /\ handler.state # "NEW" /\ received' = received
          /\ NextOperation(SignalOccured(handler), SignalTaken(base))
      BY <1>1, <1>12 DEF HandleSignal, Untouched
    <2>2. /\ SignalTaken(base) \in BaseType
          /\ SignalTaken(base).socket = base.socket
          /\ SignalTaken(base).reads = base.reads
          /\ SignalTaken(base).readAt = base.readAt
          /\ SignalTaken(base).readLen = base.readLen
      BY <1>1 DEF SignalTaken, BaseType
    <2>3. ReadFitsIn(handler, SignalTaken(base)) /\ SignalTaken(base).reads <= base.reads
      BY <1>1, <1>2, <2>2 DEF ReadFitsIn
    <2>. QED
      BY <2>1, <2>2, <2>3, InterruptEnters DEF SignalOccured
  <1>. QED
    BY <1>4, <1>5, <1>6, <1>8, <1>9, <1>10, <1>11, <1>12 DEF Next

(* A connection is never left with nobody to call it. *)
THEOREM NobodyIsOrphaned == Spec => []NoOrphan
  <1>1. Init => NoOrphan
    BY DEF Init, NoOrphan
  <1>2. DataInv /\ NoOrphan /\ [Next]_vars => NoOrphan'
    <2>. SUFFICES ASSUME DataInv, NoOrphan, [Next]_vars PROVE NoOrphan'
      OBVIOUS
    <2>1. base \in BaseType /\ Untouched
      BY DEF DataInv, ControlInv, Kept
    <2>2. CASE Start(TRUE)
      BY <2>1, <2>2 DEF Start, NoOrphan, Busy, BaseType
    <2>3. CASE Stopped
      BY <2>1, <2>3 DEF Stopped, Signal, NoOrphan, Busy, BaseType, Untouched
    <2>4. ASSUME NEW h, NEW n, Entered(h, n) PROVE NoOrphan'
      BY <2>4, NextOperationNeverOrphans DEF Entered, Ready
    <2>5. CASE UNCHANGED vars
      BY <2>5 DEF vars, NoOrphan, Busy
    <2>. QED
      BY <2>2, <2>3, <2>4, <2>5, EveryHandlerEnters
  <1>. QED
    BY <1>1, <1>2, DataInvariant, PTL DEF Spec

(* After it has begun to leave the connection starts no read, echoes no    *)
(* line and never serves again.                                            *)
THEOREM LeavingIsFinal == Spec => NoServiceAfterLeaving
  <1>. DEFINE Final == handler.state \in {"TERMINATE", "FINISHED"} =>
                  /\ handler'.state \in {"TERMINATE", "FINISHED"}
                  /\ base'.reads <= base.reads
                  /\ echoed' = echoed
  <1>1. DataInv /\ [Next]_vars => [Final]_vars
    <2>. SUFFICES ASSUME DataInv, Next,
                         handler.state \in {"TERMINATE", "FINISHED"}
                  PROVE  Final
      OBVIOUS
    <2>1. base \in BaseType
      BY DEF DataInv, ControlInv, Kept
    <2>2. CASE Start(TRUE)
      BY <2>2 DEF Start
    <2>3. CASE Stopped
      BY <2>1, <2>3 DEF Stopped, Signal, BaseType
    <2>4. ASSUME NEW h, NEW n, Entered(h, n) PROVE Final
      BY <2>4, NextOperationLeaves DEF Entered, Ready, Leaving
    <2>. QED
      BY <2>2, <2>3, <2>4, EveryHandlerEnters
  <1>. QED
    BY <1>1, DataInvariant, PTL DEF Spec, NoServiceAfterLeaving

-------------------------------------------------------------------------------
(* The refinement of the session.  Answers(r): the first line of r that    *)
(* was not answered is.                                                    *)
Answers(r) ==
    \E last \in Len(echoed) + 1 .. Len(r) :
        /\ r[last] = NL
        /\ \A i \in Len(echoed) + 1 .. last - 1 : r[i] # NL
        /\ echoed' = SubSeq(r, 1, last)

LEMMA PrefixIsSubSeq ==
    ASSUME NEW e \in Seq(Byte), NEW r \in Seq(Byte), Prefix(e, r)
    PROVE  e = SubSeq(r, 1, Len(e))
  BY DEF Prefix

(* Concatenation adds the lengths. *)
LEMMA ConcatLen ==
    ASSUME NEW s \in Seq(Byte), NEW t \in Seq(Byte)
    PROVE  s \o t \in Seq(Byte) /\ Len(s \o t) = Len(s) + Len(t)
  OBVIOUS

LEMMA EchoAnswers ==
    ASSUME NEW h \in HandlerType, NEW n, NEW r \in Seq(Byte),
           echoed \in Seq(Byte), Prefix(echoed, r),
           Holds(h, h.dataStart, echoed, r),
           LineEnds(h) # {}, EchoLine(h, n)
    PROVE  Answers(r)
  <1>. DEFINE len == FirstLine(h)
              line == Unread(h, len)
              last == Len(echoed) + len
  <1>1. len \in 1 .. h.dataSize /\ len \in LineEnds(h)
    BY FirstLineIsLineEnd DEF LineEnds
  <1>2. \A j \in LineEnds(h) : len <= j
    BY FirstLineIsLineEnd
  <1>3. /\ h.dataStart \in Nat /\ h.dataSize \in Nat
        /\ Len(r) = Len(echoed) + h.dataSize
    BY BaseAssumption DEF HandlerType, Holds
  <1>4. \A k \in 1..len : h.dataStart + k - 1 \in Offset
    BY <1>1, <1>3, BaseAssumption DEF Holds, Offset
  <1>5. /\ line = [k \in 1..len |-> h.readBuf[h.dataStart + k - 1]]
        /\ h.readBuf \in [Offset -> Byte]
    BY DEF Unread, HandlerType
  <1>6. echoed' = echoed \o line
    BY DEF EchoLine
  <1>7. line \in Seq(Byte) /\ Len(line) = len
    BY <1>1, <1>3, <1>4, <1>5
  <1>. HIDE DEF len, line
  <1>8. Len(echoed') = last
    <2>1. len \in Nat
      BY <1>1, <1>3
    <2>2. echoed' \in Seq(Byte) /\ Len(echoed') = Len(echoed) + Len(line)
      BY <1>6, <1>7, ConcatLen
    <2>. QED
      BY <1>7, <2>1, <2>2
  <1>9. Tracks(handler', echoed', r)
    BY EchoTracks
  <1>10. echoed' = SubSeq(r, 1, last)
    BY <1>8, <1>9, PrefixIsSubSeq DEF Tracks
  <1>11. \A j \in 1 .. h.dataSize :
            h.readBuf[h.dataStart + j - 1] = r[Len(echoed) + j]
    <2>1. ASSUME NEW j \in 1 .. h.dataSize
          PROVE  h.readBuf[h.dataStart + j - 1] = r[Len(echoed) + j]
      <3>1. j - 1 \in 0 .. h.dataSize - 1
        BY <1>3
      <3>2. h.readBuf[h.dataStart + (j - 1)] = r[Len(echoed) + (j - 1) + 1]
        BY <3>1 DEF Holds
      <3>3. h.dataStart + (j - 1) = h.dataStart + j - 1
            /\ Len(echoed) + (j - 1) + 1 = Len(echoed) + j
        BY <1>3
      <3>. QED
        BY <3>2, <3>3
    <2>. QED
      BY <2>1
  <1>12. r[last] = NL
    BY <1>1, <1>11 DEF LineEnds
  <1>13. ASSUME NEW i \in Len(echoed) + 1 .. last - 1 PROVE r[i] # NL
    <2>. DEFINE j == i - Len(echoed)
    <2>1. j \in 1 .. h.dataSize /\ j < len /\ i = Len(echoed) + j
      BY <1>1, <1>3
    <2>. HIDE DEF j
    <2>2. j \notin LineEnds(h)
      BY <1>1, <1>2, <1>3, <2>1
    <2>3. h.readBuf[h.dataStart + j - 1] # NL
      BY <2>1, <2>2 DEF LineEnds
    <2>. QED
      BY <1>11, <2>1, <2>3
  <1>14. last \in Len(echoed) + 1 .. Len(r)
    BY <1>1, <1>3
  <1>. QED
    BY <1>10, <1>12, <1>13, <1>14 DEF Answers

(* What nextOperation() does for a client that is served. *)
Serves(r, socket) ==
    /\ base'.socket = socket
    /\ \/ handler'.state \in Serving /\ (echoed' = echoed \/ Answers(r))
       \/ handler'.state = "TERMINATE" /\ echoed' = echoed

LEMMA ProcessServes ==
    ASSUME NEW h \in HandlerType, NEW n \in BaseType, NEW r \in Seq(Byte),
           echoed \in Seq(Byte), Prefix(echoed, r),
           Holds(h, h.dataStart, echoed, r), Process(h, n)
    PROVE  Serves(r, n.socket)
  <1>1. CASE \E m \in {"thanks", "toolong"} : SayFarewell(h, n, m)
    BY <1>1, WriteKeeps DEF SayFarewell, HandlerType, Message, Serves
  <1>2. CASE LineEnds(h) # {} /\ EchoLine(h, n)
    <2>1. handler'.state = "OUTPUT_MSG" /\ base'.socket = n.socket
      BY <1>2, WriteKeeps DEF EchoLine, HandlerType, Message
    <2>. QED
      BY <1>2, <2>1, EchoAnswers DEF Serves, Serving
  <1>3. CASE h.dataSize < ReadBufSize /\ ReadMore(h, n)
    <2>1. h.dataSize \in 0..ReadBufSize /\ ReadBufSize - h.dataSize \in 0..ReadBufSize
      BY BaseAssumption DEF HandlerType
    <2>2. handler'.state = "READ_INPUT" /\ base'.socket = n.socket
      BY <1>3, <2>1, ReadKeeps DEF ReadMore, HandlerType
    <2>. QED
      BY <1>3, <2>2 DEF Serves, Serving, ReadMore
  <1>. QED
    BY <1>1, <1>2, <1>3 DEF Process

LEMMA NextOperationServes ==
    ASSUME NEW h, NEW n, NEW r, Ready(h, n), Tracks(h, echoed, r),
           h.state \in Serving, NextOperation(h, n)
    PROVE  Serves(r, "open")
  <1>1. /\ h \in HandlerType /\ n \in BaseType /\ n.socket = "open"
        /\ r \in Seq(Byte) /\ echoed \in Seq(Byte) /\ Prefix(echoed, r)
        /\ Holds(h, WindowOf(h), echoed, r)
    BY DEF Ready, Tracks
  <1>2. CASE /\ h.state = "HELLO_SENT"
             /\ handler' = [h EXCEPT !.state = "READ_INPUT"]
             /\ Read(n, 0, ReadBufSize)
             /\ UNCHANGED echoed
    BY <1>1, <1>2, ReadKeeps, BaseAssumption DEF HandlerType, Serves, Serving
  <1>3. CASE h.state = "READ_INPUT" /\ Process([h EXCEPT !.dataStart = 0], n)
    <2>. DEFINE g == [h EXCEPT !.dataStart = 0]
    <2>1. /\ g \in HandlerType /\ g.dataStart = 0 /\ Process(g, n)
          /\ g.dataSize = h.dataSize /\ g.readBuf = h.readBuf
      BY <1>1, <1>3, BaseAssumption DEF HandlerType
    <2>. HIDE DEF g
    <2>2. Holds(g, g.dataStart, echoed, r)
      BY <1>1, <1>3, <2>1 DEF Holds, WindowOf
    <2>. QED
      BY <1>1, <2>1, <2>2, ProcessServes
  <1>4. CASE h.state = "OUTPUT_MSG" /\ Process(h, n)
    BY <1>1, <1>4, ProcessServes DEF WindowOf
  <1>. QED
    BY <1>2, <1>3, <1>4 DEF NextOperation, Serving

(* Each step of the connection is one of the session, or none. *)
LEMMA SessionStep ==
    ASSUME DataInv, [Next]_vars
    PROVE  [Promise!Next]_(Promise!svars)
  <1>1. /\ base \in BaseType /\ handler \in HandlerType
        /\ HalfDuplexIn(handler, base)
    BY DEF DataInv, ControlInv, Kept
  <1>2. CASE Start(TRUE)
    <2>1. Phase = "new" /\ Phase' = "closed" /\ UNCHANGED <<received, echoed>>
      BY <1>1, <1>2 DEF Start, Phase, BaseType
    <2>. QED
      BY <2>1 DEF Promise!Next, Promise!Refuse
  <1>3. CASE Stopped
    <2>1. Phase' = Phase /\ UNCHANGED <<received, echoed>>
      BY <1>1, <1>3 DEF Stopped, Signal, Phase, BaseType
    <2>. QED
      BY <2>1 DEF Promise!svars
  <1>4. ASSUME NEW h, NEW n, Entered(h, n)
        PROVE  Promise!Next
    <2>1. /\ Ready(h, n) /\ NextOperation(h, n) /\ Tracks(h, echoed, received')
          /\ n.socket = base.socket /\ Promise!Hears
          /\ h \in HandlerType /\ n \in BaseType
      BY <1>4 DEF Entered, Heard, Promise!Hears, Ready
    <2>2. CASE handler.state = "NEW" /\ h.state = "NEW" /\ received' = received
      <3>1. n.socket = "open" /\ n.reads = 0 /\ n.writes = NoWrites
        BY <2>1, <2>2 DEF Ready
      <3>2. /\ handler' = [h EXCEPT !.state = "HELLO_SENT"]
            /\ Write(n, "welcome") /\ UNCHANGED echoed
        BY <2>1, <2>2 DEF NextOperation
      <3>3. handler'.state = "HELLO_SENT" /\ base'.socket = "open"
        BY <2>1, <3>1, <3>2, WriteKeeps DEF HandlerType, Message
      <3>4. Phase = "new" /\ Phase' = "serving"
        BY <2>1, <2>2, <3>1, <3>3 DEF Phase, Serving
      <3>. QED
        BY <2>2, <3>2, <3>4 DEF Promise!Next, Promise!Admit
    <2>3. CASE handler.state # "NEW" /\ Leaving(h)
      <3>1. /\ handler'.state \in {"TERMINATE", "FINISHED"}
            /\ echoed' = echoed
            /\ \/ base'.socket = "closed"
               \/ base'.socket = base.socket /\ handler'.state = "TERMINATE"
        BY <2>1, <2>3, NextOperationLeaves DEF Leaving
      <3>2. Phase \in {"closed", "serving", "leaving"}
        BY <2>3 DEF Phase
      <3>3. CASE base'.socket = "closed"
        <4>1. Phase' = "closed"
          BY <3>3 DEF Phase
        <4>. QED
          BY <2>1, <3>1, <3>2, <4>1 DEF Promise!Next, Promise!Close
      <3>4. CASE base'.socket # "closed"
        <4>1. Phase' = "leaving" /\ Phase # "closed"
          BY <1>1, <3>1, <3>4 DEF Phase, Serving, BaseType
        <4>. QED
          BY <2>1, <3>1, <3>2, <4>1 DEF Promise!Next, Promise!Dismiss
      <3>. QED
        BY <3>3, <3>4
    <2>4. CASE h.state \in Serving /\ h.state = handler.state
      <3>1. Serves(received', "open")
        BY <2>1, <2>4, NextOperationServes
      <3>2. Phase = "serving"
        BY <1>1, <2>4 DEF Phase, HalfDuplexIn, Serving
      <3>3. CASE handler'.state \in Serving /\ echoed' = echoed
        <4>1. Phase' = "serving"
          BY <3>1, <3>3 DEF Phase, Serves, Serving
        <4>. QED
          BY <2>1, <3>2, <3>3, <4>1 DEF Promise!Next, Promise!Listen
      <3>4. CASE handler'.state \in Serving /\ Answers(received')
        <4>1. Phase' = "serving"
          BY <3>1, <3>4 DEF Phase, Serves, Serving
        <4>. QED
          BY <2>1, <3>2, <3>4, <4>1 DEF Promise!Next, Promise!Answer, Answers
      <3>5. CASE handler'.state = "TERMINATE" /\ echoed' = echoed
        <4>1. Phase' = "leaving"
          BY <3>1, <3>5 DEF Phase, Serves, Serving
        <4>. QED
          BY <2>1, <3>2, <3>5, <4>1 DEF Promise!Next, Promise!Dismiss
      <3>. QED
        BY <3>1, <3>3, <3>4, <3>5 DEF Serves
    <2>5. h.state \in Serving \/ h.state = "NEW" \/ Leaving(h)
      BY <2>1 DEF HandlerType, State, Serving, Leaving
    <2>. QED
      BY <1>4, <2>2, <2>3, <2>4, <2>5 DEF Entered
  <1>5. CASE UNCHANGED vars
    BY <1>5 DEF vars, Phase, Promise!svars
  <1>. QED
    BY <1>2, <1>3, <1>4, <1>5, EveryHandlerEnters

(* The connection implements the session a client is promised. *)
THEOREM SessionIsImplemented == Spec => ImplementsSession
  <1>1. Init => Promise!Init
    BY DEF Init, Accepted, Phase, Promise!Init
  <1>2. DataInv /\ [Next]_vars => [Promise!Next]_(Promise!svars)
    BY SessionStep
  <1>. QED
    BY <1>1, <1>2, DataInvariant, PTL DEF Spec, ImplementsSession, Promise!Spec

-------------------------------------------------------------------------------
(* Among the bytes of r behind e there is no line, and at their beginning  *)
(* no "quit". *)
NothingLeft(e, r) ==
    LET rest == SubSeq(r, Len(e) + 1, Len(r)) IN
    /\ \A i \in DOMAIN rest : rest[i] # NL
    /\ Len(rest) < Len(Quit) \/ \E k \in DOMAIN Quit : rest[k] # Quit[k]

LEMMA ReadMoreLeavesNothing ==
    ASSUME NEW h \in HandlerType, NEW e \in Seq(Byte), NEW r \in Seq(Byte),
           Holds(h, h.dataStart, e, r),
           MayDifferFromQuit(h), LineEnds(h) = {}
    PROVE  NothingLeft(e, r)
  <1>. DEFINE rest == SubSeq(r, Len(e) + 1, Len(r))
  <1>1. /\ h.dataStart \in Nat /\ h.dataSize \in Nat /\ ReadBufSize \in Nat
        /\ Len(r) = Len(e) + h.dataSize /\ Len(e) \in Nat
        /\ h.dataStart + h.dataSize <= ReadBufSize
    BY BaseAssumption DEF HandlerType, Holds
  <1>2. /\ rest \in Seq(Byte) /\ Len(rest) = h.dataSize
        /\ \A i \in 1 .. h.dataSize : rest[i] = r[Len(e) + i]
    BY <1>1
  <1>. HIDE DEF rest
  <1>3. ASSUME NEW i \in 1 .. h.dataSize
        PROVE  rest[i] = h.readBuf[h.dataStart + i - 1]
    <2>1. i - 1 \in 0 .. h.dataSize - 1
      BY <1>1
    <2>2. h.readBuf[h.dataStart + (i - 1)] = r[Len(e) + (i - 1) + 1]
      BY <2>1 DEF Holds
    <2>3. h.dataStart + (i - 1) = h.dataStart + i - 1
          /\ Len(e) + (i - 1) + 1 = Len(e) + i
      BY <1>1
    <2>. QED
      BY <1>2, <2>2, <2>3
  <1>4. \A i \in DOMAIN rest : rest[i] # NL
    <2>1. DOMAIN rest = 1 .. h.dataSize
      BY <1>2
    <2>. QED
      BY <1>3, <2>1 DEF LineEnds
  <1>5. Quit \in Seq(Byte) /\ Len(Quit) \in Nat /\ DOMAIN Quit = 1 .. Len(Quit)
    BY HandlerAssumption
  <1>6. ASSUME Len(rest) >= Len(Quit)
        PROVE  \E k \in DOMAIN Quit : rest[k] # Quit[k]
    <2>1. h.dataStart + Len(Quit) <= ReadBufSize
      BY <1>1, <1>2, <1>5, <1>6
    <2>2. ~MayMatchQuit(h)
      BY <1>1, <1>5, <2>1 DEF MayDifferFromQuit
    <2>3. PICK k \in DOMAIN Quit : h.readBuf[h.dataStart + k - 1] # Quit[k]
      BY <2>2 DEF MayMatchQuit
    <2>4. k \in 1 .. h.dataSize
      BY <1>1, <1>2, <1>5, <1>6
    <2>. QED
      BY <1>3, <2>3, <2>4
  <1>7. Len(rest) < Len(Quit) \/ \E k \in DOMAIN Quit : rest[k] # Quit[k]
    BY <1>1, <1>2, <1>5, <1>6
  <1>. QED
    BY <1>4, <1>7 DEF NothingLeft, rest

LEMMA ProcessLeavesNothing ==
    ASSUME NEW h \in HandlerType, NEW n, NEW r \in Seq(Byte),
           echoed \in Seq(Byte), Holds(h, h.dataStart, echoed, r),
           Process(h, n), handler'.state = "READ_INPUT"
    PROVE  NothingLeft(echoed', r)
  <1>1. CASE \E m \in {"thanks", "toolong"} : SayFarewell(h, n, m)
    BY <1>1 DEF SayFarewell, HandlerType
  <1>2. CASE EchoLine(h, n)
    BY <1>2 DEF EchoLine, HandlerType
  <1>3. CASE MayDifferFromQuit(h) /\ LineEnds(h) = {} /\ ReadMore(h, n)
    BY <1>3, ReadMoreLeavesNothing DEF ReadMore
  <1>. QED
    BY <1>1, <1>2, <1>3 DEF Process

LEMMA NextOperationLeavesNothing ==
    ASSUME NEW h, NEW n, NEW r, Ready(h, n), Tracks(h, echoed, r),
           NextOperation(h, n), handler'.state = "READ_INPUT"
    PROVE  NothingLeft(echoed', r)
  <1>1. /\ h \in HandlerType /\ r \in Seq(Byte) /\ echoed \in Seq(Byte)
        /\ h.state \in Serving => Holds(h, WindowOf(h), echoed, r)
    BY DEF Ready, Tracks
  <1>2. CASE h.state = "HELLO_SENT" /\ UNCHANGED echoed
    <2>1. Len(r) = Len(echoed)
      BY <1>1, <1>2 DEF Ready, WindowFits, Holds, Serving
    <2>. DEFINE rest == SubSeq(r, Len(echoed) + 1, Len(r))
    <2>2. rest \in Seq(Byte) /\ Len(rest) = 0 /\ DOMAIN rest = {}
      BY <1>1, <2>1
    <2>. HIDE DEF rest
    <2>3. Len(Quit) > 0
      BY HandlerAssumption
    <2>. QED
      BY <1>2, <2>2, <2>3 DEF NothingLeft, rest
  <1>3. CASE h.state = "READ_INPUT" /\ Process([h EXCEPT !.dataStart = 0], n)
    <2>. DEFINE g == [h EXCEPT !.dataStart = 0]
    <2>1. /\ g \in HandlerType /\ g.dataStart = 0 /\ Process(g, n)
          /\ g.dataSize = h.dataSize /\ g.readBuf = h.readBuf
      BY <1>1, <1>3, BaseAssumption DEF HandlerType
    <2>. HIDE DEF g
    <2>2. Holds(g, g.dataStart, echoed, r)
      BY <1>1, <1>3, <2>1 DEF Holds, WindowOf, Serving
    <2>. QED
      BY <1>1, <2>1, <2>2, ProcessLeavesNothing
  <1>4. CASE h.state = "OUTPUT_MSG" /\ Process(h, n)
    BY <1>1, <1>4, ProcessLeavesNothing DEF WindowOf, Serving
  <1>5. CASE \E m \in {"timeout", "shutdown"} : SayFarewell(h, n, m)
    BY <1>1, <1>5 DEF SayFarewell, HandlerType
  <1>6. CASE Finish(h, n)
    BY <1>1, <1>6 DEF Finish, HandlerType
  <1>7. CASE handler' = [h EXCEPT !.state = "HELLO_SENT"]
    BY <1>1, <1>7 DEF HandlerType
  <1>. QED
    BY <1>2, <1>3, <1>4, <1>5, <1>6, <1>7 DEF NextOperation

(* Whenever the server waits for input it has answered every whole line.   *)
THEOREM NothingStaysUnanswered == Spec => []NothingUnanswered
  <1>. DEFINE Answered == handler.state = "READ_INPUT" => NothingLeft(echoed, received)
  <1>1. Init => Answered
    BY DEF Init
  <1>2. DataInv /\ Answered /\ [Next]_vars => Answered'
    <2>. SUFFICES ASSUME DataInv, Answered, [Next]_vars PROVE Answered'
      OBVIOUS
    <2>1. CASE Start(TRUE) \/ Stopped \/ UNCHANGED vars
      BY <2>1 DEF Start, Stopped, vars, NothingLeft
    <2>2. ASSUME NEW h, NEW n, Entered(h, n) PROVE Answered'
      BY <2>2, NextOperationLeavesNothing DEF Entered, NothingLeft
    <2>. QED
      BY <2>1, <2>2, EveryHandlerEnters
  <1>3. Answered => NothingUnanswered
    BY DEF NothingLeft, NothingUnanswered
  <1>. QED
    BY <1>1, <1>2, <1>3, DataInvariant, PTL DEF Spec
===============================================================================
