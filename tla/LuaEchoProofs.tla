---------------------------- MODULE LuaEchoProofs -----------------------------
(***************************************************************************)
(* Proofs about the connection of the lua example, for every alphabet,     *)
(* every size of a read and every length of a line: the line under a write *)
(* is still the machine's, and the script implements the session.          *)
(*                                                                         *)
(* As for the server's own handler, the invariant relates the state of the *)
(* script to the operations in flight: Ready says what the callbacks make  *)
(* sure of before next_operation() is called, Kept what it leaves behind.  *)
(***************************************************************************)
EXTENDS LuaEcho, SequenceTheorems, WellFoundedInduction, TLAPS

(* A script that serves has kept every byte, echoed or in its buffer. *)
Holds(v, e, r) ==
    /\ e \in Seq(Byte) /\ r \in Seq(Byte)
    /\ v.state \in Serving \cup {"NEW"} => r = e \o v.buffer
    /\ v.state \in {"NEW", "HELLO_SENT"} => v.buffer = <<>>

LineIsOwned(v, n, e) ==
    n.writes["line"] > 0 =>
        n.writes["line"] = 1 /\ v.echo # NoLine /\ IsSuffix(v.echo, e)

InFlight(v, n) ==
    /\ v.state \in Serving => n.socket = "open"
    /\ v.state = "HELLO_SENT" => n.reads = 0 /\ n.writes = OneWrite("welcome")
    /\ v.state = "READ_INPUT" => n.reads = 1 /\ n.writes = NoWrites
    /\ v.state = "OUTPUT_MSG" => n.reads = 0 /\ n.writes = OneWrite("line")

Alive(v, n, e, r) ==
    /\ v \in VMType /\ v.life = "alive" /\ v.state # "INIT"
    /\ n \in BaseType
    /\ Holds(v, e, r)
    /\ LineIsOwned(v, n, e)

Kept(v, n, e, r) ==
    /\ Alive(v, n, e, r)
    /\ InFlight(v, n)
    /\ v.state \notin {"NEW", "TIMEOUT", "SIGNALLED"}

Ready(v, n, e, r) ==
    /\ Alive(v, n, e, r)
    /\ v.state \in Serving \cup {"NEW"} =>
          n.reads = 0 /\ n.writes = NoWrites /\ n.socket = "open"

(* Before start(), where nothing was read, and after the machine is gone.  *)
Idle ==
    /\ vm \in VMType /\ base \in BaseType
    /\ Quiet(base) /\ ~base.listed
    /\ received \in Seq(Byte) /\ echoed \in Seq(Byte)
    /\ \/ /\ vm.state = "INIT" /\ vm.buffer = <<>>
          /\ received = <<>> /\ echoed = <<>>
       \/ vm.state # "NEW" /\ base.socket = "closed" /\ vm.life = "destroyed"

LuaInv == Idle \/ Kept(vm, base, echoed, received)

-------------------------------------------------------------------------------
(* What the cases of connectionBase::nextOperation() keep and change: as    *)
(* for the server's own handler, in ConnectionProofs.                      *)
LEMMA CancelledKeeps ==
    ASSUME NEW n \in BaseType, NEW c \in Cancelled(n)
    PROVE  /\ c \in BaseType
           /\ c.reads = n.reads /\ c.writes = n.writes /\ c.socket = n.socket
           /\ c.listed = n.listed /\ c.signal = n.signal
  <1>1. CASE c = [n EXCEPT !.armed = FALSE]
    BY <1>1 DEF BaseType
  <1>2. CASE n.late < MaxLate /\ c = [n EXCEPT !.armed = FALSE, !.late = n.late + 1]
    <2>1. n.late + 1 \in 0..MaxLate
      BY <1>2, BaseAssumption DEF BaseType
    <2>. QED
      BY <1>2, <2>1 DEF BaseType
  <1>. QED
    BY <1>1, <1>2 DEF Cancelled

LEMMA WriteKeeps ==
    ASSUME NEW n \in BaseType, NEW w \in Message, Write(n, w)
    PROVE  /\ base' \in BaseType
           /\ base'.reads = n.reads /\ base'.socket = n.socket
           /\ base'.writes = [n.writes EXCEPT ![w] = @ + 1]
           /\ n.writes = NoWrites => base'.writes = OneWrite(w)
  <1>1. n.writes \in [Message -> Nat] /\ n.writes[w] + 1 \in Nat
    BY DEF BaseType
  <1>2. base' = [n EXCEPT !.writes = [n.writes EXCEPT ![w] = @ + 1]]
    BY DEF Write, BaseType
  <1>3. base' \in BaseType
    BY <1>1, <1>2 DEF BaseType
  <1>4. n.writes = NoWrites => [n.writes EXCEPT ![w] = @ + 1] = OneWrite(w)
    BY DEF NoWrites, OneWrite
  <1>. QED
    BY <1>2, <1>3, <1>4 DEF BaseType

LEMMA ReadKeeps ==
    ASSUME NEW n \in BaseType, NEW at \in 0..ReadBufSize,
           NEW len \in 0..ReadBufSize, Read(n, at, len)
    PROVE  /\ base' \in BaseType
           /\ base'.reads = n.reads + 1
           /\ base'.socket = n.socket /\ base'.writes = n.writes
  <1>1. PICK c \in Cancelled(n) :
            base' = [c EXCEPT !.armed = TRUE, !.reads = @ + 1,
                              !.readAt = at, !.readLen = len]
    BY DEF Read
  <1>2. c \in BaseType /\ c.reads = n.reads /\ c.socket = n.socket
        /\ c.writes = n.writes
    BY CancelledKeeps
  <1>3. c.reads + 1 \in Nat
    BY <1>2 DEF BaseType
  <1>. QED
    BY <1>1, <1>2, <1>3 DEF BaseType

LEMMA CloseKeeps ==
    ASSUME NEW n \in BaseType, Close(n)
    PROVE  /\ base' \in BaseType
           /\ base'.reads = n.reads /\ base'.writes = n.writes
           /\ base'.socket = "closed" /\ ~base'.listed
  <1>1. PICK c \in Cancelled(n) :
            base' = [c EXCEPT !.socket = "closed", !.listed = FALSE]
    BY DEF Close
  <1>2. c \in BaseType /\ c.reads = n.reads /\ c.writes = n.writes
    BY CancelledKeeps
  <1>. QED
    BY <1>1, <1>2 DEF BaseType

-------------------------------------------------------------------------------
(* A sequence ends with what was put at its end.                           *)
LEMMA ConcatHasSuffix ==
    ASSUME NEW s \in Seq(Byte), NEW t \in Seq(Byte)
    PROVE  IsSuffix(t, s \o t)
  <1>. DEFINE u == s \o t
  <1>1. /\ u \in Seq(Byte) /\ Len(u) = Len(s) + Len(t)
        /\ \A i \in 1 .. Len(s) + Len(t) :
              u[i] = IF i <= Len(s) THEN s[i] ELSE t[i - Len(s)]
    BY ConcatProperties
  <1>2. Len(s) \in Nat /\ Len(t) \in Nat
    BY LenProperties
  <1>. HIDE DEF u
  <1>3. /\ Reverse(t) \in Seq(Byte) /\ Len(Reverse(t)) = Len(t)
        /\ \A i \in 1 .. Len(t) : Reverse(t)[i] = t[(Len(t) - i) + 1]
    <2>1. \A i \in 1 .. Len(t) : t[(Len(t) - i) + 1] \in Byte
      BY <1>2, ElementOfSeq
    <2>. QED
      BY <1>2, <2>1 DEF Reverse
  <1>4. /\ Reverse(u) \in Seq(Byte) /\ Len(Reverse(u)) = Len(u)
        /\ \A i \in 1 .. Len(u) : Reverse(u)[i] = u[(Len(u) - i) + 1]
    <2>1. \A i \in 1 .. Len(u) : u[(Len(u) - i) + 1] \in Byte
      BY <1>1, <1>2, ElementOfSeq
    <2>. QED
      BY <1>1, <1>2, <2>1 DEF Reverse
  <1>5. \A i \in 1 .. Len(t) : Reverse(t)[i] = Reverse(u)[i]
    <2>1. ASSUME NEW i \in 1 .. Len(t) PROVE Reverse(t)[i] = Reverse(u)[i]
      <3>. DEFINE k == (Len(u) - i) + 1
      <3>1. k \in Len(s) + 1 .. Len(u) /\ i \in 1 .. Len(u)
            /\ k - Len(s) = (Len(t) - i) + 1
        BY <1>1, <1>2
      <3>. HIDE DEF k
      <3>2. u[k] = t[k - Len(s)]
        BY <1>1, <1>2, <3>1
      <3>. QED
        BY <1>3, <1>4, <3>1, <3>2 DEF k
    <2>. QED
      BY <2>1
  <1>6. SubSeq(Reverse(t), 1, Len(t)) = SubSeq(Reverse(u), 1, Len(t))
    <2>1. \A i \in 1 .. Len(t) : Reverse(t)[i] \in Byte /\ Reverse(u)[i] \in Byte
      BY <1>1, <1>2, <1>3, <1>4, ElementOfSeq
    <2>2. /\ SubSeq(Reverse(t), 1, Len(t)) \in Seq(Byte)
          /\ Len(SubSeq(Reverse(t), 1, Len(t))) = Len(t)
          /\ \A i \in 1 .. Len(t) :
                SubSeq(Reverse(t), 1, Len(t))[i] = Reverse(t)[i]
      BY <1>2, <1>3
    <2>3. /\ SubSeq(Reverse(u), 1, Len(t)) \in Seq(Byte)
          /\ Len(SubSeq(Reverse(u), 1, Len(t))) = Len(t)
          /\ \A i \in 1 .. Len(t) :
                SubSeq(Reverse(u), 1, Len(t))[i] = Reverse(u)[i]
      BY <1>1, <1>2, <1>4
    <2>. QED
      BY <1>5, <2>2, <2>3, SeqEqual
  <1>7. IsSuffix(t, u)
    BY <1>1, <1>2, <1>3, <1>4, <1>6 DEF IsSuffix, IsPrefix
  <1>. QED
    BY <1>7 DEF u

LEMMA ConcatRegroups ==
    ASSUME NEW s \in Seq(Byte), NEW t \in Seq(Byte), NEW u \in Seq(Byte)
    PROVE  (s \o t) \o u = s \o (t \o u)
  BY ConcatAssociative

LEMMA FirstLineIsLineEnd ==
    ASSUME NEW v \in VMType, LineEnds(v) # {}
    PROVE  /\ FirstLine(v) \in LineEnds(v)
           /\ \A j \in LineEnds(v) : FirstLine(v) <= j
  <1>1. LineEnds(v) \subseteq Nat
    BY DEF LineEnds, VMType
  <1>2. PICK k \in LineEnds(v) :
            \A j \in LineEnds(v) : ~(<<j, k>> \in OpToRel(<, Nat))
    BY <1>1, NatLessThanWellFounded, WFMin
  <1>3. \A j \in LineEnds(v) : ~(j < k)
    BY <1>1, <1>2 DEF OpToRel
  <1>4. \A j \in LineEnds(v) : k <= j
    BY <1>1, <1>3
  <1>. QED
    BY <1>4 DEF FirstLine

-------------------------------------------------------------------------------
(* What next_operation() makes of a client whose bytes are r.              *)
Answers(r) ==
    \E last \in Len(echoed) + 1 .. Len(r) :
        /\ r[last] = NL
        /\ \A i \in Len(echoed) + 1 .. last - 1 : r[i] # NL
        /\ echoed' = SubSeq(r, 1, last)

Leaving(v) == v.state \in {"TIMEOUT", "SIGNALLED", "TERMINATE", "FINISHED", "ILLEGAL"}

Serves(r) ==
    /\ base'.socket = "open"
    /\ \/ vm'.state \in Serving /\ (echoed' = echoed \/ Answers(r))
       \/ vm'.state = "TERMINATE" /\ echoed' = echoed

Leaves(n) ==
    /\ echoed' = echoed
    /\ \/ base'.socket = "closed"
       \/ base'.socket = n.socket /\ vm'.state = "TERMINATE"

LEMMA FarewellKeeps ==
    ASSUME NEW v, NEW n, NEW r, NEW m \in Message \ {"line"},
           Alive(v, n, echoed, r), SayFarewell(v, n, m)
    PROVE  /\ Kept(vm', base', echoed', r)
           /\ vm'.state = "TERMINATE" /\ base'.socket = n.socket /\ echoed' = echoed
  <1>1. /\ v \in VMType /\ v.life = "alive" /\ n \in BaseType
        /\ n.writes \in [Message -> Nat] /\ "line" \in Message
    BY DEF Alive, BaseType, Message
  <1>2. /\ vm' \in VMType /\ vm'.life = "alive" /\ vm'.state = "TERMINATE"
        /\ vm'.echo = v.echo /\ echoed' = echoed
    BY <1>1 DEF SayFarewell, VMType, State
  <1>3. /\ base' \in BaseType /\ base'.socket = n.socket
        /\ base'.writes = [n.writes EXCEPT ![m] = @ + 1]
    BY <1>1, WriteKeeps DEF SayFarewell
  <1>4. base'.writes["line"] = n.writes["line"]
    BY <1>1, <1>3
  <1>. QED
    BY <1>2, <1>3, <1>4 DEF Kept, Alive, Holds, LineIsOwned, InFlight, Serving

LEMMA FinishKeeps ==
    ASSUME NEW v, NEW n, NEW r, Alive(v, n, echoed, r), Finish(v, n)
    PROVE  /\ Kept(vm', base', echoed', r)
           /\ base'.socket = "closed" /\ echoed' = echoed
  <1>1. v \in VMType /\ v.life = "alive" /\ n \in BaseType /\ v.state # "INIT"
    BY DEF Alive
  <1>2. /\ vm' \in VMType /\ vm'.life = "alive" /\ vm'.state = "FINISHED"
        /\ vm'.echo = v.echo /\ echoed' = echoed
    BY <1>1 DEF Finish, VMType, State
  <1>3. /\ base' \in BaseType /\ base'.socket = "closed"
        /\ base'.writes = n.writes
    BY <1>1, CloseKeeps DEF Finish
  <1>. QED
    BY <1>2, <1>3 DEF Kept, Alive, Holds, LineIsOwned, InFlight, Serving

LEMMA ReadMoreKeeps ==
    ASSUME NEW v, NEW n, NEW r, Ready(v, n, echoed, r),
           v.state \in Serving, ReadMore(v, n)
    PROVE  /\ Kept(vm', base', echoed', r)
           /\ Serves(r)
  <1>1. /\ v \in VMType /\ v.life = "alive" /\ n \in BaseType
        /\ n.reads = 0 /\ n.writes = NoWrites /\ n.socket = "open"
    BY DEF Ready, Alive
  <1>2. /\ vm' \in VMType /\ vm'.life = "alive" /\ vm'.state = "READ_INPUT"
        /\ vm'.echo = v.echo /\ vm'.buffer = v.buffer /\ echoed' = echoed
    <2>1. vm' = [v EXCEPT !.state = "READ_INPUT"] /\ echoed' = echoed
      BY DEF ReadMore
    <2>2. "READ_INPUT" \in State
      BY DEF State, Serving
    <2>. QED
      BY <1>1, <2>1, <2>2 DEF VMType
  <1>3. /\ base' \in BaseType /\ base'.socket = "open"
        /\ base'.reads = 1 /\ base'.writes = NoWrites
    BY <1>1, ReadKeeps, BaseAssumption DEF ReadMore
  <1>4. ~(base'.writes["line"] > 0)
    BY <1>3 DEF NoWrites, Message
  <1>. QED
    BY <1>2, <1>3, <1>4
       DEF Ready, Kept, Alive, Holds, LineIsOwned, InFlight, Serving, Serves

LEMMA EchoKeeps ==
    ASSUME NEW v, NEW n, NEW r, Ready(v, n, echoed, r),
           v.state \in Serving, LineEnds(v) # {}, EchoLine(v, n)
    PROVE  /\ Kept(vm', base', echoed', r)
           /\ Serves(r)
  <1>. DEFINE pos == FirstLine(v)
              line == SubSeq(v.buffer, 1, pos)
              rest == Drop(v.buffer, pos)
              last == Len(echoed) + pos
  <1>1. /\ v \in VMType /\ v.life = "alive" /\ n \in BaseType
        /\ n.reads = 0 /\ n.writes = NoWrites /\ n.socket = "open"
        /\ v.buffer \in Seq(Byte) /\ echoed \in Seq(Byte) /\ r \in Seq(Byte)
        /\ r = echoed \o v.buffer
    BY DEF Ready, Alive, VMType, Holds
  <1>2. /\ pos \in 1 .. Len(v.buffer) /\ v.buffer[pos] = NL
        /\ \A j \in 1 .. Len(v.buffer) : v.buffer[j] = NL => pos <= j
    BY <1>1, FirstLineIsLineEnd DEF LineEnds
  <1>3. Len(v.buffer) \in Nat /\ Len(echoed) \in Nat
    BY <1>1, LenProperties
  <1>4. /\ vm' = [v EXCEPT !.state = "OUTPUT_MSG", !.echo = line, !.buffer = rest]
        /\ Write(n, "line") /\ echoed' = echoed \o line
    BY DEF EchoLine
  <1>. HIDE DEF pos
  <1>5. /\ line \in Seq(Byte) /\ Len(line) = pos /\ rest \in Seq(Byte)
        /\ line \o rest = v.buffer
    <2>1. /\ \A i \in 1 .. pos : v.buffer[i] \in Byte
          /\ \A i \in pos + 1 .. Len(v.buffer) : v.buffer[i] \in Byte
      BY <1>1, <1>2, <1>3, ElementOfSeq
    <2>2. line \in Seq(Byte) /\ Len(line) = pos
      BY <1>2, <1>3, <2>1, SubSeqProperties
    <2>3. rest \in Seq(Byte)
      BY <1>2, <1>3, <2>1, SubSeqProperties DEF Drop
    <2>4. line \o rest = SubSeq(v.buffer, 1, Len(v.buffer))
      BY <1>1, <1>2, <1>3, ConcatAdjacentSubSeq DEF Drop
    <2>. QED
      BY <1>1, <2>2, <2>3, <2>4, SubSeqFull
  <1>. HIDE DEF line, rest
  <1>6. line # NoLine
    BY <1>2, <1>3, <1>5 DEF NoLine
  <1>7. echoed' \in Seq(Byte) /\ r = echoed' \o rest /\ IsSuffix(line, echoed')
    <2>1. echoed' = echoed \o line /\ r = echoed \o (line \o rest)
      BY <1>1, <1>4, <1>5
    <2>2. echoed \o line \in Seq(Byte)
      BY <1>1, <1>5, ConcatProperties
    <2>3. (echoed \o line) \o rest = echoed \o (line \o rest)
      BY ZenonT(40), <1>1, <1>5, ConcatRegroups
    <2>4. IsSuffix(line, echoed \o line)
      BY <1>1, <1>5, ConcatHasSuffix
    <2>. QED
      BY <2>1, <2>2, <2>3, <2>4
  <1>8. /\ vm' \in VMType /\ vm'.life = "alive" /\ vm'.state = "OUTPUT_MSG"
        /\ vm'.echo = line /\ vm'.buffer = rest
    BY <1>1, <1>4, <1>5 DEF VMType, State, Serving
  <1>9. /\ base' \in BaseType /\ base'.socket = "open"
        /\ base'.reads = 0 /\ base'.writes = OneWrite("line")
    BY <1>1, <1>4, WriteKeeps DEF Message
  <1>10. base'.writes["line"] = 1
    BY <1>9 DEF OneWrite, Message
  <1>11. Kept(vm', base', echoed', r)
    BY <1>1, <1>6, <1>7, <1>8, <1>9, <1>10
       DEF Kept, Alive, Holds, LineIsOwned, InFlight, Serving
  <1>12. /\ Len(r) = Len(echoed) + Len(v.buffer)
         /\ \A i \in 1 .. Len(r) :
               r[i] = IF i <= Len(echoed) THEN echoed[i] ELSE v.buffer[i - Len(echoed)]
    BY <1>1, ConcatProperties
  <1>13. last \in Len(echoed) + 1 .. Len(r) /\ last \in Nat
         /\ last - Len(echoed) = pos /\ last > Len(echoed)
    BY <1>2, <1>3, <1>12
  <1>14. Len(echoed') = last
    BY <1>1, <1>4, <1>5, ConcatProperties
  <1>. HIDE DEF last
  <1>15. r[last] = NL
    BY <1>2, <1>3, <1>12, <1>13
  <1>16. ASSUME NEW i \in Len(echoed) + 1 .. last - 1 PROVE r[i] # NL
    <2>1. i \in 1 .. Len(r) /\ ~(i <= Len(echoed))
          /\ i - Len(echoed) \in 1 .. Len(v.buffer) /\ i - Len(echoed) < pos
      BY <1>2, <1>3, <1>12, <1>13
    <2>2. v.buffer[i - Len(echoed)] # NL
      BY <1>2, <1>3, <2>1
    <2>. QED
      BY <1>12, <2>1, <2>2
  <1>17. echoed' = SubSeq(r, 1, last)
    <2>1. last \in 1 .. Len(echoed') /\ 1 \in 1 .. Len(echoed')
      BY <1>3, <1>13, <1>14
    <2>2. SubSeq(echoed' \o rest, 1, last) = SubSeq(echoed', 1, last)
      BY <1>5, <1>7, <2>1, SubSeqOfConcat1
    <2>. QED
      BY <1>7, <1>14, <2>2, SubSeqFull
  <1>18. Answers(r)
    BY <1>13, <1>15, <1>16, <1>17 DEF Answers
  <1>. QED
    BY <1>8, <1>9, <1>11, <1>18 DEF Serves, Serving

LEMMA NextOperationKeeps ==
    ASSUME NEW v, NEW n, NEW r, Ready(v, n, echoed, r), NextOperation(v, n)
    PROVE  /\ Kept(vm', base', echoed', r)
           /\ v.state = "NEW" => /\ vm'.state = "HELLO_SENT"
                                 /\ base'.socket = "open" /\ echoed' = echoed
           /\ v.state \in Serving => Serves(r)
           /\ Leaving(v) => Leaves(n)
  <1>1. /\ v \in VMType /\ v.state # "INIT" /\ v.life = "alive"
        /\ Alive(v, n, echoed, r) /\ n \in BaseType
    BY DEF Ready, Alive
  <1>2. CASE v.state = "NEW"
    <2>1. /\ vm' = [v EXCEPT !.state = "HELLO_SENT"]
          /\ Write(n, "welcome") /\ echoed' = echoed
      BY <1>2 DEF NextOperation
    <2>2. /\ vm' \in VMType /\ vm'.life = "alive" /\ vm'.state = "HELLO_SENT"
          /\ vm'.buffer = v.buffer /\ vm'.echo = v.echo
      BY <1>1, <2>1 DEF VMType, State, Serving
    <2>3. n.reads = 0 /\ n.writes = NoWrites /\ n.socket = "open"
      BY <1>2 DEF Ready
    <2>4. /\ base' \in BaseType /\ base'.socket = "open"
          /\ base'.reads = 0 /\ base'.writes = OneWrite("welcome")
      BY <1>1, <2>1, <2>3, WriteKeeps DEF Message
    <2>5. ~(base'.writes["line"] > 0)
      BY <2>4 DEF OneWrite, Message
    <2>6. Kept(vm', base', echoed', r)
      BY <1>1, <1>2, <2>1, <2>2, <2>4, <2>5
         DEF Kept, Alive, Holds, LineIsOwned, InFlight, Serving
    <2>. QED
      BY <1>2, <2>1, <2>2, <2>4, <2>6 DEF Serving, Leaving
  <1>3. CASE v.state = "HELLO_SENT"
    <2>1. v.buffer = <<>>
      BY <1>1, <1>3 DEF Alive, Holds
    <2>2. ReadMore(v, n)
      BY <1>3, <2>1 DEF NextOperation
    <2>. QED
      BY <1>3, <2>2, ReadMoreKeeps DEF Serving, Leaving
  <1>4. CASE v.state \in {"READ_INPUT", "OUTPUT_MSG"}
    <2>1. Process(v, n)
      BY <1>4 DEF NextOperation
    <2>2. v.state \in Serving /\ n.socket = "open"
      BY <1>4 DEF Ready, Serving
    <2>3. CASE \E m \in {"thanks", "toolong"} : SayFarewell(v, n, m)
      BY <1>1, <1>4, <2>2, <2>3, FarewellKeeps DEF Message, Serves, Leaving
    <2>4. CASE LineEnds(v) # {} /\ EchoLine(v, n)
      BY <1>4, <2>2, <2>4, EchoKeeps DEF Leaving
    <2>5. CASE ReadMore(v, n)
      BY <1>4, <2>2, <2>5, ReadMoreKeeps DEF Leaving
    <2>. QED
      BY <2>1, <2>3, <2>4, <2>5 DEF Process
  <1>5. CASE v.state \in {"TIMEOUT", "SIGNALLED"}
    <2>1. PICK m \in Message \ {"line"} : SayFarewell(v, n, m)
      BY <1>5 DEF NextOperation, Message
    <2>. QED
      BY <1>1, <1>5, <2>1, FarewellKeeps DEF Leaves, Serving
  <1>6. CASE v.state \notin {"NEW", "HELLO_SENT", "READ_INPUT", "OUTPUT_MSG",
                             "TIMEOUT", "SIGNALLED"}
    <2>1. Finish(v, n)
      BY <1>6 DEF NextOperation
    <2>. QED
      BY <1>1, <1>6, <2>1, FinishKeeps DEF Leaves, Serving
  <1>. QED
    BY <1>2, <1>3, <1>4, <1>5, <1>6

-------------------------------------------------------------------------------
(* What is heard in a step comes behind what was heard before. *)
Heard ==
    /\ Len(received) <= Len(received')
    /\ SubSeq(received', 1, Len(received)) = received

(* next_operation() is called with v and n.  The script goes back to no    *)
(* earlier state, and only start() makes it new.                           *)
Entered(v, n) ==
    /\ Ready(v, n, echoed, received')
    /\ NextOperation(v, n)
    /\ Heard
    /\ n.socket = base.socket
    /\ \/ /\ vm.state = "INIT" /\ base.socket = "open"
          /\ v.state = "NEW" /\ received' = received
       \/ vm.state # "INIT" /\ (Leaving(v) \/ v.state = vm.state)

LEMMA SameHeard ==
    ASSUME received \in Seq(Byte), received' = received
    PROVE  Heard
  BY LenProperties, SubSeqFull DEF Heard

(* An error, a timeout or a signal, whatever the script was doing. *)
LEMMA InterruptEnters ==
    ASSUME Kept(vm, base, echoed, received), received' = received,
           NEW s \in {"TIMEOUT", "SIGNALLED", "TERMINATE"},
           NEW n \in BaseType, n.socket = base.socket,
           LineIsOwned(vm, n, echoed),
           NextOperation([vm EXCEPT !.state = s], n)
    PROVE  \E v : Entered(v, n)
  <1>. DEFINE v == [vm EXCEPT !.state = s]
  <1>1. /\ vm \in VMType /\ vm.life = "alive" /\ vm.state # "INIT"
        /\ Holds(vm, echoed, received)
    BY DEF Kept, Alive
  <1>2. /\ v \in VMType /\ v.life = "alive" /\ v.state = s /\ v.echo = vm.echo
    <2>1. s \in State
      BY DEF State
    <2>. QED
      BY <1>1, <2>1 DEF VMType
  <1>3. NextOperation(v, n)
    OBVIOUS
  <1>. HIDE DEF v
  <1>4. Ready(v, n, echoed, received')
    BY <1>1, <1>2 DEF Ready, Alive, Holds, LineIsOwned, Serving
  <1>5. Heard
    BY <1>1, SameHeard DEF Holds
  <1>6. Entered(v, n)
    BY <1>1, <1>2, <1>3, <1>4, <1>5 DEF Entered, Leaving
  <1>. QED
    BY <1>6

LEMMA StartEnters ==
    ASSUME LuaInv, Start(FALSE)
    PROVE  \E v, n : Entered(v, n)
  <1>. DEFINE v == NewConnection(vm)
              n == [base EXCEPT !.listed = TRUE]
  <1>1. /\ vm.life = "alive" /\ vm.state = "INIT" /\ base.socket = "open"
        /\ NextOperation(v, n) /\ received' = received
    BY DEF Start
  <1>2. /\ vm \in VMType /\ base \in BaseType /\ Quiet(base)
        /\ vm.buffer = <<>> /\ received = <<>> /\ echoed = <<>>
        /\ received \in Seq(Byte) /\ echoed \in Seq(Byte)
    BY <1>1 DEF LuaInv, Idle, Kept, Alive
  <1>3. base.reads = 0 /\ base.writes = NoWrites
    BY <1>2 DEF Quiet, Busy, BaseType, NoWrites
  <1>4. /\ v \in VMType /\ v.life = "alive" /\ v.state = "NEW"
        /\ v.buffer = vm.buffer
    <2>1. v = [vm EXCEPT !.state = "NEW"] /\ "NEW" \in State
      BY DEF NewConnection, State
    <2>. QED
      BY <1>1, <1>2, <2>1 DEF VMType
  <1>5. /\ n \in BaseType /\ n.reads = base.reads /\ n.writes = base.writes
        /\ n.socket = base.socket
    BY <1>2 DEF BaseType
  <1>. HIDE DEF v, n
  <1>6. ~(n.writes["line"] > 0)
    BY <1>3, <1>5 DEF NoWrites, Message
  <1>7. received = echoed \o v.buffer
    BY <1>2, <1>4, ConcatEmptySeq
  <1>8. Ready(v, n, echoed, received')
    BY <1>1, <1>2, <1>3, <1>4, <1>5, <1>6, <1>7 DEF Ready, Alive, Holds, LineIsOwned
  <1>9. Heard
    BY <1>1, <1>2, SameHeard
  <1>10. Entered(v, n)
    BY <1>1, <1>4, <1>5, <1>8, <1>9 DEF Entered
  <1>. QED
    BY <1>10

(* Taking a read off the strand. *)
LEMMA ReadTaken ==
    ASSUME base \in BaseType, base.reads > 0, NEW n \in Cancelled(ReadDone(base))
    PROVE  /\ n \in BaseType /\ n.reads = base.reads - 1
           /\ n.writes = base.writes /\ n.socket = base.socket
  <1>1. base.reads - 1 \in Nat
    BY DEF BaseType
  <1>2. ReadDone(base) = [base EXCEPT !.reads = base.reads - 1]
    BY DEF ReadDone
  <1>3. /\ ReadDone(base) \in BaseType /\ ReadDone(base).reads = base.reads - 1
        /\ ReadDone(base).writes = base.writes
        /\ ReadDone(base).socket = base.socket
    BY <1>1, <1>2 DEF BaseType
  <1>. QED
    BY <1>3, CancelledKeeps

LEMMA ReadEnters ==
    ASSUME Kept(vm, base, echoed, received), HandleRead
    PROVE  \E v, n : Entered(v, n)
  <1>1. PICK len \in 1 .. base.readLen :
        \E data \in [1..len -> Byte], n \in Cancelled(ReadDone(base)) :
           /\ received' = received \o data
           /\ NextOperation(NetworkInput(vm, data), n)
    BY DEF HandleRead
  <1>2. PICK data \in [1..len -> Byte], n \in Cancelled(ReadDone(base)) :
           /\ received' = received \o data
           /\ NextOperation(NetworkInput(vm, data), n)
    BY <1>1
  <1>. DEFINE v == NetworkInput(vm, data)
  <1>3. /\ vm \in VMType /\ vm.life = "alive" /\ vm.state # "INIT"
        /\ base \in BaseType /\ Holds(vm, echoed, received)
        /\ LineIsOwned(vm, base, echoed) /\ InFlight(vm, base)
        /\ base.reads > 0 /\ vm.state # "NEW"
    BY DEF Kept, Alive, HandleRead
  <1>4. len \in Nat /\ data \in Seq(Byte)
    <2>1. len \in Nat
      BY <1>3, BaseAssumption DEF BaseType
    <2>. QED
      BY <2>1, IsASeq
  <1>5. /\ n \in BaseType /\ n.reads = base.reads - 1
        /\ n.writes = base.writes /\ n.socket = base.socket
    BY <1>3, ReadTaken
  <1>6. /\ vm.buffer \in Seq(Byte) /\ received \in Seq(Byte) /\ echoed \in Seq(Byte)
        /\ vm.buffer \o data \in Seq(Byte) /\ received \o data \in Seq(Byte)
    BY <1>3, <1>4, ConcatProperties DEF VMType, Holds
  <1>7. v = [vm EXCEPT !.buffer = vm.buffer \o data]
    BY DEF NetworkInput
  <1>8. NextOperation(v, n)
    BY <1>2
  <1>. HIDE DEF v
  <1>9. /\ v \in VMType /\ v.life = "alive" /\ v.state = vm.state
        /\ v.echo = vm.echo /\ v.buffer = vm.buffer \o data
    BY <1>3, <1>6, <1>7 DEF VMType
  <1>10. Heard
    <2>1. Len(received) \in Nat /\ Len(data) \in Nat
          /\ Len(received \o data) = Len(received) + Len(data)
      BY <1>4, <1>6, LenProperties, ConcatProperties
    <2>2. SubSeq(received \o data, 1, Len(received)) = received
      <3>1. CASE Len(received) = 0
        BY <1>6, <2>1, <3>1, SubSeqEmpty, EmptySeq
      <3>2. CASE Len(received) # 0
        <4>1. 1 \in 1 .. Len(received) /\ Len(received) \in 1 .. Len(received)
          BY <2>1, <3>2
        <4>2. SubSeq(received \o data, 1, Len(received))
                = SubSeq(received, 1, Len(received))
          BY <1>4, <1>6, <4>1, SubSeqOfConcat1
        <4>. QED
          BY <1>6, <4>2, SubSeqFull
      <3>. QED
        BY <3>1, <3>2
    <2>. QED
      BY <1>2, <2>1, <2>2 DEF Heard
  <1>11. vm.state \notin {"NEW", "HELLO_SENT", "OUTPUT_MSG"}
    BY <1>3 DEF InFlight
  <1>12. vm.state \in Serving => received \o data = echoed \o v.buffer
    <2>1. ASSUME vm.state \in Serving
          PROVE  received \o data = echoed \o (vm.buffer \o data)
      <3>1. received = echoed \o vm.buffer
        BY <1>3, <2>1 DEF Holds
      <3>2. (echoed \o vm.buffer) \o data = echoed \o (vm.buffer \o data)
        BY ZenonT(40), <1>4, <1>6, ConcatRegroups
      <3>. QED
        BY <3>1, <3>2
    <2>. QED
      BY <1>9, <2>1
  <1>13. Ready(v, n, echoed, received')
    <2>1. Holds(v, echoed, received')
      BY <1>2, <1>6, <1>9, <1>11, <1>12 DEF Holds, Serving
    <2>2. LineIsOwned(v, n, echoed)
      BY <1>3, <1>5, <1>9 DEF LineIsOwned
    <2>3. vm.state \in Serving => n.reads = 0 /\ n.writes = NoWrites /\ n.socket = "open"
      BY <1>3, <1>5, <1>11 DEF InFlight, Serving
    <2>. QED
      BY <1>3, <1>5, <1>9, <1>11, <2>1, <2>2, <2>3 DEF Ready, Alive, Serving
  <1>14. vm.state \in Serving \/ Leaving(v)
    BY <1>3, <1>9, <1>11 DEF VMType, State, Serving, Leaving
  <1>15. Entered(v, n)
    BY <1>3, <1>5, <1>8, <1>9, <1>10, <1>13, <1>14 DEF Entered
  <1>. QED
    BY <1>15

LEMMA WriteEnters ==
    ASSUME Kept(vm, base, echoed, received), NEW m \in Message, HandleWrite(m),
           received' = received
    PROVE  \E v, n : Entered(v, n)
  <1>1. PICK n \in Cancelled(WriteDone(base, m)) :
            \E v \in {vm, ErrorOccured(vm)} : NextOperation(v, n)
    BY DEF HandleWrite
  <1>2. /\ vm \in VMType /\ vm.life = "alive" /\ vm.state # "INIT"
        /\ base \in BaseType /\ Holds(vm, echoed, received)
        /\ LineIsOwned(vm, base, echoed) /\ InFlight(vm, base)
        /\ base.writes[m] > 0 /\ vm.state \notin {"NEW", "TIMEOUT", "SIGNALLED"}
    BY DEF Kept, Alive, HandleWrite
  <1>. DEFINE fewer == [base.writes EXCEPT ![m] = @ - 1]
  <1>3. base.writes \in [Message -> Nat] /\ "line" \in Message
    BY <1>2 DEF BaseType, Message
  <1>4. fewer \in [Message -> Nat]
    BY <1>2, <1>3
  <1>5. \A w \in Message : base.writes = OneWrite(w) => fewer = NoWrites
    BY <1>2, <1>3 DEF OneWrite, NoWrites
  <1>6. base.writes # NoWrites
    BY <1>2 DEF NoWrites
  <1>7. fewer["line"] > 0 => fewer["line"] = base.writes["line"]
    BY <1>2, <1>3 DEF LineIsOwned
  <1>8. WriteDone(base, m) = [base EXCEPT !.writes = fewer]
    BY <1>2 DEF WriteDone, BaseType
  <1>. HIDE DEF fewer
  <1>9. /\ WriteDone(base, m) \in BaseType
        /\ WriteDone(base, m).reads = base.reads
        /\ WriteDone(base, m).socket = base.socket
        /\ WriteDone(base, m).writes = fewer
    BY <1>2, <1>4, <1>8 DEF BaseType
  <1>10. /\ n \in BaseType /\ n.reads = base.reads
         /\ n.socket = base.socket /\ n.writes = fewer
    BY <1>9, CancelledKeeps
  <1>11. LineIsOwned(vm, n, echoed)
    BY <1>2, <1>3, <1>4, <1>7, <1>10 DEF LineIsOwned
  <1>12. CASE NextOperation(ErrorOccured(vm), n)
    BY <1>10, <1>11, <1>12, InterruptEnters DEF ErrorOccured
  <1>13. CASE NextOperation(vm, n)
    <2>1. vm.state \in Serving => n.reads = 0 /\ n.writes = NoWrites /\ n.socket = "open"
      BY <1>2, <1>5, <1>6, <1>10 DEF InFlight, Serving, Message
    <2>2. Ready(vm, n, echoed, received')
      BY <1>2, <1>10, <1>11, <2>1 DEF Ready, Alive
    <2>3. Heard
      BY <1>2, SameHeard DEF Holds
    <2>4. Entered(vm, n)
      BY <1>2, <1>10, <1>13, <2>2, <2>3 DEF Entered
    <2>. QED
      BY <2>4
  <1>. QED
    BY <1>1, <1>12, <1>13

(* Every handler on the strand, and nothing else, calls next_operation().  *)
LEMMA EveryHandlerEnters ==
    ASSUME LuaInv, Next
    PROVE  \/ CreateVM \/ Start(TRUE) \/ Stopped \/ DestroyVM
           \/ \E v, n : Entered(v, n)
  <1>1. base \in BaseType
    BY DEF LuaInv, Idle, Kept, Alive
  <1>2. Idle => ~Busy(base) /\ ~base.armed /\ ~(base.late > 0) /\ ~base.signal
    BY <1>1 DEF Idle, Quiet
  <1>3. CASE Start(FALSE)
    BY <1>3, StartEnters
  <1>4. CASE HandleRead
    <2>1. Kept(vm, base, echoed, received)
      BY <1>2, <1>4 DEF LuaInv, HandleRead, Busy
    <2>. QED
      BY <1>4, <2>1, ReadEnters
  <1>5. CASE HandleReadError
    <2>1. Kept(vm, base, echoed, received) /\ base.reads > 0 /\ received' = received
      BY <1>2, <1>5 DEF LuaInv, HandleReadError, Busy
    <2>2. PICK n \in Cancelled(ReadDone(base)) : NextOperation(ErrorOccured(vm), n)
      BY <1>5 DEF HandleReadError
    <2>3. n \in BaseType /\ n.writes = base.writes /\ n.socket = base.socket
      BY <1>1, <2>1, ReadTaken
    <2>4. LineIsOwned(vm, n, echoed)
      BY <2>1, <2>3 DEF Kept, Alive, LineIsOwned
    <2>. QED
      BY <2>1, <2>2, <2>3, <2>4, InterruptEnters DEF ErrorOccured
  <1>6. ASSUME NEW m \in Message, HandleWrite(m)
        PROVE  \E v, n : Entered(v, n)
    <2>1. Kept(vm, base, echoed, received) /\ received' = received
      BY <1>2, <1>6 DEF LuaInv, HandleWrite, Busy
    <2>. QED
      BY <1>6, <2>1, WriteEnters
  <1>7. ASSUME NEW n, NextOperation(TimeoutOccured(vm), n), received' = received,
               \/ base.armed /\ n = Expired(base)
               \/ base.late > 0 /\ n = LateExpired(base)
        PROVE  \E v : Entered(v, n)
    <2>1. Kept(vm, base, echoed, received)
      BY <1>2, <1>7 DEF LuaInv
    <2>2. n \in BaseType /\ n.writes = base.writes /\ n.socket = base.socket
      <3>1. CASE base.armed /\ n = Expired(base)
        BY <1>1, <3>1 DEF Expired, BaseType
      <3>2. CASE base.late > 0 /\ n = LateExpired(base)
        <4>1. base.late - 1 \in 0..MaxLate
          BY <1>1, <3>2, BaseAssumption DEF BaseType
        <4>2. n = [base EXCEPT !.late = base.late - 1]
          BY <3>2 DEF LateExpired
        <4>. QED
          BY <1>1, <4>1, <4>2 DEF BaseType
      <3>. QED
        BY <1>7, <3>1, <3>2
    <2>3. LineIsOwned(vm, n, echoed)
      BY <2>1, <2>2 DEF Kept, Alive, LineIsOwned
    <2>. QED
      BY <1>7, <2>1, <2>2, <2>3, InterruptEnters DEF TimeoutOccured
  <1>8. CASE HandleTimeout
    BY <1>7, <1>8 DEF HandleTimeout
  <1>9. CASE HandleSignal
    <2>1. Kept(vm, base, echoed, received) /\ received' = received
          /\ NextOperation(SignalOccured(vm), SignalTaken(base))
      BY <1>2, <1>9 DEF LuaInv, HandleSignal
    <2>2. /\ SignalTaken(base) \in BaseType
          /\ SignalTaken(base).writes = base.writes
          /\ SignalTaken(base).socket = base.socket
      BY <1>1 DEF SignalTaken, BaseType
    <2>3. LineIsOwned(vm, SignalTaken(base), echoed)
      BY <2>1, <2>2 DEF Kept, Alive, LineIsOwned
    <2>. QED
      BY <2>1, <2>2, <2>3, InterruptEnters DEF SignalOccured
  <1>. QED
    BY <1>3, <1>4, <1>5, <1>6, <1>8, <1>9 DEF Next

-------------------------------------------------------------------------------
LEMMA LuaInit == Init => LuaInv
  <1>. SUFFICES ASSUME Init PROVE LuaInv
    OBVIOUS
  <1>1. base = Accepted /\ vm = NoVM /\ received = <<>> /\ echoed = <<>>
    BY DEF Init
  <1>2. <<>> \in Seq(Byte)
    BY EmptySeq
  <1>3. vm \in VMType /\ vm.state = "INIT" /\ vm.buffer = <<>>
    BY <1>1, <1>2 DEF NoVM, NoLine, VMType, State
  <1>4. NoWrites \in [Message -> Nat]
    BY DEF NoWrites
  <1>5. base \in BaseType /\ Quiet(base) /\ ~base.listed
    BY <1>1, <1>4, BaseAssumption
       DEF Accepted, BaseType, Quiet, Busy, NoWrites
  <1>. QED
    BY <1>1, <1>2, <1>3, <1>5 DEF LuaInv, Idle

LEMMA LuaStep == LuaInv /\ [Next]_vars => LuaInv'
  <1>. SUFFICES ASSUME LuaInv, [Next]_vars PROVE LuaInv'
    OBVIOUS
  <1>1. CASE CreateVM
    <2>1. /\ Idle /\ vm.state = "INIT" /\ vm.buffer = <<>>
          /\ received = <<>> /\ echoed = <<>>
      BY <1>1 DEF LuaInv, Kept, Alive, CreateVM, Idle
    <2>2. PICK l \in {"alive", "failed"} : vm' = [vm EXCEPT !.life = l]
      BY <1>1 DEF CreateVM
    <2>3. /\ vm' \in VMType /\ vm'.state = vm.state /\ vm'.buffer = vm.buffer
      BY <2>1, <2>2 DEF Idle, VMType
    <2>4. UNCHANGED <<base, received, echoed>>
      BY <1>1 DEF CreateVM
    <2>. QED
      BY <2>1, <2>3, <2>4 DEF LuaInv, Idle, Quiet, Busy
  <1>2. CASE Start(TRUE)
    <2>1. Idle /\ vm.state = "INIT" /\ vm.life = "alive"
      BY <1>2 DEF LuaInv, Kept, Alive, Start
    <2>2. base' = [base EXCEPT !.socket = "closed"]
          /\ UNCHANGED <<vm, received, echoed>>
      BY <1>2 DEF Start
    <2>3. base' \in BaseType /\ Quiet(base') /\ ~base'.listed
      BY <2>1, <2>2 DEF Idle, BaseType, Quiet, Busy
    <2>. QED
      BY <2>1, <2>2, <2>3 DEF LuaInv, Idle
  <1>3. CASE Stopped
    <2>1. base.listed /\ UNCHANGED <<vm, received, echoed>>
          /\ base' = [base EXCEPT !.listed = FALSE, !.signal = TRUE]
      BY <1>3 DEF Stopped, Signal
    <2>2. Kept(vm, base, echoed, received)
      BY <2>1 DEF LuaInv, Idle
    <2>3. /\ base' \in BaseType /\ base'.reads = base.reads
          /\ base'.writes = base.writes /\ base'.socket = base.socket
      BY <2>1, <2>2 DEF Kept, Alive, BaseType
    <2>. QED
      BY <2>1, <2>2, <2>3 DEF LuaInv, Kept, Alive, LineIsOwned, InFlight
  <1>4. CASE DestroyVM
    <2>1. /\ base.socket = "closed" /\ ~base.listed /\ Quiet(base)
          /\ vm' = [vm EXCEPT !.life = "destroyed"]
          /\ UNCHANGED <<base, received, echoed>>
      BY <1>4 DEF DestroyVM
    <2>2. /\ vm \in VMType /\ base \in BaseType
          /\ received \in Seq(Byte) /\ echoed \in Seq(Byte)
      BY DEF LuaInv, Idle, Kept, Alive, Holds
    <2>3. /\ vm' \in VMType /\ vm'.life = "destroyed"
          /\ vm'.state = vm.state /\ vm'.buffer = vm.buffer
      BY <2>1, <2>2 DEF VMType
    <2>4. Quiet(base')
      BY <2>1
    <2>5. \/ vm.state # "NEW"
          \/ vm.state = "INIT" /\ vm.buffer = <<>> /\ received = <<>> /\ echoed = <<>>
      BY DEF LuaInv, Idle, Kept
    <2>6. Idle'
      <3>1. vm' \in VMType /\ base' \in BaseType /\ Quiet(base') /\ ~base'.listed
            /\ received' \in Seq(Byte) /\ echoed' \in Seq(Byte)
        BY <2>1, <2>2, <2>3, <2>4
      <3>. QED
        BY <2>1, <2>3, <2>5, <3>1 DEF Idle
    <2>. QED
      BY <2>6 DEF LuaInv
  <1>5. ASSUME NEW v, NEW n, Entered(v, n) PROVE LuaInv'
    <2>1. Kept(vm', base', echoed', received')
      BY <1>5, NextOperationKeeps DEF Entered
    <2>. QED
      BY <2>1 DEF LuaInv, Kept, Alive, Holds, LineIsOwned, InFlight
  <1>6. CASE UNCHANGED vars
    BY <1>6 DEF vars, LuaInv, Idle, Quiet, Busy, Kept, Alive, Holds,
                LineIsOwned, InFlight
  <1>. QED
    BY <1>1, <1>2, <1>3, <1>4, <1>5, <1>6, EveryHandlerEnters

THEOREM LuaInvariant == Spec => []LuaInv
  BY LuaInit, LuaStep, PTL DEF Spec

(* The line under a write is the machine's until the write is done, however *)
(* reads, timers and the shutdown interleave with it.                       *)
THEOREM LineOutlivesWrite == Spec => []MessageOutlivesWrite
  <1>1. LuaInv => MessageOutlivesWrite
    <2>1. "line" \in Message
      BY DEF Message
    <2>2. Idle => ~(base.writes["line"] > 0)
      BY <2>1 DEF Idle, Quiet, Busy
    <2>3. Kept(vm, base, echoed, received) => MessageOutlivesWrite
      BY DEF Kept, Alive, LineIsOwned, MessageOutlivesWrite
    <2>. QED
      BY <2>2, <2>3 DEF LuaInv, MessageOutlivesWrite
  <1>. QED
    BY <1>1, LuaInvariant, PTL

-------------------------------------------------------------------------------
(* Each step of the connection is one of the session, or none. *)
LEMMA SessionStep ==
    ASSUME LuaInv, [Next]_vars
    PROVE  [Promise!Next]_(Promise!svars)
  <1>1. /\ base \in BaseType /\ vm \in VMType
    BY DEF LuaInv, Idle, Kept, Alive
  <1>2. base.socket \in {"open", "closed"}
    BY <1>1 DEF BaseType
  <1>3. CASE CreateVM
    <2>1. vm'.state = vm.state /\ UNCHANGED <<base, received, echoed>>
      BY <1>1, <1>3 DEF CreateVM, VMType
    <2>. QED
      BY <2>1 DEF Phase, Promise!svars
  <1>4. CASE Start(TRUE)
    <2>1. Phase = "new" /\ Phase' = "closed" /\ UNCHANGED <<received, echoed>>
      BY <1>1, <1>4 DEF Start, Phase, BaseType
    <2>. QED
      BY <2>1 DEF Promise!Next, Promise!Refuse
  <1>5. CASE Stopped
    <2>1. Phase' = Phase /\ UNCHANGED <<received, echoed>>
      BY <1>1, <1>5 DEF Stopped, Signal, Phase, BaseType
    <2>. QED
      BY <2>1 DEF Promise!svars
  <1>6. CASE DestroyVM
    <2>1. Phase = "closed" /\ Phase' = "closed" /\ UNCHANGED <<received, echoed>>
      BY <1>6 DEF DestroyVM, Phase
    <2>. QED
      BY <2>1 DEF Promise!svars
  <1>7. ASSUME NEW v, NEW n, Entered(v, n)
        PROVE  Promise!Next
    <2>1. /\ Kept(vm', base', echoed', received')
          /\ v.state = "NEW" => /\ vm'.state = "HELLO_SENT"
                                /\ base'.socket = "open" /\ echoed' = echoed
          /\ v.state \in Serving => Serves(received')
          /\ Leaving(v) => Leaves(n)
          /\ n.socket = base.socket /\ Promise!Hears
      BY <1>7, NextOperationKeeps DEF Entered, Heard, Promise!Hears
    <2>2. CASE /\ vm.state = "INIT" /\ base.socket = "open"
               /\ v.state = "NEW" /\ received' = received
      <3>1. Phase = "new" /\ Phase' = "serving" /\ echoed' = echoed
        BY <2>1, <2>2 DEF Phase, Serving
      <3>. QED
        BY <2>2, <3>1 DEF Promise!Next, Promise!Admit
    <2>3. CASE vm.state # "INIT" /\ Leaving(v)
      <3>1. Phase \in {"closed", "serving", "leaving"}
        BY <2>3 DEF Phase
      <3>2. CASE base'.socket = "closed"
        <4>1. Phase' = "closed" /\ echoed' = echoed
          BY <2>1, <2>3, <3>2 DEF Phase, Leaves
        <4>. QED
          BY <2>1, <3>1, <4>1 DEF Promise!Next, Promise!Close
      <3>3. CASE base'.socket # "closed"
        <4>1. Phase' = "leaving" /\ Phase # "closed" /\ echoed' = echoed
          BY <1>2, <2>1, <2>3, <3>3 DEF Phase, Leaves, Serving
        <4>. QED
          BY <2>1, <3>1, <4>1 DEF Promise!Next, Promise!Dismiss
      <3>. QED
        BY <3>2, <3>3
    <2>4. CASE v.state \in Serving /\ v.state = vm.state
      <3>1. n.socket = "open"
        BY <1>7, <2>4 DEF Entered, Ready
      <3>2. Phase = "serving"
        BY <2>1, <2>4, <3>1 DEF Phase, Serving
      <3>3. Serves(received') /\ base'.socket = "open"
        BY <2>1, <2>4 DEF Serves
      <3>4. CASE vm'.state \in Serving /\ echoed' = echoed
        <4>1. Phase' = "serving"
          BY <3>3, <3>4 DEF Phase, Serving
        <4>. QED
          BY <2>1, <3>2, <3>4, <4>1 DEF Promise!Next, Promise!Listen
      <3>5. CASE vm'.state \in Serving /\ Answers(received')
        <4>1. Phase' = "serving"
          BY <3>3, <3>5 DEF Phase, Serving
        <4>. QED
          BY <2>1, <3>2, <3>5, <4>1 DEF Promise!Next, Promise!Answer, Answers
      <3>6. CASE vm'.state = "TERMINATE" /\ echoed' = echoed
        <4>1. Phase' = "leaving"
          BY <3>3, <3>6 DEF Phase, Serving
        <4>. QED
          BY <2>1, <3>2, <3>6, <4>1 DEF Promise!Next, Promise!Dismiss
      <3>. QED
        BY <3>3, <3>4, <3>5, <3>6 DEF Serves
    <2>5. v.state \in Serving \/ v.state = "NEW" \/ Leaving(v)
      BY <1>7 DEF Entered, Ready, Alive, VMType, State, Serving, Leaving
    <2>6. vm.state # "NEW"
      BY DEF LuaInv, Idle, Kept, Alive, VMType
    <2>. QED
      BY <1>7, <2>2, <2>3, <2>4, <2>5, <2>6 DEF Entered
  <1>8. CASE UNCHANGED vars
    BY <1>8 DEF vars, Phase, Promise!svars
  <1>. QED
    BY <1>3, <1>4, <1>5, <1>6, <1>7, <1>8, EveryHandlerEnters

(* The script promises its clients what the server's own handler promises. *)
THEOREM LuaSessionIsImplemented == Spec => ImplementsSession
  <1>1. Init => Promise!Init
    BY DEF Init, Accepted, NoVM, Phase, Promise!Init
  <1>2. LuaInv /\ [Next]_vars => [Promise!Next]_(Promise!svars)
    BY SessionStep
  <1>. QED
    BY <1>1, <1>2, LuaInvariant, PTL DEF Spec, ImplementsSession, Promise!Spec
===============================================================================
