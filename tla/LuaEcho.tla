-------------------------------- MODULE LuaEcho --------------------------------
(***************************************************************************)
(* One client connection of the lua example: connectionBase drives a       *)
(* echoConnection (src/examples/lua/luaHandler.cpp), which leaves every    *)
(* decision to functions of echo.lua in a Lua virtual machine of its own.  *)
(*                                                                         *)
(* A string that Lua returns is popped before it is written: the write     *)
(* goes on from memory which only the machine still owns.  The script's    *)
(* literals live as long as the machine; a line lives in a global.         *)
(*                                                                         *)
(* The text is assumed to hold no NUL, at which SendString would end it.   *)
(***************************************************************************)
EXTENDS ConnectionBase, SequencesExt

CONSTANTS
    Byte,           \* the bytes a client may send
    NL,             \* the newline
    Quit,           \* the command "quit", a sequence of bytes
    MaxLine,        \* the 8192 of echo.lua
    MaxReceived     \* bound: bytes one client sends

ASSUME LuaAssumption ==
    /\ NL \in Byte
    /\ Quit \in Seq(Byte)
    /\ MaxLine \in Nat /\ MaxReceived \in Nat

VARIABLES
    vm,             \* the machine: its life and the script's globals
    received,       \* every byte handed to network_input, in order
    echoed          \* every byte of every line written back, in order

vars == <<base, vm, received, echoed>>

Serving == {"HELLO_SENT", "READ_INPUT", "OUTPUT_MSG"}

State == Serving \cup {"INIT", "NEW", "TIMEOUT", "SIGNALLED", "TERMINATE",
                       "FINISHED", "ILLEGAL"}

VMType ==
    [life : {"none", "alive", "failed", "destroyed"}, state : State,
     buffer : Seq(Byte), echo : Seq(Byte)]

NoLine == <<>>

NoVM == [life |-> "none", state |-> "INIT", buffer |-> <<>>, echo |-> NoLine]

Init ==
    /\ base = Accepted
    /\ vm = NoVM
    /\ received = <<>>
    /\ echoed = <<>>

(* What createVM() throws nobody catches.  The script's init() sets the    *)
(* globals. *)
CreateVM ==
    /\ vm.life = "none"
    /\ \/ vm' = [vm EXCEPT !.life = "alive"]
       \/ vm' = [vm EXCEPT !.life = "failed"]
    /\ UNCHANGED <<base, received, echoed>>

(* The handler goes with the last reference to its connection. *)
DestroyVM ==
    /\ vm.life = "alive" /\ base.socket = "closed" /\ ~base.listed /\ Quiet(base)
    /\ vm' = [vm EXCEPT !.life = "destroyed"]
    /\ UNCHANGED <<base, received, echoed>>

-------------------------------------------------------------------------------
(* The script's next_operation(), with v and n as the callback left them.  *)

SayFarewell(v, n, m) ==
    /\ vm' = [v EXCEPT !.state = "TERMINATE"]
    /\ Write(n, m)
    /\ UNCHANGED echoed

LineEnds(v) == {k \in DOMAIN v.buffer : v.buffer[k] = NL}

FirstLine(v) == CHOOSE k \in LineEnds(v) : \A j \in LineEnds(v) : k <= j

Drop(s, k) == SubSeq(s, k + 1, Len(s))

(* Bug: echo is a local of the script. *)
EchoLineLocal(v, n) ==
    LET pos == FirstLine(v) IN
    /\ vm' = [v EXCEPT !.state = "OUTPUT_MSG", !.buffer = Drop(v.buffer, pos)]
    /\ Write(n, "line")
    /\ echoed' = echoed \o SubSeq(v.buffer, 1, pos)

(* Bug: one character too many is cut off. *)
EchoLineCut(v, n) ==
    LET pos == FirstLine(v) IN
    /\ vm' = [v EXCEPT !.state = "OUTPUT_MSG",
                       !.echo = SubSeq(v.buffer, 1, pos),
                       !.buffer = Drop(v.buffer, pos + 1)]
    /\ Write(n, "line")
    /\ echoed' = echoed \o SubSeq(v.buffer, 1, pos)

EchoLine(v, n) ==
    LET pos == FirstLine(v) IN
    /\ vm' = [v EXCEPT !.state = "OUTPUT_MSG",
                       !.echo = SubSeq(v.buffer, 1, pos),
                       !.buffer = Drop(v.buffer, pos)]
    /\ Write(n, "line")
    /\ echoed' = echoed \o SubSeq(v.buffer, 1, pos)

(* Whatever the script's state asks for, the whole of buf is read into. *)
ReadMore(v, n) ==
    /\ vm' = [v EXCEPT !.state = "READ_INPUT"]
    /\ Read(n, 0, ReadBufSize)
    /\ UNCHANGED echoed

(* The states READ_INPUT and OUTPUT_MSG. *)
Process(v, n) ==
    IF IsPrefix(Quit, v.buffer) THEN SayFarewell(v, n, "thanks")
    ELSE IF LineEnds(v) # {} THEN EchoLine(v, n)
    ELSE IF Len(v.buffer) > MaxLine THEN SayFarewell(v, n, "toolong")
    ELSE ReadMore(v, n)

Finish(v, n) ==
    /\ vm' = [v EXCEPT !.state = IF @ = "INIT" THEN "ILLEGAL" ELSE "FINISHED"]
    /\ Close(n)
    /\ UNCHANGED echoed

(* The greeting is sent and nothing was read: the branch of HELLO_SENT     *)
(* that finds the buffer filled says so and goes on to serve. *)
NextOperation(v, n) ==
    CASE v.state = "NEW" ->
            /\ vm' = [v EXCEPT !.state = "HELLO_SENT"]
            /\ Write(n, "welcome")
            /\ UNCHANGED echoed
      [] v.state = "HELLO_SENT" ->
            IF v.buffer = <<>> THEN ReadMore(v, n)
            ELSE /\ vm' = [v EXCEPT !.state = "OUTPUT_MSG"]
                 /\ Write(n, "welcome")
                 /\ UNCHANGED echoed
      [] v.state \in {"READ_INPUT", "OUTPUT_MSG"} -> Process(v, n)
      [] v.state = "TIMEOUT"   -> SayFarewell(v, n, "timeout")
      [] v.state = "SIGNALLED" -> SayFarewell(v, n, "shutdown")
      [] OTHER -> Finish(v, n)

-------------------------------------------------------------------------------
(* The callbacks.                                                          *)
NetworkInput(v, data) == [v EXCEPT !.buffer = @ \o data]

NewConnection(v)  == [v EXCEPT !.state = "NEW"]
TimeoutOccured(v) == [v EXCEPT !.state = "TIMEOUT"]
SignalOccured(v)  == [v EXCEPT !.state = "SIGNALLED"]
ErrorOccured(v)   == [v EXCEPT !.state = "TERMINATE"]

(* connection::start(): setPeer() and the first operation, or the          *)
(* connection is dropped because the list is full.                         *)
Start(full) ==
    /\ vm.life = "alive" /\ vm.state = "INIT" /\ base.socket = "open"
    /\ IF full
       THEN /\ base' = [base EXCEPT !.socket = "closed"]
            /\ UNCHANGED <<vm, echoed>>
       ELSE NextOperation(NewConnection(vm), [base EXCEPT !.listed = TRUE])
    /\ UNCHANGED received

HandleRead ==
    /\ base.reads > 0
    /\ \E len \in 1 .. base.readLen :
       \E data \in [1..len -> Byte], n \in Cancelled(ReadDone(base)) :
          /\ Len(received) + len <= MaxReceived
          /\ received' = received \o data
          /\ NextOperation(NetworkInput(vm, data), n)

HandleReadError ==
    /\ base.reads > 0
    /\ \E n \in Cancelled(ReadDone(base)) : NextOperation(ErrorOccured(vm), n)
    /\ UNCHANGED received

HandleWrite(m) ==
    /\ base.writes[m] > 0
    /\ \E n \in Cancelled(WriteDone(base, m)), v \in {vm, ErrorOccured(vm)} :
          NextOperation(v, n)
    /\ UNCHANGED received

HandleTimeout ==
    /\ \/ base.armed    /\ NextOperation(TimeoutOccured(vm), Expired(base))
       \/ base.late > 0 /\ NextOperation(TimeoutOccured(vm), LateExpired(base))
    /\ UNCHANGED received

HandleSignal ==
    /\ base.signal
    /\ NextOperation(SignalOccured(vm), SignalTaken(base))
    /\ UNCHANGED received

Stopped == Signal /\ UNCHANGED <<vm, received, echoed>>

Next ==
    \/ CreateVM
    \/ \E full \in BOOLEAN : Start(full)
    \/ HandleRead \/ HandleReadError
    \/ \E m \in Message : HandleWrite(m)
    \/ HandleTimeout \/ HandleSignal \/ Stopped
    \/ DestroyVM

Spec == Init /\ [][Next]_vars

-------------------------------------------------------------------------------
(* Every variable has its type.                                            *)
TypeOK ==
    /\ base \in BaseType
    /\ vm \in VMType
    /\ received \in Seq(Byte) /\ echoed \in Seq(Byte)

(* The line that is being written is the last one taken from the buffer,   *)
(* no other write shares it, and the machine still owns it, whatever was   *)
(* read, had timed out or was signalled since: the collector cannot free   *)
(* it under the write. *)
MessageOutlivesWrite ==
    base.writes["line"] > 0 =>
        /\ base.writes["line"] = 1
        /\ vm.life = "alive"
        /\ vm.echo # NoLine /\ IsSuffix(vm.echo, echoed)

Phase ==
    IF base.socket = "closed" THEN "closed"
    ELSE IF vm.state = "INIT" THEN "new"
    ELSE IF vm.state \in Serving THEN "serving" ELSE "leaving"

Promise == INSTANCE Session WITH phase <- Phase

(* The script promises what the server's own handler promises: every line  *)
(* comes back whole, once and in order, until the client is dismissed.     *)
ImplementsSession == Promise!Spec
===============================================================================
