--------------------------------- MODULE Pecho ---------------------------------
(***************************************************************************)
(* The protocol echo handler (src/examples/pecho/pechoHandler.cpp), with   *)
(* the command buffer and the parser of the protocol library               *)
(* (src/include/protocol): a client says "echo", sends lines up to a line  *)
(* with a single dot, gets them back, and says "quit".                     *)
(*                                                                         *)
(* The network calls networkInput() with what it has read and asks         *)
(* nextOperation() what to do; op is what it does.  One turn of            *)
(* nextOperation()'s loop is one action; nothing runs between two of them. *)
(* Messages are named, not spelled out.                                    *)
(***************************************************************************)
EXTENDS InputBlock

CONSTANTS
    Space,          \* the blank
    Alnum,          \* letters and digits,
    Zero,           \* and the letter that CmdBuffer counts as 0, an "a"
    Lower, Upper,   \* tolower() and toupper()
    Word,           \* the words of the protocol
    OutSizes,       \* sizes an output block may be constructed with
    Fresh,          \* bound: bytes that fresh memory may hold
    Client,         \* what a client may ask and the answer it expects
    FullReads       \* a read ends only when the block is full, as in the test

Reply == {"expecting command", "caps", "enter data", "bye", "bad"}

ASSUME PechoAssumption ==
    /\ {LF, CR, Space} \cap Alnum = {} /\ Alnum \subseteq Byte /\ Fresh \subseteq Byte
    /\ Lower \in [Byte -> Byte] /\ Upper \in [Byte -> Byte]
    /\ Word \in [{"caps", "echo", "quit", "tolower", "toupper"} -> Seq(Alnum) \ {<<>>}]
    /\ OutSizes \subseteq Nat \ {0}
    /\ \A c \in Client : c.ask \in Seq(Byte) /\ c.answer \in Seq(Byte \cup Reply)
    /\ FullReads \in BOOLEAN

VARIABLES
    state, mode,    \* of the processor
    cmdBuffer,      \* the part of a word that was read so far
    itr, eoM, eoD,  \* places in the input block
    output,         \* what the output block holds
    outSize,        \* and its size
    op,             \* what the network does, see Operation
    unread,         \* what the client sends and the server has not read yet
    sent,           \* everything the server has sent
    expected        \* what the client expects it to send

vars == <<block, state, mode, cmdBuffer, itr, eoM, eoD, output, outSize,
          op, unread, sent, expected>>

State == {"Init", "EnterCommand", "EmptyLine", "EnterMode", "StartProcessing",
          "ProcessingAfterWrite", "Processing", "HandleError", "Terminate"}

Mode == {"Ident", "Uppercase", "Lowercase"}

Operation == {"run",        \* nextOperation() runs
              "scanInput",  \* networkInput() runs getEoD
              "scanRest",   \* the case StartProcessing runs getEoD
              "read", "write", "closed"}

Init ==
    /\ size \in BlockSizes /\ outSize \in OutSizes
    /\ buf \in [0 .. size - 1 -> Fresh]
    /\ pos = 0 /\ eodState = "SRC"
    /\ scan = [start |-> 0, bufpos |-> 0, eatsize |-> 0, dstsize |-> 0,
               eodpos |-> NotFound]
    /\ state = "Init" /\ mode = "Ident" /\ cmdBuffer = <<>>
    /\ itr = 0 /\ eoM = 0 /\ eoD = 0
    /\ output = <<>>
    /\ op = "run"
    /\ \E c \in Client : unread = c.ask /\ expected = c.answer
    /\ sent = <<>>

-------------------------------------------------------------------------------
(* The protocol library.                                                   *)

(* The first place from i on, before eoM, whose byte is in S, or eoM. *)
Find(i, S) == Min({k \in i..eoM : k = eoM \/ buf[k] \in S})

(* skipSpaces() and skipLine() stop here. *)
SkipSpaces == Find(itr, Byte \ {Space})
SkipLine   == Find(itr, {CR, LF})

(* consumeEOLN() at i: what it returns, and where it stops. *)
SkipCR(i) == IF i < eoM /\ buf[i] = CR THEN i + 1 ELSE i

ConsumesEOLN(i) == SkipCR(i) < eoM /\ buf[SkipCR(i)] = LF

(* Bug: the line feed is left. *)
AfterCR(i) == SkipCR(i)

AfterEOLN(i) == IF ConsumesEOLN(i) THEN SkipCR(i) + 1 ELSE SkipCR(i)

(* CmdBuffer after the bytes of s: any other character than a letter or a  *)
(* digit starts it over, and leading zeros do not count.  A word of a run  *)
(* is shorter than the ten characters that m_value can hold.  Upper case   *)
(* is lower case.                                                          *)
CmdValue(s) ==
    LET starts == {k \in 1 .. Len(s) + 1 :
                      /\ \A j \in k .. Len(s) : s[j] \in Alnum
                      /\ k <= Len(s) => s[k] # Zero}
    IN SubSeq(s, Min(starts), Len(s))

(* getCommand() at i: where the word ends, and the word. *)
WordEnd(i) == Find(i, {LF, CR, Space})

Name(i) ==
    CmdValue(cmdBuffer \o [k \in 1 .. WordEnd(i) - i |-> Lower[buf[i + k - 1]]])

-------------------------------------------------------------------------------
Runs(s) == op = "run" /\ state = s

Say(m) == op' = "write" /\ sent' = Append(sent, m) /\ UNCHANGED pos

ReadData == op' = "read" /\ pos' = 0 /\ UNCHANGED sent

Continue == UNCHANGED <<op, sent, pos>>

Greet ==
    /\ Runs("Init")
    /\ state' = "EnterCommand" /\ mode' = "Ident"
    /\ Say("expecting command")
    /\ UNCHANGED <<size, buf, eodState, scan, cmdBuffer, itr, eoM, eoD,
                   output, outSize, unread, expected>>

EnterCommand ==
    /\ Runs("EnterCommand")
    /\ itr' = WordEnd(itr)
    /\ LET name == Name(itr) IN
       \/ /\ itr' = eoM
          /\ cmdBuffer' = name
          /\ ReadData /\ UNCHANGED state
       \/ /\ itr' < eoM
          /\ cmdBuffer' = <<>>
          /\ \/ name = <<>> /\ state' = "EmptyLine" /\ Continue
             \/ name = Word["caps"] /\ Say("caps") /\ UNCHANGED state
             \/ name = Word["echo"] /\ state' = "EnterMode" /\ Continue
             \/ name = Word["quit"] /\ state' = "Terminate" /\ Say("bye")
             \/ /\ name \notin {<<>>, Word["caps"], Word["echo"], Word["quit"]}
                /\ state' = "HandleError" /\ Say("bad")
    /\ UNCHANGED <<size, buf, eodState, scan, mode, eoM, eoD, output, outSize,
                   unread, expected>>

EmptyLine ==
    /\ Runs("EmptyLine")
    /\ \/ /\ SkipSpaces = eoM
          /\ itr' = eoM
          /\ ReadData /\ UNCHANGED state
       \/ /\ SkipSpaces < eoM
          /\ itr' = AfterEOLN(SkipSpaces)
          /\ \/ /\ ConsumesEOLN(SkipSpaces)
                /\ state' = "EnterCommand" /\ Continue
             \/ /\ ~ConsumesEOLN(SkipSpaces)
                /\ IF itr' = eoM THEN ReadData /\ UNCHANGED state
                                 ELSE state' = "Init" /\ Say("bad")
    /\ UNCHANGED <<size, buf, eodState, scan, mode, cmdBuffer, eoM, eoD,
                   output, outSize, unread, expected>>

EnterMode ==
    /\ Runs("EnterMode")
    /\ LET end  == WordEnd(SkipSpaces)
           name == Name(SkipSpaces) IN
       \/ /\ SkipSpaces = eoM
          /\ itr' = eoM
          /\ ReadData /\ UNCHANGED <<state, mode, cmdBuffer>>
       \/ /\ SkipSpaces < eoM /\ end = eoM
          /\ itr' = end /\ cmdBuffer' = name
          /\ ReadData /\ UNCHANGED <<state, mode>>
       \/ /\ end < eoM
          /\ itr' = end /\ cmdBuffer' = <<>>
          /\ \/ name = <<>> /\ mode' = "Ident"
             \/ name = Word["tolower"] /\ mode' = "Lowercase"
             \/ name = Word["toupper"] /\ mode' = "Uppercase"
          /\ state' = "StartProcessing" /\ Continue
       \/ /\ end < eoM
          /\ name \notin {<<>>, Word["tolower"], Word["toupper"]}
          /\ itr' = end /\ cmdBuffer' = <<>>
          /\ state' = "HandleError" /\ Say("bad") /\ UNCHANGED mode
    /\ UNCHANGED <<size, buf, eodState, scan, eoM, eoD, output, outSize,
                   unread, expected>>

StartProcessing ==
    /\ Runs("StartProcessing")
    /\ itr' = SkipSpaces
    /\ eodState' = "SRC"
    /\ \/ /\ itr' = eoM
          /\ ReadData /\ UNCHANGED <<scan, state>>
       \/ /\ itr' < eoM /\ buf[itr'] \notin {CR, LF}
          /\ state' = "Init" /\ Say("bad") /\ UNCHANGED scan
       \/ /\ itr' < eoM /\ buf[itr'] \in {CR, LF}
          /\ state' = "Processing"
          /\ GetEoD(itr') /\ op' = "scanRest" /\ UNCHANGED <<pos, sent>>
    /\ UNCHANGED <<size, buf, mode, cmdBuffer, eoM, eoD, output, outSize,
                   unread, expected>>

ScanBlock ==
    /\ op \in {"scanInput", "scanRest"}
    /\ ScanStep
    /\ UNCHANGED <<state, mode, cmdBuffer, itr, eoM, eoD, output, outSize,
                   op, unread, sent, expected>>

(* setPos(), and getEoD returns. *)
ScanEnds ==
    /\ ~Scanning
    /\ pos' = End /\ eoD' = EoD /\ eoM' = End
    /\ \/ op = "scanInput" /\ op' = "run" /\ UNCHANGED sent
       \/ op = "scanRest" /\ op' = "write" /\ sent' = Append(sent, "enter data")
    /\ UNCHANGED <<size, buf, eodState, scan, state, mode, cmdBuffer, itr,
                   output, outSize, unread, expected>>

-------------------------------------------------------------------------------
(* The echo.                                                               *)

(* Bug: what was written stays in the block. *)
ReleaseNothing ==
    /\ Runs("ProcessingAfterWrite")
    /\ state' = "Processing"
    /\ UNCHANGED <<block, mode, cmdBuffer, itr, eoM, eoD, output, outSize,
                   op, unread, sent, expected>>

Release ==
    /\ Runs("ProcessingAfterWrite")
    /\ state' = "Processing" /\ output' = <<>>
    /\ UNCHANGED <<block, mode, cmdBuffer, itr, eoM, eoD, outSize,
                   op, unread, sent, expected>>

(* print() *)
Filter(b) ==
    CASE mode = "Ident" -> b
      [] mode = "Uppercase" -> Upper[b]
      [] mode = "Lowercase" -> Lower[b]

(* What echoInput() makes of output when it stops at place to. *)
Printed(to) == output \o [k \in 1 .. to - itr |-> Filter(buf[itr + k - 1])]

(* Bug: one byte too many. *)
RoomForOneMore == outSize - Len(output) + 1

(* restsize() *)
Room == outSize - Len(output)

SendOutput ==
    /\ IF output' = <<>> THEN UNCHANGED <<op, sent>>
                         ELSE op' = "write" /\ sent' = sent \o output'
    /\ UNCHANGED pos

Processing ==
    /\ Runs("Processing")
    /\ itr' = IF eoD - itr > Room THEN itr + Room ELSE eoD
    /\ output' = Printed(itr')
    /\ \/ /\ itr' = eoD /\ eoD = eoM
          /\ ReadData /\ UNCHANGED <<state, eodState>>
       \/ /\ itr' = eoD /\ eoD # eoM
          /\ eodState' = "SRC" /\ state' = "Init" /\ SendOutput
       \/ /\ itr' # eoD
          /\ state' = "ProcessingAfterWrite" /\ SendOutput
          /\ UNCHANGED eodState
    /\ UNCHANGED <<size, buf, scan, mode, cmdBuffer, eoM, eoD, outSize,
                   unread, expected>>

HandleError ==
    /\ Runs("HandleError")
    /\ itr' = IF SkipLine = eoM THEN eoM ELSE AfterEOLN(SkipLine)
    /\ IF SkipLine < eoM /\ ConsumesEOLN(SkipLine)
       THEN state' = "Init" /\ Continue
       ELSE ReadData /\ UNCHANGED state
    /\ UNCHANGED <<size, buf, eodState, scan, mode, cmdBuffer, eoM, eoD,
                   output, outSize, unread, expected>>

Close ==
    /\ Runs("Terminate")
    /\ op' = "closed"
    /\ UNCHANGED <<block, state, mode, cmdBuffer, itr, eoM, eoD, output,
                   outSize, unread, sent, expected>>

-------------------------------------------------------------------------------
(* The network.                                                            *)

(* networkInput() of n bytes. *)
NetworkInput(n) ==
    /\ op = "read"
    /\ n <= Len(unread)
    /\ FullReads => n = size \/ n = Len(unread)
    /\ buf' = [i \in DOMAIN buf |-> IF i < n THEN unread[i + 1] ELSE buf[i]]
    /\ unread' = SubSeq(unread, n + 1, Len(unread))
    /\ pos' = n /\ itr' = 0
    /\ IF state \in {"Processing", "StartProcessing"}
       THEN GetEoD(0) /\ op' = "scanInput" /\ UNCHANGED <<eoM, eoD>>
       ELSE eoM' = n /\ eoD' = n /\ op' = "run" /\ UNCHANGED scan
    /\ UNCHANGED <<size, eodState, state, mode, cmdBuffer, output, outSize,
                   sent, expected>>

Written ==
    /\ op = "write"
    /\ op' = "run"
    /\ UNCHANGED <<block, state, mode, cmdBuffer, itr, eoM, eoD, output,
                   outSize, unread, sent, expected>>

(* timeoutOccured(), signalOccured() or errorOccured() *)
SignalTerminate ==
    /\ op \in {"read", "write"}
    /\ op' = "run" /\ state' = "Terminate"
    /\ UNCHANGED <<block, mode, cmdBuffer, itr, eoM, eoD, output, outSize,
                   unread, sent, expected>>

Serve ==
    \/ Greet \/ EnterCommand \/ EmptyLine \/ EnterMode \/ StartProcessing
    \/ ScanBlock \/ ScanEnds \/ Release \/ Processing \/ HandleError \/ Close
    \/ \E n \in 1..size : NetworkInput(n)
    \/ Written

Next == Serve \/ SignalTerminate

Spec == Init /\ [][Next]_vars

(* The client sends what it has to say and reads what it is sent. *)
FairSpec == Spec /\ WF_vars(Serve)

-------------------------------------------------------------------------------
(* Every variable has its type: the places lie in the block, and print()   *)
(* never writes past the output block.                                     *)
TypeOK ==
    /\ BlockType
    /\ state \in State /\ mode \in Mode
    /\ cmdBuffer \in Seq(Alnum)
    /\ itr \in 0..size /\ eoM \in 0..size /\ eoD \in 0..size
    /\ output \in Seq(Byte) /\ outSize \in OutSizes /\ Len(output) <= outSize
    /\ op \in Operation
    /\ unread \in Seq(Byte)
    /\ sent \in Seq(Byte \cup Reply) /\ expected \in Seq(Byte \cup Reply)

(* The scan stays in the block, and the handler reads only bytes that lie  *)
(* before the end of the message: ArrayBoundReadError is never thrown, and *)
(* the echo, which stops only exactly at eoD, does not run past it.        *)
InBounds ==
    /\ op \in {"scanInput", "scanRest"} => MovesDown
    /\ op = "run" /\ state # "Terminate" => itr <= eoM /\ eoM <= pos
    /\ op = "run" /\ state \in {"Processing", "ProcessingAfterWrite"} =>
          itr <= eoD /\ eoD <= eoM

(* tests/pechoHandler-gTest.cpp: what is sent is what the client expects,  *)
(* however the input is cut into blocks.                                   *)
ExpectedResult ==
    /\ Len(sent) <= Len(expected)
    /\ sent = SubSeq(expected, 1, Len(sent))

(* A client that ends its data and says "quit" is let go. *)
ConnectionCloses == <>(op = "closed")
===============================================================================
