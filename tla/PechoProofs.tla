------------------------------ MODULE PechoProofs ------------------------------
(***************************************************************************)
(* For blocks of any size, any client and reads cut anywhere: getEoD stays *)
(* in the block and the handler stays before the end of the message.       *)
(*                                                                         *)
(* InBounds speaks of the moments when something is read.  It is inductive *)
(* only with what holds in between: the scan begins where the handler      *)
(* stands, and the places stay in order while the network writes.          *)
(*                                                                         *)
(* Then what the handler makes of the bytes, wherever they are cut: the    *)
(* words of a command, the data that getEoD leaves in the block, and the   *)
(* echo of it; that between two reads it only has so much to do; that all  *)
(* of the data of a request comes back to the client; last, that a client  *)
(* with one request gets its answer, all of it in its order.  PechoSession *)
(* says what such a client sends.                                          *)
(***************************************************************************)
EXTENDS PechoSession, SequenceTheorems, WellFoundedInduction, TLAPS

Placed ==
    /\ op \in {"scanInput", "scanRest"} => itr = scan.start
    /\ op \in {"run", "write"} /\ state # "Terminate" => itr <= eoM /\ eoM <= pos
    /\ op \in {"run", "write"} /\ state \in {"Processing", "ProcessingAfterWrite"} =>
          itr <= eoD /\ eoD <= eoM

Inv == TypeOK /\ MovesDown /\ Placed

-------------------------------------------------------------------------------
(* A nonempty set of naturals has a least element, which Min chooses. *)
LEMMA LeastExists ==
    ASSUME NEW S \in SUBSET Nat, S # {}
    PROVE  Min(S) \in S /\ \A k \in S : Min(S) <= k
  <1>. DEFINE Less == {ss \in Nat \X Nat : ss[1] < ss[2]}
  <1>1. IsWellFoundedOn(Less, Nat)
    BY NatLessThanWellFounded DEF OpToRel
  <1>2. PICK x \in S : \A y \in S : ~ (<<y, x>> \in Less)
    <2>. HIDE DEF Less
    <2>. QED
      BY <1>1, WFMin
  <1>3. \A y \in S : x <= y
    <2>. SUFFICES ASSUME NEW y \in S PROVE x <= y
      OBVIOUS
    <2>1. <<y, x>> \in Nat \X Nat /\ <<y, x>>[1] = y /\ <<y, x>>[2] = x
      OBVIOUS
    <2>2. ~ (y < x)
      BY <1>2, <2>1
    <2>. QED
      BY <2>2
  <1>. QED
    BY <1>3 DEF Min

(* The parser's searches stop between where they begin and eoM. *)
LEMMA FindStops ==
    ASSUME NEW i \in Nat, eoM \in Nat, i <= eoM, NEW S
    PROVE  Find(i, S) \in i..eoM
  <1>. DEFINE stops == {k \in i..eoM : k = eoM \/ buf[k] \in S}
  <1>1. stops \in SUBSET Nat /\ eoM \in stops
    OBVIOUS
  <1>2. Min(stops) \in stops
    <2>. HIDE DEF stops
    <2>. QED
      BY <1>1, LeastExists
  <1>. QED
    BY <1>2 DEF Find

LEMMA SkipsStop ==
    ASSUME itr \in Nat, eoM \in Nat, itr <= eoM
    PROVE  SkipSpaces \in itr..eoM /\ SkipLine \in itr..eoM
  BY FindStops DEF SkipSpaces, SkipLine

LEMMA AfterEOLNStops ==
    ASSUME NEW i \in Nat, eoM \in Nat, i <= eoM
    PROVE  AfterEOLN(i) \in i..eoM
  BY DEF AfterEOLN, ConsumesEOLN, SkipCR

(* The command buffer holds letters and digits. *)
LEMMA CmdValueType ==
    ASSUME NEW s \in Seq(Byte)
    PROVE  CmdValue(s) \in Seq(Alnum)
  <1>. DEFINE starts == {k \in 1 .. Len(s) + 1 :
                            /\ \A j \in k .. Len(s) : s[j] \in Alnum
                            /\ k <= Len(s) => s[k] # Zero}
  <1>1. Len(s) \in Nat
    BY LenProperties
  <1>2. starts \in SUBSET Nat /\ Len(s) + 1 \in starts
    BY <1>1
  <1>3. Min(starts) \in starts
    <2>. HIDE DEF starts
    <2>. QED
      BY <1>2, LeastExists
  <1>4. Min(starts) \in Int /\ \A j \in Min(starts) .. Len(s) : s[j] \in Alnum
    BY <1>1, <1>3
  <1>5. SubSeq(s, Min(starts), Len(s)) \in Seq(Alnum)
    <2>. HIDE DEF starts
    <2>. QED
      BY <1>1, <1>4, SubSeqProperties
  <1>. QED
    BY <1>5 DEF CmdValue

(* What lies between two places of the block is a sequence of bytes. *)
LEMMA BytesBetween ==
    ASSUME BlockType, NEW f \in [Byte -> Byte],
           NEW i \in Nat, NEW j \in Nat, i <= j, j <= size
    PROVE  /\ [k \in 1 .. j - i |-> f[buf[i + k - 1]]] \in Seq(Byte)
           /\ Len([k \in 1 .. j - i |-> f[buf[i + k - 1]]]) = j - i
  <1>. DEFINE s == [k \in 1 .. j - i |-> f[buf[i + k - 1]]]
  <1>1. j - i \in Nat /\ size \in Nat
    BY BlockAssumption DEF BlockType
  <1>2. s \in [1 .. j - i -> Byte]
    BY <1>1 DEF BlockType
  <1>3. s \in Seq(Byte)
    <2>. HIDE DEF s
    <2>. QED
      BY <1>1, <1>2, SeqDef
  <1>4. Len(s) = j - i
    <2>1. DOMAIN s = 1 .. j - i
      OBVIOUS
    <2>. HIDE DEF s
    <2>. QED
      BY <1>1, <1>3, <2>1, LenProperties
  <1>. QED
    BY <1>3, <1>4

LEMMA NameType ==
    ASSUME TypeOK, NEW i \in Nat, i <= eoM
    PROVE  Name(i) \in Seq(Alnum) /\ WordEnd(i) \in i..eoM
  <1>1. size \in Nat /\ eoM \in Nat /\ eoM <= size
    BY BlockAssumption DEF TypeOK, BlockType
  <1>2. WordEnd(i) \in i..eoM
    BY <1>1, FindStops DEF WordEnd
  <1>. DEFINE rest == [k \in 1 .. WordEnd(i) - i |-> Lower[buf[i + k - 1]]]
  <1>3. rest \in Seq(Byte)
    <2>1. Lower \in [Byte -> Byte] /\ BlockType
      BY PechoAssumption DEF TypeOK
    <2>2. WordEnd(i) \in Nat /\ i <= WordEnd(i) /\ WordEnd(i) <= size
      BY <1>1, <1>2
    <2>. QED
      BY <2>1, <2>2, BytesBetween
  <1>4. cmdBuffer \in Seq(Byte)
    BY SeqMonotonic, PechoAssumption DEF TypeOK
  <1>5. cmdBuffer \o rest \in Seq(Byte)
    <2>. HIDE DEF rest
    <2>. QED
      BY <1>3, <1>4, ConcatProperties
  <1>6. CmdValue(cmdBuffer \o rest) \in Seq(Alnum)
    <2>. HIDE DEF rest
    <2>. QED
      BY <1>5, CmdValueType
  <1>. QED
    BY <1>2, <1>6 DEF Name

-------------------------------------------------------------------------------
(* getEoD's moves. *)
LEMMA MoveInputType ==
    ASSUME BlockType, MovesDown, NEW to \in scan.bufpos .. BufSize
    PROVE  MoveInput(to) \in [0 .. size - 1 -> Byte]
  <1>1. /\ size \in Nat /\ DOMAIN buf = 0 .. size - 1
        /\ scan.start \in Nat /\ scan.dstsize \in Nat /\ scan.eatsize \in Nat
        /\ scan.bufpos \in Nat /\ to \in Nat /\ scan.start + to <= size
    BY BlockAssumption DEF BlockType, ScanType, BufSize
  <1>. SUFFICES ASSUME NEW i \in 0 .. size - 1
                PROVE  MoveInput(to)[i] \in Byte
    BY <1>1 DEF MoveInput
  <1>. DEFINE dst == scan.start + scan.dstsize
              gap == scan.eatsize - scan.dstsize
  <1>2. i \in dst .. dst + (to - scan.eatsize) - 1 => i + gap \in 0 .. size - 1
    BY SMTT(30), <1>1 DEF MovesDown
  <1>3. MoveInput(to)[i] = IF i \in dst .. dst + (to - scan.eatsize) - 1
                           THEN buf[i + gap] ELSE buf[i]
    BY <1>1 DEF MoveInput
  <1>. QED
    BY <1>2, <1>3 DEF BlockType

(* What the actions that scan may assume and must establish. *)
Scans == BlockType /\ MovesDown

LEMMA KeepScans ==
    ASSUME Scans, NEW to \in scan.bufpos .. BufSize, Keep(to),
           size' = size, pos' = pos, eodState' \in EodState
    PROVE  Scans' /\ scan'.start = scan.start
  <1>1. /\ size \in Nat /\ BufSize \in Nat /\ BufSize' = size - scan'.start
        /\ scan.start \in 0 .. size - 1 /\ scan.dstsize \in Nat
        /\ scan.eatsize \in Nat /\ scan.bufpos \in Nat
        /\ to \in 0..size /\ BufSize <= size
        /\ scan \in ScanType /\ ScanType' = ScanType
    BY BlockAssumption DEF Scans, BlockType, BufSize, ScanType
  <1>2. CASE to = BufSize
    <2>1. buf' \in [0 .. size - 1 -> Byte]
      BY <1>2, MoveInputType DEF Keep, Scans
    <2>2. PICK d \in 0..size : /\ d = scan.dstsize + (to - scan.eatsize)
                              /\ scan.dstsize <= d /\ d <= to
      BY <1>1 DEF Scans, MovesDown
    <2>3. scan' = [scan EXCEPT !.bufpos = to, !.eatsize = to, !.dstsize = d]
      BY <1>2, <2>2 DEF Keep
    <2>4. /\ scan' \in ScanType
          /\ scan'.start = scan.start /\ scan'.bufpos = to /\ scan'.eatsize = to
          /\ scan'.dstsize = d /\ scan'.eodpos = scan.eodpos
      BY <1>1, <2>3 DEF ScanType
    <2>5. MovesDown'
      BY <1>1, <1>2, <2>2, <2>4 DEF Scans, BlockType, ScanType, MovesDown, BufSize, NotFound
    <2>. QED
      BY <1>1, <2>1, <2>4, <2>5 DEF Scans, BlockType
  <1>3. CASE to # BufSize
    <2>1. scan' = [scan EXCEPT !.bufpos = to] /\ buf' = buf
      BY <1>3 DEF Keep
    <2>2. /\ scan' \in ScanType
          /\ scan'.start = scan.start /\ scan'.bufpos = to
          /\ scan'.eatsize = scan.eatsize /\ scan'.dstsize = scan.dstsize
          /\ scan'.eodpos = scan.eodpos
      BY <1>1, <2>1 DEF ScanType
    <2>3. MovesDown'
      BY <1>1, <2>2 DEF Scans, MovesDown, BufSize
    <2>. QED
      BY <1>1, <2>1, <2>2, <2>3 DEF Scans, BlockType
  <1>. QED
    BY <1>2, <1>3

LEMMA ScanStepScans ==
    ASSUME Scans, ScanStep
    PROVE  Scans' /\ scan'.start = scan.start
  <1>1. /\ size \in Nat /\ BufSize \in Nat /\ BufSize = size - scan.start
        /\ scan.start \in 0 .. size - 1 /\ scan.dstsize \in 0..size
        /\ scan.eatsize \in 0..size /\ scan.bufpos \in 0..size
        /\ scan.bufpos < BufSize /\ BufSize' = size' - scan'.start
        /\ size' = size /\ pos' = pos
        /\ scan.bufpos \in scan.bufpos .. BufSize
        /\ scan.bufpos + 1 \in scan.bufpos .. BufSize
        /\ scan.bufpos + 1 \in 0..size
        /\ BufSize \in scan.bufpos .. BufSize
        /\ scan \in ScanType /\ ScanType' = ScanType
    BY BlockAssumption DEF ScanStep, Scanning, Scans, BlockType, BufSize, ScanType
  <1>2. CASE SkipToLF
    <2>1. CASE LineFeeds = {}
      BY <1>1, <1>2, <2>1, KeepScans DEF SkipToLF, Scans, BlockType
    <2>2. CASE LineFeeds # {}
      <3>1. LineFeeds \in SUBSET Nat /\ LineFeeds \subseteq scan.bufpos .. BufSize - 1
        BY <1>1 DEF LineFeeds
      <3>2. PICK k \in scan.bufpos .. BufSize - 1 : k = Min(LineFeeds)
        BY <2>2, <3>1, LeastExists
      <3>3. k + 1 \in scan.bufpos .. BufSize
        BY <1>1
      <3>. QED
        BY <1>1, <1>2, <2>2, <3>2, <3>3, KeepScans DEF SkipToLF, EodState
    <2>. QED
      BY <2>1, <2>2
  <1>3. CASE EatDot
    <2>1. buf' \in [0 .. size - 1 -> Byte]
      BY <1>1, <1>3, MoveInputType DEF EatDot, Scans
    <2>2. PICK d \in 0..size : /\ d = scan.dstsize + (scan.bufpos - scan.eatsize)
                              /\ scan.dstsize <= d /\ d <= scan.bufpos
      BY <1>1 DEF Scans, MovesDown
    <2>3. scan' = [scan EXCEPT !.bufpos = scan.bufpos + 1,
                               !.eatsize = scan.bufpos + 1, !.dstsize = d]
      BY <1>3, <2>2 DEF EatDot
    <2>4. /\ scan' \in ScanType
          /\ scan'.start = scan.start /\ scan'.bufpos = scan.bufpos + 1
          /\ scan'.eatsize = scan.bufpos + 1 /\ scan'.dstsize = d
          /\ scan'.eodpos = scan.eodpos
      BY <1>1, <2>3 DEF ScanType
    <2>5. MovesDown'
      BY <1>1, <2>2, <2>4 DEF Scans, BlockType, ScanType, MovesDown, NotFound
    <2>. QED
      BY <1>1, <1>3, <2>1, <2>4, <2>5 DEF EatDot, EodState, Scans, BlockType
  <1>4. CASE NotEoD
    BY <1>1, <1>4, KeepScans DEF NotEoD, EodState
  <1>5. CASE DefineEoD
    <2>1. scan' = [scan EXCEPT !.eodpos = scan.dstsize, !.dstsize = scan.dstsize + 1,
                               !.bufpos = scan.bufpos + 1, !.eatsize = scan.bufpos + 1]
      BY <1>5 DEF DefineEoD
    <2>2. /\ scan.dstsize <= scan.bufpos /\ scan.dstsize \in 0 .. size - 1
          /\ scan.dstsize + 1 \in 0..size /\ scan.bufpos + 1 \in 0..size
      BY <1>1 DEF Scans, MovesDown
    <2>3. /\ scan' \in ScanType
          /\ scan'.start = scan.start /\ scan'.bufpos = scan.bufpos + 1
          /\ scan'.eatsize = scan.bufpos + 1 /\ scan'.dstsize = scan.dstsize + 1
          /\ scan'.eodpos = scan.dstsize
      BY <1>1, <2>1, <2>2 DEF ScanType
    <2>4. MovesDown'
      BY <1>1, <2>2, <2>3 DEF MovesDown
    <2>. QED
      BY <1>1, <1>5, <2>3, <2>4 DEF DefineEoD, EodState, Scans, BlockType
  <1>6. CASE EndLine
    BY <1>1, <1>6, KeepScans DEF EndLine, EodState
  <1>7. CASE SkipRest
    BY <1>1, <1>7, KeepScans DEF SkipRest, Scans, BlockType
  <1>. QED
    BY <1>2, <1>3, <1>4, <1>5, <1>6, <1>7 DEF ScanStep

(* getEoD begins in order. *)
LEMMA GetEoDScans ==
    ASSUME size \in Nat, NEW start \in 0 .. size - 1, GetEoD(start), size' = size
    PROVE  /\ scan' \in ScanType
           /\ scan'.start = start /\ MovesDown'
  BY DEF GetEoD, MovesDown, BufSize, ScanType

-------------------------------------------------------------------------------
(* What every action of the handler starts from, and what it leaves. *)
LEMMA Places ==
    ASSUME Inv
    PROVE  /\ size \in Nat \ {0} /\ pos \in 0..size
           /\ itr \in 0..size /\ eoM \in 0..size /\ eoD \in 0..size
  BY BlockAssumption DEF Inv, TypeOK, BlockType

LEMMA BlockKept ==
    ASSUME Inv, UNCHANGED <<size, buf, scan>>, pos' \in 0..size, eodState' \in EodState
    PROVE  BlockType' /\ MovesDown'
  BY DEF Inv, TypeOK, BlockType, MovesDown, BufSize, ScanType

LEMMA SayType ==
    ASSUME Inv, NEW m \in Reply
    PROVE  Append(sent, m) \in Seq(Byte \cup Reply)
  BY AppendProperties DEF Inv, TypeOK

LEMMA InitInv == Init => Inv
  <1>. SUFFICES ASSUME Init PROVE Inv
    OBVIOUS
  <1>1. size \in Nat \ {0} /\ BlockType
    BY BlockAssumption, PechoAssumption DEF Init, BlockType, ScanType, EodState, NotFound
  <1>2. MovesDown /\ Placed
    BY <1>1, BlockAssumption DEF Init, MovesDown, BufSize, NotFound, Placed
  <1>3. \A S : <<>> \in Seq(S) /\ Len(<<>>) = 0
    BY EmptySeq
  <1>4. unread \in Seq(Byte) /\ expected \in Seq(Byte \cup Reply)
    BY PechoAssumption DEF Init
  <1>. QED
    BY <1>1, <1>2, <1>3, <1>4, PechoAssumption
    DEF Init, Inv, TypeOK, State, Mode, Operation

LEMMA GreetInv ==
    ASSUME Inv, Greet
    PROVE  Inv'
  <1>1. BlockType' /\ MovesDown'
    BY BlockKept, Places DEF Greet, Say, Inv, TypeOK, BlockType
  <1>2. sent' \in Seq(Byte \cup Reply)
    BY SayType DEF Greet, Say, Reply
  <1>3. Placed'
    BY DEF Inv, Placed, Greet, Runs, Say
  <1>. QED
    BY <1>1, <1>2, <1>3 DEF Greet, Say, Inv, TypeOK, State, Mode, Operation

LEMMA EnterCommandInv ==
    ASSUME Inv, EnterCommand
    PROVE  Inv'
  <1>1. itr \in Nat /\ itr <= eoM /\ eoM <= pos /\ eoM \in 0..size /\ size \in Nat
    BY Places DEF Inv, Placed, EnterCommand, Runs
  <1>2. Name(itr) \in Seq(Alnum) /\ itr' \in itr..eoM
    BY <1>1, NameType DEF EnterCommand, Inv
  <1>3. cmdBuffer' \in Seq(Alnum)
    BY <1>2, EmptySeq DEF EnterCommand
  <1>4. pos' \in 0..size /\ op' \in Operation /\ state' \in State
    BY Places DEF EnterCommand, Say, ReadData, Continue, Runs, Operation, State,
       Inv, TypeOK
  <1>5. BlockType' /\ MovesDown'
    BY <1>4, BlockKept DEF EnterCommand, Inv, TypeOK, BlockType
  <1>6. Placed'
    BY <1>1, <1>2 DEF Placed, EnterCommand, Runs, Say, ReadData, Continue
  <1>7. sent' \in Seq(Byte \cup Reply)
    <2>1. \A m \in Reply : Append(sent, m) \in Seq(Byte \cup Reply)
      BY SayType
    <2>. QED
      BY <2>1 DEF EnterCommand, Say, ReadData, Continue, Reply, Inv, TypeOK
  <1>. QED
    BY <1>1, <1>2, <1>3, <1>4, <1>5, <1>6, <1>7 DEF EnterCommand, Inv, TypeOK

LEMMA EmptyLineInv ==
    ASSUME Inv, EmptyLine
    PROVE  Inv'
  <1>1. itr \in Nat /\ itr <= eoM /\ eoM <= pos /\ eoM \in 0..size /\ size \in Nat
    BY Places DEF Inv, Placed, EmptyLine, Runs
  <1>2. SkipSpaces \in itr..eoM /\ AfterEOLN(SkipSpaces) \in SkipSpaces..eoM
    BY <1>1, SkipsStop, AfterEOLNStops
  <1>3. itr' \in itr..eoM
    BY <1>1, <1>2 DEF EmptyLine
  <1>4. pos' \in 0..size /\ op' \in Operation /\ state' \in State
    BY Places DEF EmptyLine, Say, ReadData, Continue, Runs, Operation, State,
       Inv, TypeOK
  <1>5. BlockType' /\ MovesDown'
    BY <1>4, BlockKept DEF EmptyLine, Inv, TypeOK, BlockType
  <1>6. Placed'
    BY <1>1, <1>3 DEF Placed, EmptyLine, Runs, Say, ReadData, Continue
  <1>7. sent' \in Seq(Byte \cup Reply)
    <2>1. \A m \in Reply : Append(sent, m) \in Seq(Byte \cup Reply)
      BY SayType
    <2>. QED
      BY <2>1 DEF EmptyLine, Say, ReadData, Continue, Reply, Inv, TypeOK
  <1>. QED
    BY <1>1, <1>3, <1>4, <1>5, <1>6, <1>7 DEF EmptyLine, Inv, TypeOK

LEMMA EnterModeInv ==
    ASSUME Inv, EnterMode
    PROVE  Inv'
  <1>1. itr \in Nat /\ itr <= eoM /\ eoM <= pos /\ eoM \in 0..size /\ size \in Nat
    BY Places DEF Inv, Placed, EnterMode, Runs
  <1>2. SkipSpaces \in itr..eoM
    BY <1>1, SkipsStop
  <1>3. /\ Name(SkipSpaces) \in Seq(Alnum)
        /\ WordEnd(SkipSpaces) \in SkipSpaces..eoM
    BY <1>1, <1>2, NameType DEF Inv
  <1>4. itr' \in itr..eoM
    BY <1>1, <1>2, <1>3 DEF EnterMode
  <1>5. cmdBuffer' \in Seq(Alnum)
    BY <1>3, EmptySeq DEF EnterMode, Inv, TypeOK
  <1>6. pos' \in 0..size /\ op' \in Operation /\ state' \in State /\ mode' \in Mode
    BY Places DEF EnterMode, Say, ReadData, Continue, Runs, Operation, State,
       Mode, Inv, TypeOK
  <1>7. BlockType' /\ MovesDown'
    BY <1>6, BlockKept DEF EnterMode, Inv, TypeOK, BlockType
  <1>8. Placed'
    BY <1>1, <1>4 DEF Placed, EnterMode, Runs, Say, ReadData, Continue
  <1>9. sent' \in Seq(Byte \cup Reply)
    <2>1. \A m \in Reply : Append(sent, m) \in Seq(Byte \cup Reply)
      BY SayType
    <2>. QED
      BY <2>1 DEF EnterMode, Say, ReadData, Continue, Reply, Inv, TypeOK
  <1>. QED
    BY <1>1, <1>4, <1>5, <1>6, <1>7, <1>8, <1>9 DEF EnterMode, Inv, TypeOK

LEMMA HandleErrorInv ==
    ASSUME Inv, HandleError
    PROVE  Inv'
  <1>1. itr \in Nat /\ itr <= eoM /\ eoM <= pos /\ eoM \in 0..size /\ size \in Nat
    BY Places DEF Inv, Placed, HandleError, Runs
  <1>2. SkipLine \in itr..eoM /\ AfterEOLN(SkipLine) \in SkipLine..eoM
    BY <1>1, SkipsStop, AfterEOLNStops
  <1>3. itr' \in itr..eoM
    BY <1>1, <1>2 DEF HandleError
  <1>4. /\ pos' \in 0..size /\ op' \in Operation /\ state' \in State
        /\ sent' \in Seq(Byte \cup Reply)
    BY Places DEF HandleError, ReadData, Continue, Runs,
       Operation, State, Inv, TypeOK
  <1>5. BlockType' /\ MovesDown'
    BY <1>4, BlockKept DEF HandleError, Inv, TypeOK, BlockType
  <1>6. Placed'
    BY <1>1, <1>3 DEF Placed, HandleError, Runs, ReadData, Continue
  <1>. QED
    BY <1>1, <1>3, <1>4, <1>5, <1>6 DEF HandleError, Inv, TypeOK

LEMMA StartProcessingInv ==
    ASSUME Inv, StartProcessing
    PROVE  Inv'
  <1>1. /\ itr \in Nat /\ itr <= eoM /\ eoM <= pos /\ eoM \in 0..size
        /\ size \in Nat \ {0}
    BY Places DEF Inv, Placed, StartProcessing, Runs
  <1>2. itr' \in itr..eoM
    BY <1>1, SkipsStop DEF StartProcessing
  <1>3. pos' \in 0..size /\ op' \in Operation /\ state' \in State
    BY Places DEF StartProcessing, Say, ReadData, Runs, Operation, State, Inv, TypeOK
  <1>4. sent' \in Seq(Byte \cup Reply)
    <2>1. \A m \in Reply : Append(sent, m) \in Seq(Byte \cup Reply)
      BY SayType
    <2>. QED
      BY <2>1 DEF StartProcessing, Say, ReadData, Reply, Inv, TypeOK
  <1>5. BlockType' /\ MovesDown'
    <2>1. CASE UNCHANGED scan
      BY <1>3, <2>1, BlockKept DEF StartProcessing, EodState
    <2>2. CASE itr' < eoM /\ GetEoD(itr')
      <3>1. scan' \in ScanType /\ MovesDown'
        BY <1>1, <1>2, <2>2, GetEoDScans DEF StartProcessing
      <3>. QED
        BY <1>3, <3>1 DEF StartProcessing, EodState, BlockType, ScanType, Inv, TypeOK
    <2>. QED
      BY <2>1, <2>2 DEF StartProcessing
  <1>6. Placed'
    <2>1. op' = "scanRest" => scan'.start = itr'
      BY DEF StartProcessing, GetEoD, Say, ReadData
    <2>. QED
      BY <1>1, <1>2, <2>1 DEF Placed, StartProcessing, Runs, Say, ReadData
  <1>. QED
    BY <1>1, <1>2, <1>3, <1>4, <1>5, <1>6 DEF StartProcessing, Inv, TypeOK

LEMMA ScanBlockInv ==
    ASSUME Inv, ScanBlock
    PROVE  Inv'
  <1>1. BlockType' /\ MovesDown' /\ scan'.start = scan.start
    BY ScanStepScans DEF Inv, TypeOK, Scans, ScanBlock
  <1>2. Placed'
    BY <1>1 DEF Inv, Placed, ScanBlock, ScanStep
  <1>. QED
    BY <1>1, <1>2 DEF Inv, TypeOK, ScanBlock, ScanStep

LEMMA ScanEndsInv ==
    ASSUME Inv, ScanEnds
    PROVE  Inv'
  <1>1. /\ scan.start \in Nat /\ scan.dstsize \in Nat /\ size \in Nat
        /\ scan.start + scan.dstsize <= size
        /\ scan.eodpos = NotFound \/ scan.eodpos \in 0 .. scan.dstsize - 1
    BY SMTT(30), Places DEF Inv, TypeOK, BlockType, ScanType, MovesDown, BufSize
  <1>2. PICK e \in 0..size, d \in 0..size :
            /\ End = e /\ EoD = d
            /\ scan.start <= d /\ d <= e
    <2>1. End \in scan.start .. size
      BY <1>1 DEF End
    <2>2. CASE scan.eodpos = NotFound
      BY <1>1, <2>1, <2>2 DEF EoD
    <2>3. CASE scan.eodpos # NotFound
      BY <1>1, <2>3 DEF EoD, End
    <2>. QED
      BY <1>1, <2>1, <2>2, <2>3
  <1>3. pos' = e /\ eoM' = e /\ eoD' = d
    BY <1>2 DEF ScanEnds
  <1>4. itr' = scan.start
    BY DEF Inv, Placed, ScanEnds
  <1>5. Placed'
    <2>1. itr' <= eoD' /\ eoD' <= eoM' /\ itr' <= eoM' /\ eoM' <= pos'
      BY <1>1, <1>2, <1>3, <1>4
    <2>2. op' \notin {"scanInput", "scanRest"}
      BY DEF ScanEnds
    <2>. QED
      BY <2>1, <2>2 DEF Placed
  <1>6. BlockType' /\ MovesDown'
    BY <1>3, BlockKept DEF ScanEnds, Inv, TypeOK, BlockType
  <1>7. sent' \in Seq(Byte \cup Reply)
    BY SayType DEF ScanEnds, Reply, Inv, TypeOK
  <1>. QED
    BY <1>3, <1>5, <1>6, <1>7 DEF ScanEnds, Operation, Inv, TypeOK

LEMMA ReleaseInv ==
    ASSUME Inv, Release
    PROVE  Inv'
  <1>1. BlockType' /\ MovesDown'
    BY BlockKept DEF Release, block, Inv, TypeOK, BlockType
  <1>2. Placed'
    BY DEF Inv, Placed, Release, Runs, block
  <1>3. output' \in Seq(Byte) /\ Len(output') <= outSize
    BY EmptySeq, PechoAssumption DEF Release, Inv, TypeOK
  <1>. QED
    BY <1>1, <1>2, <1>3 DEF Release, block, State, Inv, TypeOK

LEMMA ProcessingInv ==
    ASSUME Inv, Processing
    PROVE  Inv'
  <1>1. /\ itr \in Nat /\ itr <= eoD /\ eoD <= eoM /\ eoM <= pos
        /\ pos \in 0..size /\ eoM \in 0..size /\ eoD \in Nat
        /\ size \in Nat \ {0}
    BY Places DEF Inv, Placed, Processing, Runs
  <1>2. Len(output) \in Nat /\ outSize \in Nat /\ Room \in Nat
    BY LenProperties, PechoAssumption DEF Room, Inv, TypeOK
  <1>3. itr' \in itr..eoD /\ itr' - itr <= Room
    BY <1>1, <1>2 DEF Processing
  <1>4. output' \in Seq(Byte) /\ Len(output') <= outSize
    <2>1. PICK f \in [Byte -> Byte] : \A b \in Byte : Filter(b) = f[b]
      <3>1. mode = "Ident" => \A b \in Byte : Filter(b) = [c \in Byte |-> c][b]
        BY DEF Filter
      <3>2. mode = "Uppercase" => \A b \in Byte : Filter(b) = Upper[b]
        BY DEF Filter
      <3>3. mode = "Lowercase" => \A b \in Byte : Filter(b) = Lower[b]
        BY DEF Filter
      <3>. QED
        BY <3>1, <3>2, <3>3, PechoAssumption DEF Mode, Inv, TypeOK
    <2>2. PICK to \in Nat : itr' = to /\ itr <= to /\ to <= size
      BY <1>1, <1>3
    <2>. DEFINE more == [k \in 1 .. to - itr |-> f[buf[itr + k - 1]]]
    <2>3. \A k \in 1 .. to - itr : buf[itr + k - 1] \in Byte
      <3>. SUFFICES ASSUME NEW k \in 1 .. to - itr
                    PROVE  buf[itr + k - 1] \in Byte
        OBVIOUS
      <3>1. itr + k - 1 \in 0 .. size - 1
        BY <1>1, <2>2
      <3>. QED
        BY <3>1 DEF Inv, TypeOK, BlockType
    <2>4. output' = output \o more
      BY <2>1, <2>2, <2>3 DEF Processing, Printed
    <2>5. more \in Seq(Byte) /\ Len(more) = to - itr
      BY <1>1, <2>2, BytesBetween DEF Inv, TypeOK
    <2>6. output' \in Seq(Byte) /\ Len(output') = Len(output) + Len(more)
      <3>. HIDE DEF more
      <3>. QED
        BY <2>4, <2>5, ConcatProperties DEF Inv, TypeOK
    <2>. HIDE DEF more
    <2>. QED
      BY <1>1, <1>2, <1>3, <2>2, <2>5, <2>6 DEF Room
  <1>5. /\ pos' \in 0..size /\ op' \in Operation /\ state' \in State
        /\ eodState' \in EodState
    BY <1>1 DEF Processing, ReadData, SendOutput, Runs, Operation, State, EodState,
       Inv, TypeOK, BlockType
  <1>6. sent' \in Seq(Byte \cup Reply)
    <2>1. output' \in Seq(Byte \cup Reply)
      BY <1>4, SeqMonotonic
    <2>2. sent \o output' \in Seq(Byte \cup Reply)
      BY <2>1, ConcatProperties DEF Inv, TypeOK
    <2>. QED
      BY <2>2 DEF Processing, ReadData, SendOutput, Inv, TypeOK
  <1>7. BlockType' /\ MovesDown'
    BY <1>5, BlockKept DEF Processing
  <1>8. Placed'
    BY <1>1, <1>3 DEF Placed, Processing, Runs, ReadData, SendOutput
  <1>. QED
    BY <1>1, <1>3, <1>4, <1>5, <1>6, <1>7, <1>8 DEF Processing, Inv, TypeOK

LEMMA NetworkInputInv ==
    ASSUME Inv, NEW n \in 1..size, NetworkInput(n)
    PROVE  Inv'
  <1>1. size \in Nat \ {0} /\ n \in 0..size /\ n \in Nat
    BY Places
  <1>2. Len(unread) \in Nat /\ n <= Len(unread)
    BY LenProperties DEF NetworkInput, Inv, TypeOK
  <1>3. buf' \in [0 .. size - 1 -> Byte]
    <2>1. \A i \in 0 .. size - 1 : i < n => unread[i + 1] \in Byte
      BY <1>1, <1>2, ElementOfSeq DEF Inv, TypeOK
    <2>. QED
      BY <1>1, <2>1 DEF NetworkInput, Inv, TypeOK, BlockType
  <1>4. unread' \in Seq(Byte)
    <2>1. \A i \in n + 1 .. Len(unread) : unread[i] \in Byte
      BY <1>1, <1>2, ElementOfSeq DEF Inv, TypeOK
    <2>2. SubSeq(unread, n + 1, Len(unread)) \in Seq(Byte)
      BY <1>1, <1>2, <2>1, SubSeqProperties
    <2>. QED
      BY <2>2 DEF NetworkInput
  <1>5. BlockType' /\ MovesDown'
    <2>1. CASE GetEoD(0)
      <3>1. scan' \in ScanType /\ MovesDown'
        BY <1>1, <2>1, GetEoDScans DEF NetworkInput
      <3>. QED
        BY <1>1, <1>3, <3>1 DEF NetworkInput, BlockType, ScanType, Inv, TypeOK
    <2>2. CASE UNCHANGED scan
      BY <1>1, <1>3, <2>2
      DEF NetworkInput, BlockType, ScanType, MovesDown, BufSize, Inv, TypeOK
    <2>. QED
      BY <2>1, <2>2 DEF NetworkInput
  <1>6. Placed'
    <2>1. op' = "scanInput" => scan'.start = 0
      BY DEF NetworkInput, GetEoD
    <2>. QED
      BY <1>1, <2>1 DEF NetworkInput, Placed
  <1>. QED
    BY <1>1, <1>3, <1>4, <1>5, <1>6 DEF NetworkInput, Operation, Inv, TypeOK

LEMMA OtherInv ==
    ASSUME Inv, Close \/ Written \/ SignalTerminate \/ UNCHANGED vars
    PROVE  Inv'
  <1>1. BlockType' /\ MovesDown'
    BY BlockKept
    DEF Close, Written, SignalTerminate, vars, block, Inv, TypeOK, BlockType
  <1>2. Placed'
    BY DEF Close, Written, SignalTerminate, vars, block, Inv, Placed, Runs
  <1>. QED
    BY <1>1, <1>2
    DEF Close, Written, SignalTerminate, vars, block, Operation, State, Inv, TypeOK

-------------------------------------------------------------------------------
(* The inductive invariant of the handler and its blocks. *)
THEOREM Inductive == Spec => []Inv
  <1>1. Inv /\ [Next]_vars => Inv'
    <2>. SUFFICES ASSUME Inv, [Next]_vars PROVE Inv'
      OBVIOUS
    <2>. QED
      BY GreetInv, EnterCommandInv, EmptyLineInv, EnterModeInv, StartProcessingInv,
         ScanBlockInv, ScanEndsInv, ReleaseInv, ProcessingInv, HandleErrorInv,
         NetworkInputInv, OtherInv
      DEF Next, Serve
  <1>. QED
    BY InitInv, <1>1, PTL DEF Spec

(* Type correctness. *)
THEOREM PechoTypeCorrect == Spec => []TypeOK
  BY Inductive, PTL DEF Inv

(* For blocks of any size and input cut anywhere, stale bytes included:    *)
(* getEoD writes only inside of the block and the handler reads only what  *)
(* lies before the end of the message.                                     *)
THEOREM StaysInBounds == Spec => []InBounds
  <1>1. Inv => InBounds
    BY DEF Inv, Placed, InBounds
  <1>. QED
    BY Inductive, <1>1, PTL
-------------------------------------------------------------------------------
(***************************************************************************)
(* The words of a command.                                                 *)
(***************************************************************************)

(* Where the value of the command buffer may begin in the bytes s. *)
Starts(s) == {k \in 1 .. Len(s) + 1 :
                 /\ \A j \in k .. Len(s) : s[j] \in Alnum
                 /\ k <= Len(s) => s[k] # Zero}

LEMMA FirstStart ==
    ASSUME NEW s \in Seq(Byte)
    PROVE  /\ Min(Starts(s)) \in Starts(s) /\ Min(Starts(s)) \in 1 .. Len(s) + 1
           /\ \A k \in Starts(s) : Min(Starts(s)) <= k
           /\ CmdValue(s) = SubSeq(s, Min(Starts(s)), Len(s))
  <1>1. Len(s) \in Nat
    BY LenProperties
  <1>2. Starts(s) \in SUBSET Nat /\ Len(s) + 1 \in Starts(s)
    BY <1>1 DEF Starts
  <1>3. Min(Starts(s)) \in Starts(s) /\ \A k \in Starts(s) : Min(Starts(s)) <= k
    BY <1>2, LeastExists
  <1>4. Min(Starts(s)) \in 1 .. Len(s) + 1
    BY <1>3 DEF Starts
  <1>5. CmdValue(s) = SubSeq(s, Min(Starts(s)), Len(s))
    BY DEF CmdValue, Starts
  <1>. QED
    BY <1>3, <1>4, <1>5

(* The end of a sequence, from place m on. *)
LEMMA Suffix ==
    ASSUME NEW s \in Seq(Byte), NEW m \in 1 .. Len(s) + 1
    PROVE  /\ SubSeq(s, m, Len(s)) \in Seq(Byte)
           /\ Len(SubSeq(s, m, Len(s))) = Len(s) - m + 1
           /\ \A i \in 1 .. Len(s) - m + 1 : SubSeq(s, m, Len(s))[i] = s[m + i - 1]
  <1>1. Len(s) \in Nat /\ m \in Int /\ Len(s) \in Int
    BY LenProperties
  <1>2. \A i \in m .. Len(s) : s[i] \in Byte
    <2>1. \A i \in 1 .. Len(s) : s[i] \in Byte
      BY ElementOfSeq
    <2>. QED
      BY <1>1, <2>1
  <1>. QED
    BY <1>1, <1>2, SubSeqProperties

(* A word may be cut by the end of a block: what the command buffer makes  *)
(* of its parts, one after the other, is what it makes of the whole.       *)
THEOREM WordsSurviveCuts ==
    ASSUME NEW s \in Seq(Byte), NEW t \in Seq(Byte)
    PROVE  CmdValue(CmdValue(s) \o t) = CmdValue(s \o t)
  <1>. DEFINE m == Min(Starts(s))
              u == s \o t
              v == CmdValue(s)
              w == v \o t
  <1>1. /\ Len(s) \in Nat /\ Len(t) \in Nat
        /\ m \in 1 .. Len(s) + 1 /\ m \in Nat
        /\ m \in Starts(s) /\ \A k \in Starts(s) : m <= k
        /\ v = SubSeq(s, m, Len(s))
    BY LenProperties, FirstStart
  <1>. HIDE DEF m
  <1>2. /\ v \in Seq(Byte) /\ Len(v) = Len(s) - m + 1
        /\ \A i \in 1 .. Len(s) - m + 1 : v[i] = s[m + i - 1]
    BY <1>1, Suffix
  <1>. HIDE DEF v
  <1>3. /\ u \in Seq(Byte) /\ Len(u) = Len(s) + Len(t)
        /\ \A i \in 1 .. Len(s) + Len(t) :
              u[i] = IF i <= Len(s) THEN s[i] ELSE t[i - Len(s)]
    BY ConcatProperties
  <1>4. /\ w \in Seq(Byte) /\ Len(w) = Len(v) + Len(t)
        /\ \A i \in 1 .. Len(v) + Len(t) :
              w[i] = IF i <= Len(v) THEN v[i] ELSE t[i - Len(v)]
    BY <1>2, ConcatProperties
  <1>. HIDE DEF u, w
  <1>5. Len(w) = Len(u) - m + 1
    BY <1>1, <1>2, <1>3, <1>4
  <1>6. \A i \in 1 .. Len(w) : w[i] = u[m + i - 1]
    <2>. SUFFICES ASSUME NEW i \in 1 .. Len(w) PROVE w[i] = u[m + i - 1]
      OBVIOUS
    <2>1. i \in 1 .. Len(v) + Len(t) /\ m + i - 1 \in 1 .. Len(s) + Len(t)
      BY <1>1, <1>2, <1>3, <1>4, <1>5
    <2>2. CASE i <= Len(v)
      <3>1. w[i] = v[i] /\ v[i] = s[m + i - 1]
        BY <1>1, <1>2, <1>4, <2>1, <2>2
      <3>2. m + i - 1 <= Len(s)
        BY <1>1, <1>2, <2>1, <2>2
      <3>. QED
        BY <1>3, <2>1, <3>1, <3>2
    <2>3. CASE ~ (i <= Len(v))
      <3>1. w[i] = t[i - Len(v)]
        BY <1>4, <2>1, <2>3
      <3>2. ~ (m + i - 1 <= Len(s)) /\ (m + i - 1) - Len(s) = i - Len(v)
        BY <1>1, <1>2, <2>1, <2>3
      <3>3. u[m + i - 1] = t[(m + i - 1) - Len(s)]
        BY <1>3, <2>1, <3>2
      <3>. QED
        BY <3>1, <3>2, <3>3
    <2>. QED
      BY <2>2, <2>3
  <1>7. Len(u) \in Nat /\ Len(w) \in Nat /\ m <= Len(u) + 1
    BY <1>1, <1>3, <1>4, LenProperties
  <1>8. \A k \in Starts(u) : m <= k
    <2>. SUFFICES ASSUME NEW k \in Starts(u), k < m PROVE FALSE
      BY <1>1, <1>7 DEF Starts
    <2>1. k \in 1 .. Len(u) + 1 /\ k <= Len(s)
      BY <1>1, <1>7 DEF Starts
    <2>2. \A j \in k .. Len(s) : u[j] = s[j]
      BY <1>1, <1>3, <2>1
    <2>3. \A j \in k .. Len(s) : s[j] \in Alnum
      <3>1. \A j \in k .. Len(u) : u[j] \in Alnum
        BY DEF Starts
      <3>2. \A j \in k .. Len(s) : j \in k .. Len(u)
        BY <1>1, <1>3
      <3>. QED
        BY <2>2, <3>1, <3>2
    <2>4. s[k] # Zero
      <3>1. u[k] # Zero
        BY <1>1, <1>3, <2>1 DEF Starts
      <3>2. k \in k .. Len(s)
        BY <1>1, <2>1
      <3>. QED
        BY <2>2, <3>1, <3>2
    <2>5. k \in Starts(s)
      BY <1>1, <2>1, <2>3, <2>4 DEF Starts
    <2>. QED
      BY <1>1, <2>1, <2>5
  <1>9. \A k \in 1 .. Len(w) + 1 : k \in Starts(w) <=> m + k - 1 \in Starts(u)
    <2>. SUFFICES ASSUME NEW k \in 1 .. Len(w) + 1
                  PROVE  k \in Starts(w) <=> m + k - 1 \in Starts(u)
      OBVIOUS
    <2>1. m + k - 1 \in 1 .. Len(u) + 1
      BY <1>1, <1>5, <1>7
    <2>2. k <= Len(w) => w[k] = u[m + k - 1]
      BY <1>6, <1>7
    <2>3. k <= Len(w) <=> m + k - 1 <= Len(u)
      BY <1>1, <1>5, <1>7
    <2>4. (\A j \in k .. Len(w) : w[j] \in Alnum)
              <=> (\A j \in m + k - 1 .. Len(u) : u[j] \in Alnum)
      <3>1. ASSUME \A j \in k .. Len(w) : w[j] \in Alnum,
                   NEW j \in m + k - 1 .. Len(u)
            PROVE  u[j] \in Alnum
        <4>1. j - m + 1 \in k .. Len(w) /\ j - m + 1 \in 1 .. Len(w)
          BY <1>1, <1>5, <1>7
        <4>2. m + (j - m + 1) - 1 = j
          BY <1>1, <1>7
        <4>3. w[j - m + 1] = u[m + (j - m + 1) - 1]
          BY <1>6, <4>1
        <4>. QED
          BY <3>1, <4>1, <4>2, <4>3
      <3>2. ASSUME \A j \in m + k - 1 .. Len(u) : u[j] \in Alnum,
                   NEW j \in k .. Len(w)
            PROVE  w[j] \in Alnum
        <4>1. m + j - 1 \in m + k - 1 .. Len(u) /\ j \in 1 .. Len(w)
          BY <1>1, <1>5, <1>7
        <4>. QED
          BY <1>6, <3>2, <4>1
      <3>. QED
        BY <3>1, <3>2
    <2>. QED
      BY <2>1, <2>2, <2>3, <2>4 DEF Starts
  <1>. DEFINE mu == Min(Starts(u))
              mw == Min(Starts(w))
  <1>10. /\ mu \in Starts(u) /\ mu \in 1 .. Len(u) + 1 /\ \A k \in Starts(u) : mu <= k
         /\ CmdValue(u) = SubSeq(u, mu, Len(u))
    BY <1>3, FirstStart
  <1>11. /\ mw \in Starts(w) /\ mw \in 1 .. Len(w) + 1 /\ \A k \in Starts(w) : mw <= k
         /\ CmdValue(w) = SubSeq(w, mw, Len(w))
    BY <1>4, FirstStart
  <1>. HIDE DEF mu, mw
  <1>12. mu = m + mw - 1
    <2>1. m + mw - 1 \in Starts(u)
      BY <1>9, <1>11
    <2>2. mu <= m + mw - 1
      BY <1>10, <2>1
    <2>3. mu - m + 1 \in 1 .. Len(w) + 1
      BY <1>1, <1>5, <1>7, <1>8, <1>10
    <2>4. m + (mu - m + 1) - 1 = mu
      BY <1>1, <1>10
    <2>5. mu - m + 1 \in Starts(w)
      BY <1>9, <1>10, <2>3, <2>4
    <2>6. mw <= mu - m + 1
      BY <1>11, <2>5
    <2>. QED
      BY <1>1, <1>7, <1>10, <1>11, <2>2, <2>6
  <1>13. /\ CmdValue(w) \in Seq(Byte) /\ Len(CmdValue(w)) = Len(w) - mw + 1
         /\ \A i \in 1 .. Len(w) - mw + 1 : CmdValue(w)[i] = w[mw + i - 1]
    BY <1>4, <1>11, Suffix
  <1>14. /\ CmdValue(u) \in Seq(Byte) /\ Len(CmdValue(u)) = Len(u) - mu + 1
         /\ \A i \in 1 .. Len(u) - mu + 1 : CmdValue(u)[i] = u[mu + i - 1]
    BY <1>3, <1>10, Suffix
  <1>15. Len(w) - mw + 1 = Len(u) - mu + 1
    BY <1>1, <1>5, <1>7, <1>11, <1>12
  <1>16. \A i \in 1 .. Len(u) - mu + 1 : w[mw + i - 1] = u[mu + i - 1]
    <2>. SUFFICES ASSUME NEW i \in 1 .. Len(u) - mu + 1
                  PROVE  w[mw + i - 1] = u[mu + i - 1]
      OBVIOUS
    <2>1. mw + i - 1 \in 1 .. Len(w) /\ m + (mw + i - 1) - 1 = mu + i - 1
      BY <1>1, <1>7, <1>10, <1>11, <1>12, <1>15
    <2>2. w[mw + i - 1] = u[m + (mw + i - 1) - 1]
      BY <1>6, <2>1
    <2>. QED
      BY <2>1, <2>2
  <1>17. CmdValue(w) = CmdValue(u)
    BY <1>13, <1>14, <1>15, <1>16, SeqEqual
  <1>. QED
    BY <1>17 DEF u, w, v
-------------------------------------------------------------------------------
(***************************************************************************)
(* What getEoD finds and leaves, in whatever pieces it moves the bytes: it *)
(* is what PechoSession says of them, a byte at a time.                    *)
(***************************************************************************)

(* getEoD has the bytes b before it, and is in the state q[0]. *)
Faces(n, b, q) ==
    /\ BufSize = n /\ \A k \in 0 .. n - 1 : At(k) = b[k]
    /\ eodState = q[0]

Begins(n, b, q) ==
    /\ BlockType /\ Faces(n, b, q)
    /\ scan.bufpos = 0 /\ scan.eatsize = 0 /\ scan.dstsize = 0
    /\ scan.eodpos = NotFound

(* And this is how it should end: every byte of data is at its place, and  *)
(* the end of the block and the end of data are where they belong.         *)
Unescaped(n, b, q, dst) ==
    /\ eodState = q[n]
    /\ End = scan.start + dst[n]
    /\ \A k \in 0 .. n - 1 : Kept(q[k], b[k]) => At(dst[k]) = b[k]
    /\ \A k \in 0 .. n - 1 : Finds(q[k], b[k]) => EoD = scan.start + dst[k]
    /\ (\A k \in 0 .. n - 1 : ~ Finds(q[k], b[k])) => EoD = End

(* On the way: the state is the one it should be, but that getEoD skips a  *)
(* state when the end of data ends without a line feed; the bytes from     *)
(* eatsize to bufpos are kept and wait to be moved; those before are       *)
(* where they belong, those behind where they were.                        *)
Follows(n, q) ==
    \/ eodState = q[scan.bufpos]
    \/ /\ scan.bufpos < n
       /\ eodState = "LF_DOT_CR_LF" /\ q[scan.bufpos] = "LF_DOT_CR"

CountedTo(to, dst) ==
    \A k \in scan.eatsize .. to : dst[k] = scan.dstsize + (k - scan.eatsize)

Counted(n, b, q, dst) ==
    /\ CountedTo(scan.bufpos, dst)
    /\ \A k \in scan.eatsize .. scan.bufpos - 1 : Kept(q[k], b[k])
    /\ \A k \in 0 .. scan.eatsize - 1 : ~ Eaten(q[k], b[k]) => dst[k] < scan.dstsize
    /\ scan.bufpos = n => scan.eatsize = n

Moved(n, b, q, dst) ==
    /\ \A k \in 0 .. scan.eatsize - 1 : Kept(q[k], b[k]) => At(dst[k]) = b[k]
    /\ \A k \in scan.eatsize .. n - 1 : At(k) = b[k]

Found(b, q, dst) ==
    /\ \A k \in 0 .. scan.bufpos - 1 :
          Finds(q[k], b[k]) =>
              scan.eodpos = dst[k] /\ eodState \in {"LF_DOT_CR", "LF_DOT_CR_LF"}
    /\ (\A k \in 0 .. scan.bufpos - 1 : ~ Finds(q[k], b[k])) => scan.eodpos = NotFound

ScanInv(n, b, q, dst) ==
    /\ Scans /\ BufSize = n
    /\ Follows(n, q) /\ Counted(n, b, q, dst) /\ Moved(n, b, q, dst) /\ Found(b, q, dst)

(* What goes on from one place to the next goes on over all of them. *)
LEMMA Stretch ==
    ASSUME NEW i \in Nat, NEW j \in Nat, NEW S, i \in S,
           \A k \in i .. j - 1 : k \in S => k + 1 \in S
    PROVE  \A k \in i..j : k \in S
  <1>. DEFINE outside == {k \in i..j : k \notin S}
  <1>. SUFFICES ASSUME outside # {} PROVE FALSE
    OBVIOUS
  <1>1. outside \in SUBSET Nat
    OBVIOUS
  <1>2. PICK m \in outside : \A k \in outside : m <= k
    <2>. HIDE DEF outside
    <2>. QED
      BY <1>1, LeastExists
  <1>3. m # i /\ m - 1 \in i .. j - 1 /\ m - 1 \notin outside
    BY <1>2
  <1>4. m - 1 \in S
    BY <1>3
  <1>5. (m - 1) + 1 \in S
    BY <1>3, <1>4
  <1>. QED
    BY <1>2, <1>5

(* Bytes that all stay are counted one by one. *)
LEMMA StretchCounted ==
    ASSUME NEW n, NEW b, NEW q, NEW dst, ByteByByte(n, b, q, dst),
           NEW i \in 0..n, NEW j \in i..n,
           \A k \in i .. j - 1 : Kept(q[k], b[k])
    PROVE  \A k \in i..j : dst[k] = dst[i] + (k - i)
  <1>. DEFINE S == {k \in i..j : dst[k] = dst[i] + (k - i)}
  <1>1. n \in Nat /\ i \in Nat /\ j \in Nat /\ dst[i] \in Nat
    BY DEF ByteByByte
  <1>2. i \in S
    BY <1>1
  <1>3. ASSUME NEW k \in i .. j - 1, k \in S PROVE k + 1 \in S
    <2>1. k \in 0 .. n - 1 /\ dst[k + 1] = dst[k] + 1
      BY <1>1 DEF ByteByByte, Kept
    <2>. QED
      BY <1>1, <1>3, <2>1
  <1>. HIDE DEF S
  <1>4. \A k \in i..j : k \in S
    BY <1>1, <1>2, <1>3, Stretch
  <1>. QED
    BY <1>4 DEF S

(* No line begins where there is no line feed. *)
LEMMA StretchOfSource ==
    ASSUME NEW n, NEW b, NEW q, NEW dst, ByteByByte(n, b, q, dst),
           NEW i \in 0..n, NEW j \in i..n, q[i] = "SRC",
           \A k \in i .. j - 1 : b[k] # LF
    PROVE  \A k \in i..j : q[k] = "SRC"
  <1>. DEFINE S == {k \in i..j : q[k] = "SRC"}
  <1>1. n \in Nat /\ i \in Nat /\ i \in S
    BY DEF ByteByByte
  <1>2. ASSUME NEW k \in i .. j - 1, k \in S PROVE k + 1 \in S
    <2>1. k \in 0 .. n - 1 /\ q[k + 1] = After(q[k], b[k])
      BY <1>1 DEF ByteByByte
    <2>. QED
      BY <1>2, <2>1 DEF After
  <1>. HIDE DEF S
  <1>3. \A k \in i..j : k \in S
    BY <1>1, <1>2, Stretch
  <1>. QED
    BY <1>3 DEF S

(* What follows the end of data is left alone. *)
LEMMA StretchOfRest ==
    ASSUME NEW n, NEW b, NEW q, NEW dst, ByteByByte(n, b, q, dst),
           NEW i \in 0..n, q[i] \in {"LF_DOT_CR", "LF_DOT_CR_LF"}
    PROVE  \A k \in i..n : /\ q[k] \in {"LF_DOT_CR", "LF_DOT_CR_LF"}
                           /\ k # i => q[k] = "LF_DOT_CR_LF"
  <1>. DEFINE S == {k \in i..n : /\ q[k] \in {"LF_DOT_CR", "LF_DOT_CR_LF"}
                                 /\ k # i => q[k] = "LF_DOT_CR_LF"}
  <1>1. n \in Nat /\ i \in Nat /\ i \in S
    BY DEF ByteByByte
  <1>2. ASSUME NEW k \in i .. n - 1, k \in S PROVE k + 1 \in S
    <2>1. k \in 0 .. n - 1 /\ q[k + 1] = After(q[k], b[k])
      BY <1>1 DEF ByteByByte
    <2>2. q[k] \in {"LF_DOT_CR", "LF_DOT_CR_LF"}
      BY <1>2
    <2>3. q[k + 1] = "LF_DOT_CR_LF"
      BY <2>1, <2>2 DEF After
    <2>4. k + 1 \in i..n
      BY <1>1
    <2>. QED
      BY <2>3, <2>4
  <1>. HIDE DEF S
  <1>3. \A k \in i..n : k \in S
    BY <1>1, <1>2, Stretch
  <1>. QED
    BY <1>3 DEF S

(* What moveInput does: the bytes from eatsize on get to their places.     *)
LEMMA MoveInputMoves ==
    ASSUME NEW n, NEW b, NEW q, NEW dst, ByteByByte(n, b, q, dst),
           ScanInv(n, b, q, dst), NEW to \in scan.bufpos .. n,
           CountedTo(to, dst)
    PROVE  /\ \A k \in 0 .. to - 1 :
                 Kept(q[k], b[k]) => MoveInput(to)[scan.start + dst[k]] = b[k]
           /\ \A k \in to .. n - 1 : MoveInput(to)[scan.start + k] = b[k]
           /\ \A k \in 0 .. to - 1 :
                 ~ Eaten(q[k], b[k]) => dst[k] < scan.dstsize + (to - scan.eatsize)
  <1>. DEFINE s == scan.start
              e == scan.eatsize
              d == scan.dstsize
  <1>1. /\ size \in Nat /\ size = s + n /\ n \in Nat
        /\ s \in Nat /\ d \in Nat /\ e \in Nat
        /\ to \in Nat /\ to <= n /\ d <= e /\ e <= to
    BY BlockAssumption
    DEF ScanInv, Scans, BlockType, ScanType, BufSize, MovesDown, ByteByByte
  <1>2. ASSUME NEW i \in 0 .. size - 1
        PROVE  MoveInput(to)[i] = IF i \in s + d .. s + d + (to - e) - 1
                                  THEN buf[i + (e - d)] ELSE buf[i]
    <2>1. DOMAIN buf = 0 .. size - 1
      BY DEF ScanInv, Scans, BlockType
    <2>. QED
      BY <2>1 DEF MoveInput
  <1>3. dst \in [0..n -> Nat]
    BY DEF ByteByByte
  <1>4. /\ \A k \in 0 .. e - 1 : ~ Eaten(q[k], b[k]) => dst[k] < d
        /\ \A k \in 0 .. e - 1 : Kept(q[k], b[k]) => buf[s + dst[k]] = b[k]
        /\ \A k \in e .. n - 1 : buf[s + k] = b[k]
        /\ \A k \in e .. to : dst[k] = d + (k - e)
    BY DEF ScanInv, Counted, CountedTo, Moved, At
  <1>. HIDE DEF s, e, d
  <1>5. ASSUME NEW k \in 0 .. to - 1, Kept(q[k], b[k])
        PROVE  MoveInput(to)[s + dst[k]] = b[k]
    <2>1. CASE k < e
      <3>1. dst[k] \in Nat /\ dst[k] < d /\ buf[s + dst[k]] = b[k]
        BY <1>1, <1>3, <1>4, <1>5, <2>1 DEF Kept
      <3>2. s + dst[k] \in 0 .. size - 1
        BY <1>1, <3>1
      <3>. QED
        BY <1>1, <1>2, <3>1, <3>2
    <2>2. CASE e <= k
      <3>1. dst[k] = d + (k - e)
        BY <1>1, <1>4, <2>2
      <3>2. s + dst[k] \in 0 .. size - 1
        BY <1>1, <2>2, <3>1
      <3>3. s + dst[k] \in s + d .. s + d + (to - e) - 1
        BY <1>1, <2>2, <3>1
      <3>4. s + dst[k] + (e - d) = s + k
        BY <1>1, <3>1
      <3>5. MoveInput(to)[s + dst[k]] = buf[s + k]
        BY <1>2, <3>2, <3>3, <3>4
      <3>. QED
        BY <1>1, <1>4, <2>2, <3>5
    <2>. QED
      BY <1>1, <2>1, <2>2
  <1>6. ASSUME NEW k \in to .. n - 1
        PROVE  MoveInput(to)[s + k] = b[k]
    <2>1. s + k \in 0 .. size - 1
      BY <1>1
    <2>2. s + k \notin s + d .. s + d + (to - e) - 1
      BY <1>1
    <2>3. MoveInput(to)[s + k] = buf[s + k]
      BY <1>2, <2>1, <2>2
    <2>. QED
      BY <1>1, <1>4, <2>3
  <1>7. ASSUME NEW k \in 0 .. to - 1, ~ Eaten(q[k], b[k])
        PROVE  dst[k] < d + (to - e)
    <2>1. CASE k < e
      <3>1. dst[k] \in Nat /\ dst[k] < d
        BY <1>1, <1>3, <1>4, <1>7, <2>1
      <3>. QED
        BY <1>1, <3>1
    <2>2. CASE e <= k
      <3>1. dst[k] = d + (k - e)
        BY <1>1, <1>4, <2>2
      <3>. QED
        BY <1>1, <2>2, <3>1
    <2>. QED
      BY <1>1, <2>1, <2>2
  <1>. QED
    BY <1>5, <1>6, <1>7 DEF s, e, d

(* bufpos goes on over bytes that are data. *)
LEMMA KeepIsRight ==
    ASSUME NEW n, NEW b, NEW q, NEW dst, ByteByByte(n, b, q, dst),
           ScanInv(n, b, q, dst), NEW to \in scan.bufpos .. n, Keep(to),
           \A k \in scan.bufpos .. to - 1 : Kept(q[k], b[k])
    PROVE  /\ Counted(n, b, q, dst)' /\ Moved(n, b, q, dst)'
           /\ scan'.bufpos = to /\ scan'.eodpos = scan.eodpos
  <1>1. /\ size \in Nat /\ n = BufSize /\ n \in Nat
        /\ scan.start \in Nat /\ scan.dstsize \in Nat /\ scan.eatsize \in Nat
        /\ scan.bufpos \in Nat /\ to \in Nat /\ to <= n
        /\ scan.eatsize <= scan.bufpos /\ scan.bufpos <= to
        /\ scan \in ScanType
    BY BlockAssumption
    DEF ScanInv, Scans, BlockType, ScanType, BufSize, MovesDown, ByteByByte
  <1>2. \A k \in scan.eatsize .. scan.bufpos : dst[k] = scan.dstsize + (k - scan.eatsize)
    BY DEF ScanInv, Counted, CountedTo
  <1>3. \A k \in scan.bufpos .. to : dst[k] = dst[scan.bufpos] + (k - scan.bufpos)
    BY <1>1, StretchCounted
  <1>4. CountedTo(to, dst)
    BY <1>1, <1>2, <1>3 DEF CountedTo
  <1>5. \A k \in scan.eatsize .. to - 1 : Kept(q[k], b[k])
    BY <1>1 DEF ScanInv, Counted
  <1>6. CASE to = n
    <2>1. scan' = [scan EXCEPT !.bufpos = to, !.eatsize = to,
                               !.dstsize = scan.dstsize + (to - scan.eatsize)]
      BY <1>1, <1>6 DEF Keep
    <2>2. /\ scan'.start = scan.start /\ scan'.bufpos = to /\ scan'.eatsize = to
          /\ scan'.dstsize = scan.dstsize + (to - scan.eatsize)
          /\ scan'.eodpos = scan.eodpos
      BY <1>1, <2>1 DEF ScanType
    <2>3. buf' = MoveInput(to)
      BY <1>1, <1>6 DEF Keep
    <2>4. dst[to] = scan.dstsize + (to - scan.eatsize)
      BY <1>1, <1>4 DEF CountedTo
    <2>5. Counted(n, b, q, dst)'
      <3>1. \A k \in to..to : dst[k] = scan'.dstsize + (k - to)
        BY <1>1, <2>2, <2>4
      <3>2. \A k \in 0 .. to - 1 : ~ Eaten(q[k], b[k]) => dst[k] < scan'.dstsize
        BY <1>4, <2>2, MoveInputMoves
      <3>3. \A k \in to .. to - 1 : Kept(q[k], b[k])
        BY <1>1
      <3>. QED
        BY <1>6, <2>2, <3>1, <3>2, <3>3 DEF Counted, CountedTo
    <2>6. Moved(n, b, q, dst)'
      BY <1>4, <2>2, <2>3, MoveInputMoves DEF Moved, At
    <2>. QED
      BY <2>2, <2>5, <2>6
  <1>7. CASE to # n
    <2>1. scan' = [scan EXCEPT !.bufpos = to] /\ buf' = buf
      BY <1>1, <1>7 DEF Keep
    <2>2. /\ scan'.start = scan.start /\ scan'.bufpos = to
          /\ scan'.eatsize = scan.eatsize /\ scan'.dstsize = scan.dstsize
          /\ scan'.eodpos = scan.eodpos
      BY <1>1, <2>1 DEF ScanType
    <2>3. Counted(n, b, q, dst)'
      BY <1>4, <1>5, <1>7, <2>2 DEF ScanInv, Counted, CountedTo
    <2>4. Moved(n, b, q, dst)'
      BY <2>1, <2>2 DEF ScanInv, Moved, At
    <2>. QED
      BY <2>2, <2>3, <2>4
  <1>. QED
    BY <1>6, <1>7

(* Nothing is found among them. *)
LEMMA KeepFindsNothing ==
    ASSUME NEW n, NEW b, NEW q, NEW dst,
           ScanInv(n, b, q, dst), NEW to \in scan.bufpos .. n, n \in Nat,
           \A k \in scan.bufpos .. to - 1 : Kept(q[k], b[k]),
           scan'.bufpos = to, scan'.eodpos = scan.eodpos,
           eodState \in {"LF_DOT_CR", "LF_DOT_CR_LF"}
               => eodState' \in {"LF_DOT_CR", "LF_DOT_CR_LF"}
    PROVE  Found(b, q, dst)'
  <1>1. scan.bufpos \in Nat /\ to \in Nat
    BY BlockAssumption DEF ScanInv, Scans, BlockType, ScanType
  <1>2. \A k \in scan.bufpos .. to - 1 : ~ Finds(q[k], b[k])
    BY DEF Kept
  <1>3. \A k \in 0 .. to - 1 : k \in 0 .. scan.bufpos - 1 \/ k \in scan.bufpos .. to - 1
    BY <1>1
  <1>4. \A k \in 0 .. scan.bufpos - 1 : k \in 0 .. to - 1
    BY <1>1
  <1>5. ASSUME NEW k \in 0 .. to - 1, Finds(q[k], b[k])
        PROVE  scan'.eodpos = dst[k] /\ eodState' \in {"LF_DOT_CR", "LF_DOT_CR_LF"}
    <2>1. k \in 0 .. scan.bufpos - 1
      BY <1>2, <1>3, <1>5
    <2>. QED
      BY <1>5, <2>1 DEF ScanInv, Found
  <1>6. (\A k \in 0 .. to - 1 : ~ Finds(q[k], b[k])) => scan'.eodpos = NotFound
    BY <1>4 DEF ScanInv, Found
  <1>. QED
    BY <1>5, <1>6 DEF Found

LEMMA ScanStepIsRight ==
    ASSUME NEW n, NEW b, NEW q, NEW dst, ByteByByte(n, b, q, dst),
           ScanInv(n, b, q, dst), ScanStep
    PROVE  ScanInv(n, b, q, dst)'
  <1>. DEFINE p == scan.bufpos
  <1>1. Scans' /\ scan'.start = scan.start /\ BufSize' = n
    BY ScanStepScans DEF ScanInv, ScanStep, BufSize
  <1>2. /\ n \in Nat /\ n = BufSize /\ p \in 0 .. n - 1 /\ p \in Nat
        /\ p \in p..n /\ p + 1 \in p..n /\ n \in p..n
        /\ scan.eatsize \in 0..p /\ scan.dstsize \in Nat /\ scan \in ScanType
    BY BlockAssumption
    DEF ScanInv, ScanStep, Scanning, Scans, BlockType, ScanType, BufSize, MovesDown, ByteByByte
  <1>3. Here = b[p] /\ \A k \in p .. n - 1 : At(k) = b[k]
    BY <1>2 DEF ScanInv, Moved, Here
  <1>4. q[p + 1] = After(q[p], b[p]) /\ q \in [0..n -> EodState]
    BY <1>2 DEF ByteByByte
  <1>5. eodState # "LF_DOT_CR_LF" => eodState = q[p]
    BY DEF ScanInv, Follows
  <1>6. ASSUME NEW to \in p..n, Keep(to), \A k \in p .. to - 1 : Kept(q[k], b[k]),
               Follows(n, q)',
               eodState \in {"LF_DOT_CR", "LF_DOT_CR_LF"}
                   => eodState' \in {"LF_DOT_CR", "LF_DOT_CR_LF"}
        PROVE  ScanInv(n, b, q, dst)'
    <2>1. /\ Counted(n, b, q, dst)' /\ Moved(n, b, q, dst)'
          /\ scan'.bufpos = to /\ scan'.eodpos = scan.eodpos
      BY <1>6, KeepIsRight
    <2>2. Found(b, q, dst)'
      BY <1>2, <1>6, <2>1, KeepFindsNothing
    <2>. QED
      BY <1>1, <1>6, <2>1, <2>2 DEF ScanInv
  <1>7. ASSUME NEW to \in p..n, Keep(to) PROVE scan'.bufpos = to
    BY <1>2, <1>7 DEF Keep, ScanType
  <1>8. CASE SkipToLF
    <2>1. q[p] = "SRC"
      BY <1>5, <1>8 DEF SkipToLF
    <2>2. CASE LineFeeds = {}
      <3>1. \A k \in p .. n - 1 : b[k] # LF
        BY <1>2, <1>3, <2>2 DEF LineFeeds
      <3>2. \A k \in p..n : q[k] = "SRC"
        BY <1>2, <2>1, <3>1, StretchOfSource
      <3>3. Keep(n) /\ eodState' = "SRC" /\ eodState = "SRC"
        BY <1>2, <1>8, <2>2 DEF SkipToLF
      <3>4. \A k \in p .. n - 1 : Kept(q[k], b[k])
        BY <1>2, <3>2 DEF Kept, Eaten, Finds
      <3>5. Follows(n, q)'
        BY <1>2, <1>7, <3>2, <3>3 DEF Follows
      <3>. QED
        BY <1>2, <1>6, <3>3, <3>4, <3>5
    <2>3. CASE LineFeeds # {}
      <3>1. LineFeeds \in SUBSET Nat /\ LineFeeds \subseteq p .. n - 1
        BY <1>2 DEF LineFeeds
      <3>2. PICK m \in p .. n - 1 : /\ m = Min(LineFeeds) /\ m \in LineFeeds
                                    /\ \A k \in LineFeeds : m <= k
        BY <2>3, <3>1, LeastExists
      <3>3. b[m] = LF
        BY <1>3, <3>2 DEF LineFeeds
      <3>4. \A k \in p .. m - 1 : b[k] # LF
        BY <1>2, <1>3, <3>2 DEF LineFeeds
      <3>5. m \in 0 .. n - 1 /\ m \in p..n /\ m + 1 \in p..n
        BY <1>2
      <3>6. \A k \in p..m : q[k] = "SRC"
        BY <1>2, <2>1, <3>4, <3>5, StretchOfSource
      <3>7. q[m] = "SRC" /\ q[m + 1] = "LF"
        <4>1. q[m] = "SRC"
          BY <1>2, <3>5, <3>6
        <4>2. q[m + 1] = After(q[m], b[m])
          BY <3>5 DEF ByteByByte
        <4>. QED
          BY <3>3, <4>1, <4>2 DEF After
      <3>8. \A k \in p .. (m + 1) - 1 : Kept(q[k], b[k])
        BY <1>2, <3>5, <3>6 DEF Kept, Eaten, Finds
      <3>9. Keep(m + 1) /\ eodState' = "LF" /\ eodState = "SRC"
        BY <1>8, <2>3, <3>2 DEF SkipToLF
      <3>10. Follows(n, q)'
        BY <1>7, <3>5, <3>7, <3>9 DEF Follows
      <3>. QED
        BY <1>6, <3>5, <3>8, <3>9, <3>10
    <2>. QED
      BY <2>2, <2>3
  <1>9. CASE EatDot
    <2>1. q[p] = "LF" /\ b[p] = Dot /\ q[p + 1] = "LF_DOT"
      BY <1>3, <1>4, <1>5, <1>9 DEF EatDot, After
    <2>2. /\ scan'.bufpos = p + 1 /\ scan'.eatsize = p + 1
          /\ scan'.dstsize = scan.dstsize + (p - scan.eatsize)
          /\ scan'.eodpos = scan.eodpos
      BY <1>2, <1>9 DEF EatDot, ScanType
    <2>3. buf' = MoveInput(p) /\ eodState' = "LF_DOT" /\ eodState = "LF"
      BY <1>9 DEF EatDot
    <2>4. CountedTo(p, dst)
      BY DEF ScanInv, Counted
    <2>5. /\ \A k \in 0 .. p - 1 :
                Kept(q[k], b[k]) => MoveInput(p)[scan.start + dst[k]] = b[k]
          /\ \A k \in p .. n - 1 : MoveInput(p)[scan.start + k] = b[k]
          /\ \A k \in 0 .. p - 1 : ~ Eaten(q[k], b[k]) => dst[k] < scan'.dstsize
      BY <1>2, <2>2, <2>4, MoveInputMoves
    <2>6. Eaten(q[p], b[p]) /\ ~ Kept(q[p], b[p]) /\ ~ Finds(q[p], b[p])
      BY <2>1 DEF Eaten, Kept, Finds
    <2>7. dst[p + 1] = scan'.dstsize
      <3>1. dst[p] = scan.dstsize + (p - scan.eatsize)
        BY <1>2, <2>4 DEF CountedTo
      <3>. QED
        BY <1>2, <2>2, <2>6, <3>1 DEF ByteByByte
    <2>8. \A k \in 0 .. (p + 1) - 1 : k = p \/ k \in 0 .. p - 1
      BY <1>2
    <2>9. Follows(n, q)'
      BY <2>1, <2>2, <2>3 DEF Follows
    <2>10. Counted(n, b, q, dst)'
      <3>1. \A k \in (p + 1) .. (p + 1) : dst[k] = scan'.dstsize + (k - (p + 1))
        <4>1. scan'.dstsize \in Nat
          BY <1>2, <2>2
        <4>. QED
          BY <1>2, <2>7, <4>1
      <3>2. \A k \in (p + 1) .. (p + 1) - 1 : Kept(q[k], b[k])
        BY <1>2
      <3>3. \A k \in 0 .. (p + 1) - 1 : ~ Eaten(q[k], b[k]) => dst[k] < scan'.dstsize
        BY <2>5, <2>6, <2>8
      <3>. QED
        BY <2>2, <3>1, <3>2, <3>3 DEF Counted, CountedTo
    <2>11. Moved(n, b, q, dst)'
      <3>1. \A k \in 0 .. (p + 1) - 1 :
                Kept(q[k], b[k]) => buf'[scan.start + dst[k]] = b[k]
        BY <2>3, <2>5, <2>6, <2>8
      <3>2. \A k \in (p + 1) .. n - 1 : buf'[scan.start + k] = b[k]
        BY <1>2, <2>3, <2>5
      <3>. QED
        BY <1>1, <2>2, <3>1, <3>2 DEF Moved, At
    <2>12. Found(b, q, dst)'
      <3>1. \A k \in 0 .. p - 1 : ~ Finds(q[k], b[k])
        BY <2>3 DEF ScanInv, Found
      <3>2. scan.eodpos = NotFound
        BY <3>1 DEF ScanInv, Found
      <3>. QED
        BY <2>2, <2>6, <2>8, <3>1, <3>2 DEF Found
    <2>. QED
      BY <1>1, <2>9, <2>10, <2>11, <2>12 DEF ScanInv
  <1>10. CASE NotEoD
    <2>1. Keep(p + 1) /\ eodState' = "SRC" /\ eodState \in {"LF", "LF_DOT"}
      BY <1>10 DEF NotEoD
    <2>2. Kept(q[p], b[p]) /\ q[p + 1] = "SRC"
      BY <1>3, <1>4, <1>5, <1>10 DEF NotEoD, After, Kept, Eaten, Finds
    <2>3. \A k \in p .. (p + 1) - 1 : Kept(q[k], b[k])
      BY <1>2, <2>2
    <2>4. Follows(n, q)'
      BY <1>2, <1>7, <2>1, <2>2 DEF Follows
    <2>. QED
      BY <1>2, <1>6, <2>1, <2>3, <2>4
  <1>11. CASE DefineEoD
    <2>1. /\ q[p] = "LF_DOT" /\ b[p] \in {CR, LF} /\ eodState = "LF_DOT"
          /\ eodState' \in {"LF_DOT_CR", "LF_DOT_CR_LF"} /\ eodState' = q[p + 1]
      BY <1>3, <1>4, <1>5, <1>11 DEF DefineEoD, After
    <2>2. /\ scan'.bufpos = p + 1 /\ scan'.eatsize = p + 1
          /\ scan'.dstsize = scan.dstsize + 1 /\ scan'.eodpos = scan.dstsize
      BY <1>2, <1>11 DEF DefineEoD, ScanType
    <2>3. buf' = buf
      BY <1>11 DEF DefineEoD
    <2>4. scan.eatsize = p
      <3>. SUFFICES ASSUME scan.eatsize # p PROVE FALSE
        OBVIOUS
      <3>1. p - 1 \in 0 .. n - 1 /\ p - 1 \in scan.eatsize .. p - 1 /\ (p - 1) + 1 = p
        BY <1>2
      <3>2. q[p] = After(q[p - 1], b[p - 1])
        BY <3>1 DEF ByteByByte
      <3>3. Eaten(q[p - 1], b[p - 1])
        BY <2>1, <3>2 DEF After, Eaten
      <3>. QED
        BY <3>1, <3>3 DEF ScanInv, Counted, Kept
    <2>5. Finds(q[p], b[p]) /\ ~ Eaten(q[p], b[p]) /\ ~ Kept(q[p], b[p])
      BY <2>1 DEF Finds, Eaten, Kept
    <2>6. dst[p] = scan.dstsize /\ dst[p + 1] = scan'.dstsize
      <3>1. dst[p] = scan.dstsize
        BY <1>2, <2>4 DEF ScanInv, Counted, CountedTo
      <3>. QED
        BY <1>2, <2>2, <2>5, <3>1 DEF ByteByByte
    <2>7. \A k \in 0 .. (p + 1) - 1 : k = p \/ k \in 0 .. p - 1
      BY <1>2
    <2>8. Follows(n, q)'
      BY <2>1, <2>2 DEF Follows
    <2>9. Counted(n, b, q, dst)'
      <3>1. \A k \in (p + 1) .. (p + 1) : dst[k] = scan'.dstsize + (k - (p + 1))
        <4>1. scan'.dstsize \in Nat
          BY <1>2, <2>2
        <4>. QED
          BY <1>2, <2>6, <4>1
      <3>2. \A k \in (p + 1) .. (p + 1) - 1 : Kept(q[k], b[k])
        BY <1>2
      <3>3. ASSUME NEW k \in 0 .. (p + 1) - 1, ~ Eaten(q[k], b[k])
            PROVE  dst[k] < scan'.dstsize
        <4>1. CASE k = p
          BY <1>2, <2>2, <2>6, <4>1
        <4>2. CASE k \in 0 .. p - 1
          <5>1. dst[k] \in Nat /\ dst[k] < scan.dstsize
            BY <1>2, <2>4, <3>3, <4>2 DEF ScanInv, Counted, ByteByByte
          <5>. QED
            BY <1>2, <2>2, <5>1
        <4>. QED
          BY <2>7, <4>1, <4>2
      <3>. QED
        BY <2>2, <3>1, <3>2, <3>3 DEF Counted, CountedTo
    <2>10. Moved(n, b, q, dst)'
      <3>1. \A k \in 0 .. (p + 1) - 1 :
                Kept(q[k], b[k]) => buf[scan.start + dst[k]] = b[k]
        BY <2>4, <2>5, <2>7 DEF ScanInv, Moved, At
      <3>2. \A k \in (p + 1) .. n - 1 : buf[scan.start + k] = b[k]
        BY <1>2, <1>3 DEF At
      <3>. QED
        BY <1>1, <2>2, <2>3, <3>1, <3>2 DEF Moved, At
    <2>11. Found(b, q, dst)'
      <3>1. \A k \in 0 .. p - 1 : ~ Finds(q[k], b[k])
        BY <2>1 DEF ScanInv, Found
      <3>2. \A k \in 0 .. (p + 1) - 1 :
                Finds(q[k], b[k]) => scan'.eodpos = dst[k]
        BY <2>2, <2>6, <2>7, <3>1
      <3>3. p \in 0 .. (p + 1) - 1
        BY <1>2
      <3>. QED
        BY <2>1, <2>2, <2>5, <3>2, <3>3 DEF Found
    <2>. QED
      BY <1>1, <2>8, <2>9, <2>10, <2>11 DEF ScanInv
  <1>12. CASE EndLine
    <2>1. q[p] = "LF_DOT_CR" /\ q[p + 1] = "LF_DOT_CR_LF" /\ Kept(q[p], b[p])
      BY <1>4, <1>5, <1>12 DEF EndLine, After, Kept, Eaten, Finds
    <2>2. eodState' = "LF_DOT_CR_LF"
      BY <1>12 DEF EndLine
    <2>3. CASE Here = LF
      <3>1. Keep(p + 1)
        BY <1>12, <2>3 DEF EndLine
      <3>2. \A k \in p .. (p + 1) - 1 : Kept(q[k], b[k])
        BY <1>2, <2>1
      <3>3. Follows(n, q)'
        BY <1>2, <1>7, <2>1, <2>2, <3>1 DEF Follows
      <3>. QED
        BY <1>2, <1>6, <2>2, <3>1, <3>2, <3>3
    <2>4. CASE Here # LF
      <3>1. Keep(p)
        BY <1>12, <2>4 DEF EndLine
      <3>2. \A k \in p .. p - 1 : Kept(q[k], b[k])
        BY <1>2
      <3>3. scan'.bufpos = p /\ p < n
        BY <1>2, <1>7, <3>1
      <3>4. Follows(n, q)'
        BY <2>1, <2>2, <3>3 DEF Follows
      <3>. QED
        BY <1>2, <1>6, <2>2, <3>1, <3>2, <3>4
    <2>. QED
      BY <2>3, <2>4
  <1>13. CASE SkipRest
    <2>1. Keep(n) /\ eodState = "LF_DOT_CR_LF" /\ eodState' = "LF_DOT_CR_LF"
      BY <1>2, <1>13 DEF SkipRest
    <2>2. q[p] \in {"LF_DOT_CR", "LF_DOT_CR_LF"}
      BY <2>1 DEF ScanInv, Follows
    <2>3. \A k \in p..n : /\ q[k] \in {"LF_DOT_CR", "LF_DOT_CR_LF"}
                          /\ k # p => q[k] = "LF_DOT_CR_LF"
      BY <1>2, <2>2, StretchOfRest
    <2>4. \A k \in p .. n - 1 : Kept(q[k], b[k])
      BY <1>2, <2>3 DEF Kept, Eaten, Finds
    <2>5. q[n] = "LF_DOT_CR_LF"
      BY <1>2, <2>3
    <2>6. Follows(n, q)'
      BY <1>2, <1>7, <2>1, <2>5 DEF Follows
    <2>. QED
      BY <1>2, <1>6, <2>1, <2>4, <2>6
  <1>. QED
    BY <1>8, <1>9, <1>10, <1>11, <1>12, <1>13 DEF ScanStep

(* There is such a reckoning of any bytes, from any state. *)
LEMMA ByteByByteExists ==
    ASSUME NEW n \in Nat, NEW b, NEW first \in EodState
    PROVE  \E q, dst : ByteByByte(n, b, q, dst) /\ q[0] = first
  <1>. DEFINE S == {m \in 0..n : \E q, dst : ByteByByte(m, b, q, dst) /\ q[0] = first}
  <1>1. 0 \in S
    <2>. DEFINE q == [k \in 0..0 |-> first]
                dst == [k \in 0..0 |-> 0]
    <2>1. ByteByByte(0, b, q, dst) /\ q[0] = first
      BY DEF ByteByByte
    <2>. QED
      BY <2>1
  <1>2. ASSUME NEW m \in 0 .. n - 1, m \in S PROVE m + 1 \in S
    <2>1. PICK q, dst : ByteByByte(m, b, q, dst) /\ q[0] = first
      BY <1>2
    <2>2. /\ q \in [0..m -> EodState] /\ dst \in [0..m -> Nat] /\ dst[0] = 0
          /\ \A k \in 0 .. m - 1 :
                /\ q[k + 1] = After(q[k], b[k])
                /\ dst[k + 1] = IF Eaten(q[k], b[k]) THEN dst[k] ELSE dst[k] + 1
      BY <2>1 DEF ByteByByte
    <2>. DEFINE q2 == [k \in 0 .. m + 1 |-> IF k = m + 1 THEN After(q[m], b[m]) ELSE q[k]]
                dst2 == [k \in 0 .. m + 1 |->
                            IF k # m + 1 THEN dst[k]
                            ELSE IF Eaten(q[m], b[m]) THEN dst[m] ELSE dst[m] + 1]
    <2>3. m \in Nat /\ m \in 0..m /\ m + 1 \in 0..n
      OBVIOUS
    <2>4. After(q[m], b[m]) \in EodState
      BY DEF After, EodState
    <2>5. q2 \in [0 .. m + 1 -> EodState] /\ dst2 \in [0 .. m + 1 -> Nat]
      BY <2>2, <2>3, <2>4
    <2>6. q2[0] = first /\ dst2[0] = 0
      BY <2>1, <2>2, <2>3
    <2>7. ASSUME NEW k \in 0 .. (m + 1) - 1
          PROVE  /\ q2[k + 1] = After(q2[k], b[k])
                 /\ dst2[k + 1] = IF Eaten(q2[k], b[k]) THEN dst2[k] ELSE dst2[k] + 1
      <3>1. q2[k] = q[k] /\ dst2[k] = dst[k]
        BY <2>3
      <3>2. CASE k = m
        BY <2>3, <3>1, <3>2
      <3>3. CASE k # m
        <4>1. k \in 0 .. m - 1 /\ k + 1 \in 0 .. m + 1 /\ k + 1 # m + 1
          BY <2>3, <3>3
        <4>2. q2[k + 1] = q[k + 1] /\ dst2[k + 1] = dst[k + 1]
          BY <4>1
        <4>. QED
          BY <2>2, <3>1, <4>1, <4>2
      <3>. QED
        BY <3>2, <3>3
    <2>. HIDE DEF q2, dst2
    <2>8. ByteByByte(m + 1, b, q2, dst2)
      BY <2>3, <2>5, <2>6, <2>7 DEF ByteByByte
    <2>. QED
      BY <2>3, <2>6, <2>8
  <1>. HIDE DEF S
  <1>3. n \in S
    BY <1>1, <1>2, Stretch
  <1>. QED
    BY <1>3 DEF S

(* A byte keeps its place before those that come later. *)
LEMMA CountsUp ==
    ASSUME NEW n, NEW b, NEW q, NEW dst, ByteByByte(n, b, q, dst),
           NEW i \in 0..n, NEW j \in i..n
    PROVE  dst[i] \in Nat /\ dst[j] \in Nat /\ dst[i] <= dst[j]
  <1>1. /\ n \in Nat /\ i \in Nat /\ j \in Nat /\ \A k \in 0..n : dst[k] \in Nat
        /\ \A k \in 0 .. n - 1 : dst[k + 1] = dst[k] \/ dst[k + 1] = dst[k] + 1
    BY DEF ByteByByte
  <1>. DEFINE S == {k \in i..n : dst[k] >= dst[i]}
  <1>2. i \in S
    BY <1>1
  <1>3. ASSUME NEW k \in i .. n - 1, k \in S PROVE k + 1 \in S
    <2>1. /\ k \in 0 .. n - 1 /\ k + 1 \in i..n
          /\ dst[k] \in Nat /\ dst[k + 1] \in Nat /\ dst[i] \in Nat
      BY <1>1
    <2>2. dst[k + 1] = dst[k] \/ dst[k + 1] = dst[k] + 1
      BY <1>1, <2>1
    <2>. QED
      BY <1>3, <2>1, <2>2
  <1>. HIDE DEF S
  <1>4. \A k \in i..n : k \in S
    BY <1>1, <1>2, <1>3, Stretch
  <1>5. j \in S
    BY <1>4
  <1>. QED
    BY <1>1, <1>5 DEF S

LEMMA BeginsRight ==
    ASSUME NEW n, NEW b, NEW q, NEW dst, ByteByByte(n, b, q, dst), Begins(n, b, q)
    PROVE  ScanInv(n, b, q, dst)
  <1>1. /\ size \in Nat /\ scan \in ScanType /\ scan.start \in 0 .. size - 1
        /\ n = size - scan.start /\ n \in Nat /\ n # 0
    BY BlockAssumption DEF Begins, Faces, BlockType, ScanType, BufSize, ByteByByte
  <1>2. Scans /\ BufSize = n
    BY <1>1 DEF Begins, Scans, MovesDown, BufSize
  <1>3. Follows(n, q)
    BY DEF Begins, Faces, Follows
  <1>4. Counted(n, b, q, dst)
    BY <1>1 DEF Begins, Counted, CountedTo, ByteByByte
  <1>5. Moved(n, b, q, dst) /\ Found(b, q, dst)
    BY <1>1 DEF Begins, Faces, Moved, Found
  <1>. QED
    BY <1>2, <1>3, <1>4, <1>5 DEF ScanInv

LEMMA EndsRight ==
    ASSUME NEW n, NEW b, NEW q, NEW dst, ByteByByte(n, b, q, dst),
           ScanInv(n, b, q, dst), ~ Scanning
    PROVE  Unescaped(n, b, q, dst)
  <1>1. /\ n \in Nat /\ scan.bufpos = n /\ scan.start \in Nat /\ scan.dstsize \in Nat
    BY BlockAssumption
    DEF ScanInv, Scanning, Scans, BlockType, ScanType, BufSize, MovesDown, ByteByByte
  <1>2. scan.eatsize = n /\ dst[n] = scan.dstsize
    BY <1>1 DEF ScanInv, Counted, CountedTo
  <1>3. eodState = q[n]
    BY <1>1 DEF ScanInv, Follows
  <1>4. \A k \in 0 .. n - 1 : Kept(q[k], b[k]) => At(dst[k]) = b[k]
    BY <1>2 DEF ScanInv, Moved
  <1>5. \A k \in 0 .. n - 1 : Finds(q[k], b[k]) => EoD = scan.start + dst[k]
    <2>. SUFFICES ASSUME NEW k \in 0 .. n - 1, Finds(q[k], b[k])
                  PROVE  EoD = scan.start + dst[k]
      OBVIOUS
    <2>1. scan.eodpos = dst[k]
      BY <1>1 DEF ScanInv, Found
    <2>2. dst[k] \in Nat
      BY DEF ByteByByte
    <2>. QED
      BY <2>1, <2>2 DEF EoD, NotFound
  <1>6. (\A k \in 0 .. n - 1 : ~ Finds(q[k], b[k])) => EoD = End
    BY <1>1 DEF ScanInv, Found, EoD
  <1>. QED
    BY <1>2, <1>3, <1>4, <1>5, <1>6 DEF Unescaped, End

LEMMA StandsStill ==
    ASSUME NEW n, NEW b, NEW q, NEW dst, ScanInv(n, b, q, dst), UNCHANGED block
    PROVE  ScanInv(n, b, q, dst)'
  BY DEF block, ScanInv, Scans, BlockType, ScanType, MovesDown, BufSize, Follows,
         Counted, CountedTo, Moved, At, Found

(* Whatever lies in the block, wherever getEoD begins and whatever it saw  *)
(* of an end of data before: its jumps and moves come to the same as       *)
(* looking at each byte alone.  Every byte of data ends at its place, and  *)
(* the end of data is found if and only if it is there, at its place.      *)
THEOREM GetEoDIsRight ==
    ASSUME NEW n, NEW b, NEW q, NEW dst, ByteByByte(n, b, q, dst)
    PROVE  Begins(n, b, q) /\ [][ScanStep]_block
               => [](~ Scanning => Unescaped(n, b, q, dst))
  <1>1. Begins(n, b, q) => ScanInv(n, b, q, dst)
    BY BeginsRight
  <1>2. ScanInv(n, b, q, dst) /\ [ScanStep]_block => ScanInv(n, b, q, dst)'
    BY ScanStepIsRight, StandsStill
  <1>3. ScanInv(n, b, q, dst) => (~ Scanning => Unescaped(n, b, q, dst))
    BY EndsRight
  <1>. QED
    BY <1>1, <1>2, <1>3, PTL

InScan == op \in {"scanInput", "scanRest"}

(* What the handler finds before it when a scan of the bytes b is over.    *)
HasData(n, b, q, dst) ==
    /\ eoM = itr + dst[n] /\ pos = eoM /\ eodState = q[n]
    /\ \A k \in 0 .. n - 1 : Kept(q[k], b[k]) => buf[itr + dst[k]] = b[k]
    /\ \A k \in 0 .. n - 1 : Finds(q[k], b[k]) => eoD = itr + dst[k]
    /\ (\A k \in 0 .. n - 1 : ~ Finds(q[k], b[k])) => eoD = eoM

(* getEoD is called in two places, and begins at the first byte. *)
LEMMA ScanBegins ==
    ASSUME NEW n, NEW b, NEW q, NEW dst, ByteByByte(n, b, q, dst),
           Inv', Next, ~ InScan, InScan', Faces(n, b, q)'
    PROVE  Begins(n, b, q)'
  <1>1. PICK start : GetEoD(start)
    <2>1. CASE StartProcessing
      BY <2>1 DEF StartProcessing, InScan, Say, ReadData
    <2>2. CASE \E m \in 1..size : NetworkInput(m)
      BY <2>2 DEF NetworkInput, InScan
    <2>3. CASE ~ StartProcessing /\ ~ (\E m \in 1..size : NetworkInput(m))
      BY <2>3
      DEF Next, Serve, InScan, Greet, EnterCommand, EmptyLine, EnterMode, ScanBlock,
          ScanEnds, Release, Processing, HandleError, Close, Written, SignalTerminate,
          Say, ReadData, Continue, SendOutput, Runs
    <2>. QED
      BY <2>1, <2>2, <2>3
  <1>. QED
    BY <1>1 DEF GetEoD, Begins, Inv, TypeOK

(* Until it is over nothing else runs; then the data is at its places. *)
LEMMA ScanGoesOn ==
    ASSUME NEW n, NEW b, NEW q, NEW dst, ByteByByte(n, b, q, dst),
           Inv, [Next]_vars, InScan, ScanInv(n, b, q, dst)
    PROVE  IF InScan' THEN ScanInv(n, b, q, dst)' ELSE HasData(n, b, q, dst)'
  <1>1. ScanBlock \/ ScanEnds \/ UNCHANGED vars
    BY DEF Next, Serve, InScan, Greet, EnterCommand, EmptyLine, EnterMode,
        StartProcessing, Release, Processing, HandleError, Close, NetworkInput,
        Written, SignalTerminate, Runs
  <1>2. CASE ScanBlock
    BY <1>2, ScanStepIsRight DEF ScanBlock, InScan
  <1>3. CASE UNCHANGED vars
    <2>1. UNCHANGED block /\ InScan'
      BY <1>3 DEF vars, InScan
    <2>. QED
      BY <2>1, StandsStill
  <1>4. CASE ScanEnds
    <2>1. Unescaped(n, b, q, dst) /\ itr = scan.start
      BY <1>4, EndsRight DEF ScanEnds, Inv, Placed, InScan
    <2>2. /\ ~ InScan' /\ itr' = itr /\ buf' = buf /\ eodState' = eodState
          /\ pos' = End /\ eoM' = End /\ eoD' = EoD
      BY <1>4 DEF ScanEnds, InScan
    <2>. QED
      BY <2>1, <2>2 DEF Unescaped, HasData, At
  <1>. QED
    BY <1>1, <1>2, <1>3, <1>4

(* Every scan of the handler is such a run of getEoD, and when it is over  *)
(* the handler stands before the data and nothing but the data, the end of *)
(* the data where it belongs.                                              *)
THEOREM HandlerGetsTheData ==
    ASSUME NEW n, NEW b, NEW q, NEW dst, ByteByByte(n, b, q, dst)
    PROVE  Spec => [][/\ ~ InScan /\ InScan' /\ Faces(n, b, q)' => ScanInv(n, b, q, dst)'
                      /\ InScan /\ ScanInv(n, b, q, dst) =>
                            IF InScan' THEN ScanInv(n, b, q, dst)'
                                       ELSE HasData(n, b, q, dst)']_vars
  <1>. DEFINE Right == /\ ~ InScan /\ InScan' /\ Faces(n, b, q)' => ScanInv(n, b, q, dst)'
                       /\ InScan /\ ScanInv(n, b, q, dst) =>
                             IF InScan' THEN ScanInv(n, b, q, dst)'
                                        ELSE HasData(n, b, q, dst)'
  <1>1. Begins(n, b, q) => ScanInv(n, b, q, dst)
    BY BeginsRight
  <1>2. Inv /\ Inv' /\ [Next]_vars /\ (Begins(n, b, q) => ScanInv(n, b, q, dst))'
            => [Right]_vars
    <2>. SUFFICES ASSUME Inv, Inv', [Next]_vars, ~ UNCHANGED vars,
                         (Begins(n, b, q) => ScanInv(n, b, q, dst))'
                  PROVE  Right
      OBVIOUS
    <2>. QED
      BY ScanBegins, ScanGoesOn DEF vars
  <1>. QED
    BY <1>1, <1>2, Inductive, PTL DEF Spec
-------------------------------------------------------------------------------
(***************************************************************************)
(* The echo.                                                               *)
(***************************************************************************)

(* What the client has been sent, or will be when the output block goes. *)
Echoed == IF state = "Processing" THEN sent \o output ELSE sent

(* What is to become of the data that is still in the input block. *)
Part(from, to) == [k \in 1 .. to - from |-> Filter(buf[from + k - 1])]

Rest == Part(itr, eoD)

Echoing == state \in {"Processing", "ProcessingAfterWrite"} /\ op # "scanRest"

(* A part of the data in two. *)
LEMMA PartSplits ==
    ASSUME TypeOK, NEW i \in Nat, NEW m \in Nat, NEW j \in Nat,
           i <= m, m <= j, j <= size
    PROVE  /\ Part(i, m) \in Seq(Byte) /\ Part(m, j) \in Seq(Byte)
           /\ Part(i, j) = Part(i, m) \o Part(m, j)
  <1>1. PICK f \in [Byte -> Byte] : \A c \in Byte : Filter(c) = f[c]
    <2>1. mode = "Ident" => \A c \in Byte : Filter(c) = [x \in Byte |-> x][c]
      BY DEF Filter
    <2>2. mode = "Uppercase" => \A c \in Byte : Filter(c) = Upper[c]
      BY DEF Filter
    <2>3. mode = "Lowercase" => \A c \in Byte : Filter(c) = Lower[c]
      BY DEF Filter
    <2>. QED
      BY <2>1, <2>2, <2>3, PechoAssumption DEF Mode, TypeOK
  <1>2. size \in Nat
    BY BlockAssumption DEF TypeOK, BlockType
  <1>3. \A k \in i .. j - 1 : Filter(buf[k]) \in Byte
    <2>. SUFFICES ASSUME NEW k \in i .. j - 1 PROVE Filter(buf[k]) \in Byte
      OBVIOUS
    <2>1. k \in 0 .. size - 1
      BY <1>2
    <2>2. buf[k] \in Byte
      BY <2>1 DEF TypeOK, BlockType
    <2>. QED
      BY <1>1, <2>2
  <1>. DEFINE b == [k \in i .. j - 1 |-> Filter(buf[k])]
  <1>4. \A k \in i .. j - 1 : b[k] \in Byte /\ b[k] = Filter(buf[k])
    BY <1>3
  <1>. HIDE DEF b
  <1>5. /\ Part(i, m) = [k \in 1 .. m - i |-> b[i + k - 1]]
        /\ Part(m, j) = [k \in 1 .. j - m |-> b[m + k - 1]]
        /\ Part(i, j) = [k \in 1 .. j - i |-> b[i + k - 1]]
    BY <1>4 DEF Part
  <1>. DEFINE s == [k \in 1 .. m - i |-> b[i + k - 1]]
              t == [k \in 1 .. j - m |-> b[m + k - 1]]
              u == [k \in 1 .. j - i |-> b[i + k - 1]]
  <1>6. /\ s \in Seq(Byte) /\ Len(s) = m - i /\ \A k \in 1 .. m - i : s[k] = b[i + k - 1]
        /\ t \in Seq(Byte) /\ Len(t) = j - m /\ \A k \in 1 .. j - m : t[k] = b[m + k - 1]
        /\ u \in Seq(Byte) /\ Len(u) = j - i /\ \A k \in 1 .. j - i : u[k] = b[i + k - 1]
    BY <1>4
  <1>. HIDE DEF s, t, u
  <1>7. /\ s \o t \in Seq(Byte) /\ Len(s \o t) = (m - i) + (j - m)
        /\ \A k \in 1 .. (m - i) + (j - m) :
              (s \o t)[k] = IF k <= m - i THEN s[k] ELSE t[k - (m - i)]
    BY SMTT(30), <1>6, ConcatProperties
  <1>8. \A k \in 1 .. j - i : (s \o t)[k] = u[k]
    <2>. SUFFICES ASSUME NEW k \in 1 .. j - i PROVE (s \o t)[k] = u[k]
      OBVIOUS
    <2>1. k \in 1 .. (m - i) + (j - m)
      OBVIOUS
    <2>2. CASE k <= m - i
      <3>1. (s \o t)[k] = s[k] /\ k \in 1 .. m - i
        BY <1>7, <2>1, <2>2
      <3>. QED
        BY <1>6, <3>1
    <2>3. CASE ~ (k <= m - i)
      <3>1. k - (m - i) \in 1 .. j - m /\ m + (k - (m - i)) - 1 = i + k - 1
        BY <2>3
      <3>. QED
        BY <1>6, <1>7, <2>1, <2>3, <3>1
    <2>. QED
      BY <2>2, <2>3
  <1>9. s \o t = u
    <2>1. (m - i) + (j - m) = j - i
      OBVIOUS
    <2>. QED
      BY <1>6, <1>7, <1>8, <2>1, SeqEqual
  <1>. QED
    BY <1>5, <1>6, <1>9 DEF s, t, u

(* One turn of the echo: what goes from the input to the output block, and *)
(* out, goes on in the same order.                                         *)
LEMMA ProcessingEchoes ==
    ASSUME Inv, Processing
    PROVE  Echoed' \o Rest' = Echoed \o Rest
  <1>1. /\ itr \in Nat /\ itr <= eoD /\ eoD <= eoM /\ eoM <= pos
        /\ pos \in 0..size /\ eoD \in Nat /\ eoD <= size /\ size \in Nat
    BY Places DEF Inv, Placed, Processing, Runs
  <1>2. Len(output) \in Nat /\ outSize \in Nat /\ Room \in Nat
    BY LenProperties, PechoAssumption DEF Room, Inv, TypeOK
  <1>3. itr' \in Nat /\ itr <= itr' /\ itr' <= eoD /\ eoD' = eoD
    BY <1>1, <1>2 DEF Processing
  <1>. DEFINE part == Part(itr, itr')
              left == Part(itr', eoD)
              U == Byte \cup Reply
  <1>4. part \in Seq(Byte) /\ left \in Seq(Byte) /\ Rest = part \o left
    BY <1>1, <1>3, PartSplits DEF Inv, Rest
  <1>5. output' = output \o part
    BY DEF Processing, Printed, Part
  <1>6. Rest' = left
    BY <1>3 DEF Processing, Rest, Part, Filter
  <1>7. Echoed = sent \o output
    BY DEF Processing, Runs, Echoed
  <1>. HIDE DEF part, left
  <1>8. /\ sent \in Seq(U) /\ output \in Seq(U) /\ part \in Seq(U) /\ left \in Seq(U)
    <2>1. output \in Seq(Byte) /\ sent \in Seq(Byte \cup Reply)
      BY DEF Inv, TypeOK
    <2>. QED
      BY <1>4, <2>1, SeqMonotonic
  <1>. HIDE DEF U
  <1>9. Echoed' = sent \o output'
    <2>1. CASE itr' = eoD /\ eoD = eoM
      BY <2>1 DEF Processing, Runs, ReadData, Echoed
    <2>2. CASE ~ (itr' = eoD /\ eoD = eoM)
      <3>1. state' # "Processing" /\ SendOutput
        BY <2>2 DEF Processing, Runs
      <3>2. Echoed' = sent'
        BY <3>1 DEF Echoed
      <3>3. output' = <<>> => sent' = sent /\ sent \o output' = sent
        BY <1>8, <3>1, ConcatEmptySeq DEF SendOutput
      <3>4. output' # <<>> => sent' = sent \o output'
        BY <3>1 DEF SendOutput
      <3>. QED
        BY <3>2, <3>3, <3>4
    <2>. QED
      BY <2>1, <2>2
  <1>10. /\ Echoed' \o Rest' = (sent \o (output \o part)) \o left
         /\ Echoed \o Rest = (sent \o output) \o (part \o left)
    BY <1>4, <1>5, <1>6, <1>7, <1>9
  <1>11. /\ sent \o output \in Seq(U)
         /\ (sent \o output) \o part = sent \o (output \o part)
    BY SMTT(30), <1>8, ConcatProperties, ConcatAssociative
  <1>12. ((sent \o output) \o part) \o left = (sent \o output) \o (part \o left)
    BY SMTT(30), <1>8, <1>11, ConcatAssociative
  <1>. QED
    BY <1>10, <1>11, <1>12

LEMMA EchoKept ==
    ASSUME Inv, Next, Echoing, state' # "Terminate"
    PROVE  IF op \in {"run", "write"} THEN Echoed' \o Rest' = Echoed \o Rest
                                      ELSE Echoed' = Echoed
  <1>1. \/ Release \/ Processing \/ Written
        \/ op = "scanInput" /\ (ScanBlock \/ ScanEnds)
        \/ \E n \in 1..size : NetworkInput(n)
    BY DEF Next, Serve, Echoing, Greet, EnterCommand, EmptyLine, EnterMode,
        StartProcessing, ScanBlock, ScanEnds, HandleError, Close, SignalTerminate, Runs
  <1>2. CASE Release
    <2>1. Rest' = Rest
      BY <1>2 DEF Release, block, Rest, Part, Filter
    <2>2. op \in {"run", "write"} /\ Echoed = sent /\ Echoed' = sent \o <<>>
      BY <1>2 DEF Release, Runs, Echoed
    <2>3. sent \o <<>> = sent
      BY ConcatEmptySeq DEF Inv, TypeOK
    <2>. QED
      BY <2>1, <2>2, <2>3
  <1>3. CASE Processing
    BY <1>3, ProcessingEchoes DEF Processing, Runs
  <1>4. CASE Written
    <2>1. Rest' = Rest
      BY <1>4 DEF Written, block, Rest, Part, Filter
    <2>2. op \in {"run", "write"} /\ Echoed' = Echoed
      BY <1>4 DEF Written, Echoed
    <2>. QED
      BY <2>1, <2>2
  <1>5. CASE op = "scanInput" /\ (ScanBlock \/ ScanEnds)
    BY <1>5 DEF ScanBlock, ScanEnds, Echoed
  <1>6. CASE \E n \in 1..size : NetworkInput(n)
    BY <1>6 DEF NetworkInput, Echoed
  <1>. QED
    BY <1>1, <1>2, <1>3, <1>4, <1>5, <1>6

(* As long as a client is not thrown out, the echo loses nothing of the    *)
(* data, doubles nothing and keeps its order: while the handler runs or    *)
(* writes, what is sent, what waits in the output block and the rest of    *)
(* the input block are, one after the other, always the same; and nothing  *)
(* that waits in the output block is lost while the next block is read.    *)
THEOREM EchoLosesNothing ==
    Spec => [][Echoing /\ state' # "Terminate" =>
                  IF op \in {"run", "write"} THEN Echoed' \o Rest' = Echoed \o Rest
                                             ELSE Echoed' = Echoed]_vars
  <1>1. Inv /\ [Next]_vars
           => [Echoing /\ state' # "Terminate" =>
                  IF op \in {"run", "write"} THEN Echoed' \o Rest' = Echoed \o Rest
                                             ELSE Echoed' = Echoed]_vars
    BY EchoKept
  <1>. QED
    BY <1>1, Inductive, PTL DEF Spec

-------------------------------------------------------------------------------
(***************************************************************************)
(* The handler comes to an end: what keeps nextOperation() and getEoD from *)
(* running for ever.                                                       *)
(***************************************************************************)

(* A blank or a line end lies before the handler. *)
AtBlank == itr < eoM /\ buf[itr] \in {LF, CR, Space}

(* How far a state is from one that must take a byte from the block. *)
Rank ==
    CASE state = "EnterMode" -> 8
      [] state = "StartProcessing" -> 7
      [] state = "Processing" -> IF Room = 0 THEN 6 ELSE 4
      [] state = "ProcessingAfterWrite" -> 5
      [] state = "EmptyLine" -> IF AtBlank THEN 1 ELSE 4
      [] state = "Init" -> 3
      [] state = "EnterCommand" -> 2
      [] OTHER -> 0

Left == 20 * (size - itr) + (IF cmdBuffer = <<>> THEN 0 ELSE 10) + Rank

ScanLeft == 2 * (BufSize - scan.bufpos) + (IF eodState = "LF_DOT_CR" THEN 1 ELSE 0)

Short == IF InScan THEN 2 + ScanLeft ELSE IF op = "write" THEN 1 ELSE 0

Working == op \notin {"read", "closed"}

LessWork == Left' < Left \/ (Left' = Left /\ Short' < Short)

LEMMA FindFinds ==
    ASSUME NEW i \in Nat, eoM \in Nat, i <= eoM, NEW S
    PROVE  /\ Find(i, S) \in i..eoM
           /\ Find(i, S) < eoM => buf[Find(i, S)] \in S
           /\ i < eoM => (Find(i, S) = i <=> buf[i] \in S)
  <1>. DEFINE stops == {k \in i..eoM : k = eoM \/ buf[k] \in S}
  <1>1. stops \in SUBSET Nat /\ eoM \in stops
    OBVIOUS
  <1>2. Min(stops) \in stops /\ \A k \in stops : Min(stops) <= k
    <2>. HIDE DEF stops
    <2>. QED
      BY <1>1, LeastExists
  <1>3. Find(i, S) = Min(stops)
    BY DEF Find
  <1>4. i < eoM /\ buf[i] \in S => i \in stops
    OBVIOUS
  <1>. DEFINE f == Min(stops)
  <1>5. f \in i..eoM /\ (f = eoM \/ buf[f] \in S)
    BY <1>2
  <1>6. i < eoM /\ buf[i] \in S => f <= i
    BY <1>2, <1>4
  <1>. HIDE DEF f
  <1>7. f = Find(i, S)
    BY <1>3 DEF f
  <1>. QED
    BY <1>5, <1>6, <1>7

(* Nothing read, nothing kept from the last block: no word. *)
LEMMA NoName ==
    ASSUME cmdBuffer = <<>>, itr \in Nat, WordEnd(itr) = itr
    PROVE  Name(itr) = <<>>
  <1>. DEFINE s == cmdBuffer \o [k \in 1 .. WordEnd(itr) - itr |-> Lower[buf[itr + k - 1]]]
  <1>1. Name(itr) = CmdValue(s) /\ s = <<>>
    BY DEF Name
  <1>. HIDE DEF s
  <1>2. <<>> \in Seq(Byte) /\ Len(<<>>) = 0
    BY EmptySeq
  <1>3. CmdValue(<<>>) = <<>>
    <2>1. PICK m : m \in 1 .. 0 + 1 /\ CmdValue(<<>>) = SubSeq(<<>>, m, Len(<<>>))
      BY <1>2, FirstStart
    <2>2. SubSeq(<<>>, m, 0) = <<>>
      BY <2>1
    <2>. QED
      BY <1>2, <2>1, <2>2
  <1>. QED
    BY <1>1, <1>3

LEMMA ScanCounts ==
    ASSUME Scans
    PROVE  ScanLeft \in Nat
  <1>1. BufSize \in Nat /\ scan.bufpos \in Nat /\ scan.bufpos <= BufSize
    BY BlockAssumption DEF Scans, BlockType, ScanType, MovesDown, BufSize
  <1>. QED
    BY <1>1 DEF ScanLeft

LEMMA Counts ==
    ASSUME Inv
    PROVE  Rank \in 0..8 /\ Left \in Nat /\ Short \in Nat
  <1>1. size \in Nat /\ itr \in Nat /\ itr <= size
    BY Places
  <1>2. Rank \in 0..8
    BY DEF Rank
  <1>3. Left \in Nat
    BY <1>1, <1>2 DEF Left
  <1>4. ScanLeft \in Nat
    BY ScanCounts DEF Inv, TypeOK, Scans
  <1>. QED
    BY <1>2, <1>3, <1>4 DEF Short

(* Three ways to get on: a byte is taken, the word from the last block is  *)
(* used up, or the state is nearer to taking a byte.                       *)
LEMMA GetsOn ==
    ASSUME Inv, Inv', size' = size, itr <= itr',
           cmdBuffer' = cmdBuffer \/ cmdBuffer' = <<>>,
           \/ itr < itr'
           \/ cmdBuffer # <<>> /\ cmdBuffer' = <<>>
           \/ Rank' < Rank
    PROVE  Left' < Left
  <1>. DEFINE s == size
              i == itr
              j == itr'
              r == Rank
              t == Rank'
              c == IF cmdBuffer = <<>> THEN 0 ELSE 10
              d == IF cmdBuffer' = <<>> THEN 0 ELSE 10
  <1>1. s \in Nat /\ i \in Nat /\ j \in Nat /\ j <= s
    BY BlockAssumption DEF Inv, TypeOK, BlockType
  <1>2. r \in 0..8
    BY Counts
  <1>3. (Rank \in 0..8)'
    <2>1. Inv => Rank \in 0..8
      BY DEF Rank
    <2>. QED
      BY DEF Rank
  <1>4. c \in {0, 10} /\ d \in {0, 10} /\ d <= c
    OBVIOUS
  <1>5. i <= j /\ (i < j \/ d < c \/ t < r)
    OBVIOUS
  <1>6. Left = 20 * (s - i) + c + r /\ Left' = 20 * (s - j) + d + t
    BY DEF Left
  <1>7. t \in 0..8
    BY <1>3
  <1>. HIDE DEF s, i, j, r, t, c, d
  <1>. QED
    BY <1>1, <1>2, <1>4, <1>5, <1>6, <1>7

LEMMA EnterCommandGetsOn ==
    ASSUME Inv, Inv', EnterCommand, Working'
    PROVE  Left' < Left
  <1>1. itr \in Nat /\ eoM \in Nat /\ itr <= eoM /\ op = "run" /\ state = "EnterCommand"
    BY Places DEF Inv, Placed, EnterCommand, Runs
  <1>2. /\ itr' = WordEnd(itr) /\ itr' < eoM /\ cmdBuffer' = <<>>
        /\ UNCHANGED <<size, buf, eoM>>
    BY <1>1 DEF EnterCommand, ReadData, Working
  <1>3. itr' \in itr..eoM /\ buf[itr'] \in {LF, CR, Space}
    BY <1>1, <1>2, FindFinds DEF WordEnd
  <1>4. CASE Name(itr) = <<>>
    <2>1. state' = "EmptyLine"
      <3>1. Word["caps"] # <<>> /\ Word["echo"] # <<>> /\ Word["quit"] # <<>>
        BY PechoAssumption
      <3>. QED
        BY <1>1, <1>2, <1>3, <1>4, <3>1 DEF EnterCommand
    <2>2. AtBlank'
      BY <1>2, <1>3 DEF AtBlank
    <2>3. Rank' < Rank
      BY <1>1, <2>1, <2>2 DEF Rank
    <2>. QED
      BY <1>2, <1>3, <2>3, GetsOn
  <1>5. CASE Name(itr) # <<>>
    <2>1. cmdBuffer # <<>> \/ itr < itr'
      BY <1>1, <1>2, <1>3, <1>5, NoName
    <2>. QED
      BY <1>2, <1>3, <2>1, GetsOn
  <1>. QED
    BY <1>4, <1>5

LEMMA EOLNMoves ==
    ASSUME NEW i \in Nat, eoM \in Nat, i <= eoM
    PROVE  /\ AfterEOLN(i) \in Nat /\ i <= AfterEOLN(i)
           /\ ConsumesEOLN(i) => i < AfterEOLN(i)
           /\ i < eoM /\ buf[i] \in {CR, LF} => i < AfterEOLN(i)
  <1>1. SkipCR(i) \in i..eoM /\ (i < eoM /\ buf[i] = CR => SkipCR(i) = i + 1)
    BY DEF SkipCR
  <1>2. i < eoM /\ buf[i] = LF /\ SkipCR(i) = i => ConsumesEOLN(i)
    BY DEF ConsumesEOLN
  <1>3. AfterEOLN(i) = IF ConsumesEOLN(i) THEN SkipCR(i) + 1 ELSE SkipCR(i)
    BY DEF AfterEOLN
  <1>. QED
    BY <1>1, <1>2, <1>3

LEMMA EmptyLineGetsOn ==
    ASSUME Inv, Inv', EmptyLine, Working'
    PROVE  Left' < Left
  <1>1. /\ itr \in Nat /\ eoM \in Nat /\ itr <= eoM /\ eoM <= size /\ size \in Nat
        /\ op = "run" /\ state = "EmptyLine"
    BY Places DEF Inv, Placed, EmptyLine, Runs
  <1>. DEFINE b == SkipSpaces
  <1>2. /\ b \in itr..eoM
        /\ itr < eoM => (b = itr <=> buf[itr] # Space)
    <2>1. itr < eoM => buf[itr] \in Byte
      BY <1>1 DEF Inv, TypeOK, BlockType
    <2>. QED
      BY <1>1, <2>1, FindFinds DEF SkipSpaces
  <1>3. /\ b < eoM /\ itr' = AfterEOLN(b) /\ cmdBuffer' = cmdBuffer
        /\ UNCHANGED <<size, buf, eoM>>
        /\ \/ ConsumesEOLN(b) /\ state' = "EnterCommand"
           \/ ~ ConsumesEOLN(b) /\ itr' # eoM /\ state' = "Init"
    BY <1>1, <1>2 DEF EmptyLine, ReadData, Working
  <1>. HIDE DEF b
  <1>4. /\ b <= itr' /\ itr' \in Nat
        /\ ConsumesEOLN(b) => b < itr'
        /\ b < eoM /\ buf[b] \in {CR, LF} => b < itr'
    BY <1>1, <1>2, <1>3, EOLNMoves
  <1>5. CASE itr < itr'
    BY <1>3, <1>4, <1>5, <1>1, GetsOn
  <1>6. CASE ~ (itr < itr')
    <2>1. b = itr /\ itr' = itr
      BY <1>1, <1>2, <1>4, <1>6
    <2>2. ~ AtBlank /\ state' = "Init"
      BY <1>1, <1>2, <1>3, <1>4, <2>1 DEF AtBlank
    <2>3. Rank' < Rank
      BY <1>1, <2>2 DEF Rank
    <2>. QED
      BY <1>1, <1>3, <2>1, <2>3, GetsOn
  <1>. QED
    BY <1>5, <1>6

LEMMA EnterModeGetsOn ==
    ASSUME Inv, Inv', EnterMode, Working'
    PROVE  Left' < Left
  <1>1. itr \in Nat /\ eoM \in Nat /\ itr <= eoM /\ op = "run" /\ state = "EnterMode"
    BY Places DEF Inv, Placed, EnterMode, Runs
  <1>2. SkipSpaces \in itr..eoM
    BY <1>1, SkipsStop
  <1>3. WordEnd(SkipSpaces) \in SkipSpaces..eoM
    BY <1>1, <1>2, FindStops DEF WordEnd
  <1>4. /\ itr' = WordEnd(SkipSpaces) /\ cmdBuffer' = <<>> /\ size' = size
        /\ state' \in {"StartProcessing", "HandleError"}
    BY <1>1 DEF EnterMode, ReadData, Working
  <1>5. itr <= itr' /\ Rank' < Rank
    BY <1>1, <1>2, <1>3, <1>4 DEF Rank
  <1>. QED
    BY <1>4, <1>5, GetsOn

LEMMA StartProcessingGetsOn ==
    ASSUME Inv, Inv', StartProcessing, Working'
    PROVE  Left' < Left
  <1>1. /\ itr \in Nat /\ eoM \in Nat /\ itr <= eoM
        /\ op = "run" /\ state = "StartProcessing"
    BY Places DEF Inv, Placed, StartProcessing, Runs
  <1>2. /\ itr' = SkipSpaces /\ cmdBuffer' = cmdBuffer /\ size' = size
        /\ state' \in {"Init", "Processing"}
    BY <1>1 DEF StartProcessing, ReadData, Working
  <1>3. itr <= itr' /\ Rank' < Rank
    BY <1>1, <1>2, SkipsStop DEF Rank
  <1>. QED
    BY <1>2, <1>3, GetsOn

LEMMA ProcessingGetsOn ==
    ASSUME Inv, Inv', Processing, Working'
    PROVE  Left' < Left
  <1>1. /\ itr \in Nat /\ eoD \in Nat /\ itr <= eoD /\ op = "run"
        /\ state = "Processing" /\ Room \in Nat
    <2>1. Room \in Nat
      BY LenProperties, PechoAssumption DEF Room, Inv, TypeOK
    <2>. QED
      BY <2>1, Places DEF Inv, Placed, Processing, Runs
  <1>2. /\ itr' = IF eoD - itr > Room THEN itr + Room ELSE eoD
        /\ cmdBuffer' = cmdBuffer /\ size' = size
        /\ \/ itr' = eoD /\ state' = "Init"
           \/ itr' # eoD /\ state' = "ProcessingAfterWrite"
    BY <1>1 DEF Processing, ReadData, Working
  <1>3. itr <= itr'
    BY <1>1, <1>2
  <1>4. CASE state' = "Init" \/ Room = 0
    <2>1. Rank' < Rank
      BY <1>1, <1>2, <1>4 DEF Rank
    <2>. QED
      BY <1>2, <1>3, <2>1, GetsOn
  <1>5. CASE ~ (state' = "Init" \/ Room = 0)
    <2>1. itr < itr'
      BY <1>1, <1>2, <1>5
    <2>. QED
      BY <1>2, <1>3, <2>1, GetsOn
  <1>. QED
    BY <1>4, <1>5

LEMMA ReleaseGetsOn ==
    ASSUME Inv, Inv', Release
    PROVE  Left' < Left
  <1>1. /\ itr' = itr /\ cmdBuffer' = cmdBuffer /\ size' = size /\ itr \in Nat
        /\ state = "ProcessingAfterWrite" /\ state' = "Processing"
        /\ output' = <<>> /\ outSize' = outSize
    BY Places DEF Release, Runs, block
  <1>2. Room' # 0
    <2>1. Len(output') = 0 /\ outSize \in Nat \ {0}
      BY <1>1, PechoAssumption DEF Inv, TypeOK
    <2>. QED
      BY <1>1, <2>1 DEF Room
  <1>3. Rank' < Rank
    BY <1>1, <1>2 DEF Rank
  <1>. QED
    BY <1>1, <1>3, GetsOn

LEMMA OthersGetOn ==
    ASSUME Inv, Inv', Greet \/ HandleError, Working'
    PROVE  Left' < Left
  <1>1. itr \in Nat /\ eoM \in Nat /\ itr <= eoM
    <2>1. op = "run" /\ state # "Terminate"
      BY DEF Greet, HandleError, Runs
    <2>. QED
      BY <2>1, Places DEF Inv, Placed
  <1>2. CASE Greet
    <2>1. /\ itr' = itr /\ cmdBuffer' = cmdBuffer /\ size' = size
          /\ state = "Init" /\ state' = "EnterCommand"
      BY <1>2 DEF Greet, Runs
    <2>. QED
      BY <1>1, <2>1, GetsOn DEF Rank
  <1>3. CASE HandleError
    <2>1. /\ SkipLine < eoM /\ ConsumesEOLN(SkipLine)
          /\ cmdBuffer' = cmdBuffer /\ size' = size
      BY <1>3 DEF HandleError, ReadData, Working
    <2>2. itr' = AfterEOLN(SkipLine) /\ SkipLine \in itr..eoM
      BY <1>1, <1>3, <2>1, SkipsStop DEF HandleError
    <2>3. itr < itr' /\ itr <= itr'
      BY <1>1, <2>1, <2>2, EOLNMoves
    <2>. QED
      BY <2>1, <2>3, GetsOn
  <1>. QED
    BY <1>2, <1>3

LEMMA ScanStepGetsOn ==
    ASSUME Scans, ScanStep
    PROVE  ScanLeft \in Nat /\ ScanLeft' \in Nat /\ ScanLeft' < ScanLeft
  <1>1. /\ scan.bufpos \in Nat /\ BufSize \in Nat /\ scan.bufpos < BufSize
        /\ eodState \in EodState
    BY BlockAssumption DEF ScanStep, Scanning, Scans, BlockType, ScanType, BufSize
  <1>2. Scans' /\ scan'.start = scan.start /\ size' = size
    BY ScanStepScans DEF ScanStep
  <1>3. BufSize' = BufSize /\ scan'.bufpos \in Nat
    BY <1>2, BlockAssumption DEF BufSize, Scans, BlockType, ScanType
  <1>4. ASSUME NEW to, Keep(to) PROVE scan'.bufpos = to
    BY <1>4 DEF Keep, Scans, BlockType, ScanType
  <1>5. \/ scan.bufpos < scan'.bufpos
        \/ /\ scan'.bufpos = scan.bufpos
           /\ eodState = "LF_DOT_CR" /\ eodState' = "LF_DOT_CR_LF"
    <2>1. CASE SkipToLF
      <3>1. CASE LineFeeds = {}
        BY <1>1, <1>4, <2>1, <3>1 DEF SkipToLF
      <3>2. CASE LineFeeds # {}
        <4>1. LineFeeds \in SUBSET Nat /\ LineFeeds \subseteq scan.bufpos .. BufSize - 1
          BY <1>1 DEF LineFeeds
        <4>2. PICK k \in scan.bufpos .. BufSize - 1 : k = Min(LineFeeds)
          BY <3>2, <4>1, LeastExists
        <4>. QED
          BY <1>1, <1>4, <2>1, <3>2, <4>2 DEF SkipToLF
      <3>. QED
        BY <3>1, <3>2
    <2>2. CASE EatDot \/ DefineEoD
      <3>1. scan'.bufpos = scan.bufpos + 1
        BY <2>2 DEF EatDot, DefineEoD, Scans, BlockType, ScanType
      <3>. QED
        BY <1>1, <3>1
    <2>3. CASE NotEoD
      BY <1>1, <1>4, <2>3 DEF NotEoD
    <2>4. CASE EndLine
      BY <1>1, <1>4, <2>4 DEF EndLine
    <2>5. CASE SkipRest
      BY <1>1, <1>4, <2>5 DEF SkipRest
    <2>. QED
      BY <2>1, <2>2, <2>3, <2>4, <2>5 DEF ScanStep
  <1>. DEFINE n == BufSize
              i == scan.bufpos
              j == scan'.bufpos
              c == IF eodState = "LF_DOT_CR" THEN 1 ELSE 0
              d == IF eodState' = "LF_DOT_CR" THEN 1 ELSE 0
  <1>6. /\ n \in Nat /\ i \in Nat /\ j \in Nat /\ c \in {0, 1} /\ d \in {0, 1}
        /\ i < j \/ (j = i /\ d < c)
        /\ j <= n
    BY <1>1, <1>2, <1>3, <1>5 DEF Scans, MovesDown
  <1>7. ScanLeft = 2 * (n - i) + c /\ ScanLeft' = 2 * (n - j) + d
    BY <1>3 DEF ScanLeft
  <1>. HIDE DEF n, i, j, c, d
  <1>. QED
    BY <1>6, <1>7

(* getEoD is called in two states only. *)
ScansInside == InScan => state \in {"StartProcessing", "Processing"}

LEMMA InsideStep == ScansInside /\ [Next]_vars => ScansInside'
  <1>1. ASSUME ScansInside, [Next]_vars, InScan'
        PROVE  (state \in {"StartProcessing", "Processing"})'
    <2>1. CASE InScan
      <3>1. ScanBlock \/ ScanEnds \/ UNCHANGED vars
        BY <1>1, <2>1
        DEF Next, Serve, InScan, Greet, EnterCommand, EmptyLine, EnterMode,
            StartProcessing, Release, Processing, HandleError, Close, NetworkInput,
            Written, SignalTerminate, Runs
      <3>2. UNCHANGED state
        BY <3>1 DEF ScanBlock, ScanEnds, vars
      <3>. QED
        BY <1>1, <2>1, <3>2 DEF ScansInside
    <2>2. CASE ~ InScan
      <3>1. CASE StartProcessing
        BY <1>1, <3>1 DEF StartProcessing, InScan, Say, ReadData
      <3>2. CASE \E n \in 1..size : NetworkInput(n)
        BY <1>1, <3>2 DEF NetworkInput, InScan
      <3>3. CASE ~ StartProcessing /\ ~ (\E n \in 1..size : NetworkInput(n))
        BY <1>1, <2>2, <3>3
        DEF Next, Serve, InScan, Greet, EnterCommand, EmptyLine, EnterMode, ScanBlock,
            ScanEnds, Release, Processing, HandleError, Close, Written, SignalTerminate,
            Say, ReadData, Continue, SendOutput, Runs, vars
      <3>. QED
        BY <3>1, <3>2, <3>3
    <2>. QED
      BY <2>1, <2>2
  <1>. QED
    BY <1>1 DEF ScansInside

(* Between two reads the handler has only so much to do: whatever it does, *)
(* and every turn of getEoD's loop, leaves less of it, for any bytes and   *)
(* any client.  So nextOperation() and getEoD return, and nobody can make  *)
(* the handler write again and again without reading.                      *)
THEOREM HandlerReadsOn ==
    Spec => /\ [](Left \in Nat /\ Short \in Nat)
            /\ [][Working /\ Working' => LessWork]_vars
  <1>1. Inv => Left \in Nat /\ Short \in Nat
    BY Counts
  <1>2. ASSUME Inv, Inv', ScansInside, Next, Working, Working' PROVE LessWork
    <2>1. CASE Greet \/ HandleError
      BY <1>2, <2>1, OthersGetOn DEF LessWork
    <2>2. CASE EnterCommand
      BY <1>2, <2>2, EnterCommandGetsOn DEF LessWork
    <2>3. CASE EmptyLine
      BY <1>2, <2>3, EmptyLineGetsOn DEF LessWork
    <2>4. CASE EnterMode
      BY <1>2, <2>4, EnterModeGetsOn DEF LessWork
    <2>5. CASE StartProcessing
      BY <1>2, <2>5, StartProcessingGetsOn DEF LessWork
    <2>6. CASE Processing
      BY <1>2, <2>6, ProcessingGetsOn DEF LessWork
    <2>7. CASE Release
      BY <1>2, <2>7, ReleaseGetsOn DEF LessWork
    <2>8. CASE ScanBlock \/ ScanEnds
      <3>1. InScan /\ state # "EmptyLine"
        BY <1>2, <2>8 DEF ScanBlock, ScanEnds, InScan, ScansInside, Working
      <3>2. Left' = Left
        <4>1. UNCHANGED <<size, itr, cmdBuffer, state, output, outSize>>
          BY <2>8 DEF ScanBlock, ScanStep, ScanEnds
        <4>. QED
          BY <3>1, <4>1 DEF Left, Rank, Room
      <3>3. CASE ScanBlock
        <4>1. ScanLeft \in Nat /\ ScanLeft' \in Nat /\ ScanLeft' < ScanLeft
          BY <1>2, <3>3, ScanStepGetsOn DEF ScanBlock, Inv, TypeOK, Scans
        <4>2. InScan'
          BY <3>1, <3>3 DEF ScanBlock, InScan
        <4>3. Short = 2 + ScanLeft /\ Short' = 2 + ScanLeft'
          BY <3>1, <4>2 DEF Short
        <4>4. Short' < Short
          <5>. DEFINE a == ScanLeft
                      b == ScanLeft'
                      c == Short
                      d == Short'
          <5>1. a \in Nat /\ b \in Nat /\ b < a /\ c = 2 + a /\ d = 2 + b
            BY <4>1, <4>3
          <5>. HIDE DEF a, b, c, d
          <5>2. d < c
            BY <5>1
          <5>. QED
            BY <5>2 DEF c, d
        <4>. QED
          BY <3>2, <4>4 DEF LessWork
      <3>4. CASE ScanEnds
        <4>1. ScanLeft \in Nat
          BY <1>2, ScanCounts DEF Inv, TypeOK, Scans
        <4>2. Short = 2 + ScanLeft
          BY <3>1 DEF Short
        <4>3. Short' \in {0, 1}
          BY <3>4 DEF ScanEnds, Short, InScan
        <4>. QED
          BY <3>2, <4>1, <4>2, <4>3 DEF LessWork
      <3>. QED
        BY <2>8, <3>3, <3>4
    <2>9. CASE Written \/ (op = "write" /\ SignalTerminate)
      <3>1. Short = 1 /\ Short' = 0
        BY <2>9 DEF Written, SignalTerminate, Short, InScan
      <3>2. CASE Written
        <4>1. Left' = Left
          BY <3>2 DEF Written, block, Left, Rank, Room, AtBlank
        <4>. QED
          BY <3>1, <4>1 DEF LessWork
      <3>3. CASE SignalTerminate
        <4>1. /\ UNCHANGED <<size, itr, cmdBuffer>> /\ state' = "Terminate"
          BY <3>3 DEF SignalTerminate, block
        <4>2. Rank' = 0 /\ Rank \in 0..8
          BY <1>2, <4>1, Counts DEF Rank
        <4>3. Left' = Left \/ Left' < Left
          <5>1. CASE Rank = 0
            BY <4>1, <4>2, <5>1 DEF Left
          <5>2. CASE Rank # 0
            <6>1. itr <= itr'
              BY <1>2, <4>1, Places
            <6>. QED
              BY <1>2, <4>1, <4>2, <5>2, <6>1, GetsOn
          <5>. QED
            BY <5>1, <5>2
        <4>. QED
          BY <3>1, <4>3 DEF LessWork
      <3>. QED
        BY <2>9, <3>2, <3>3
    <2>. QED
      BY <1>2, <2>1, <2>2, <2>3, <2>4, <2>5, <2>6, <2>7, <2>8, <2>9
      DEF Next, Serve, Close, NetworkInput, SignalTerminate, Working
  <1>3. Init => ScansInside
    BY DEF Init, ScansInside, InScan
  <1>4. ASSUME Inv, Inv', ScansInside, [Next]_vars PROVE [Working /\ Working' => LessWork]_vars
    BY <1>2, <1>4
  <1>. QED
    BY <1>1, <1>3, <1>4, InsideStep, Inductive, PTL DEF Spec
-------------------------------------------------------------------------------
(***************************************************************************)
(* The data of a request comes back.                                       *)
(***************************************************************************)

Filters(f) == \A c \in Byte : Filter(c) = f[c]

(* From byte c on the data has yet to be read. *)
Coming(M, b, c) ==
    \A k \in c..M : k - c + 1 \in 1 .. Len(unread) /\ unread[k - c + 1] = b[k]

(* getEoD begins: before it and with the network is the data.  What is to  *)
(* be sent before the data is so: the line that asks for it, and what an   *)
(* earlier request may have left in the output block.                      *)
DataBegins(M, b, f, before) ==
    /\ op = "scanRest" /\ state = "Processing"
    /\ scan.bufpos = 0 /\ eodState = "SRC" /\ Filters(f)
    /\ \A k \in 0..M : k < BufSize => At(k) = b[k]
    /\ Coming(M, b, BufSize)
    /\ before = Append(sent, "enter data") \o output

U == Byte \cup Reply

(* t begins with s. *)
PrefixOf(s, t) == \E u \in Seq(U) : t = s \o u

(* n bytes x of the data from c on, read on from there. *)
Piece(M, b, q, c, n, x, y, d) ==
    /\ ByteByByte(n, x, y, d) /\ y[0] = q[c]
    /\ \A k \in c..M : k - c < n => x[k - c] = b[k]

(* What getEoD has not come to is as it was, and so is the byte that it    *)
(* gives up at the end of data.                                            *)
Untouched(n, x) ==
    /\ \A k \in scan.dstsize .. n - 1 : At(k) = x[k]
    /\ scan.eodpos # NotFound => At(scan.eodpos) = x[scan.eodpos]

(* From place i of the block on, and then with the network, are the bytes  *)
(* z from p to m.                                                          *)
Ahead(i, z, p, m) ==
    \A k \in p..m :
        IF i + (k - p) < eoM
        THEN buf[i + (k - p)] = z[k]
        ELSE /\ i + (k - p) - eoM + 1 \in 1 .. Len(unread)
             /\ unread[i + (k - p) - eoM + 1] = z[k]

(* What follows the data: a byte g in the place of the one at which its    *)
(* end was found, and the rest.                                            *)
Following(N, M, b, g) == [k \in 0 .. M - N |-> IF k = 0 THEN g ELSE b[N + k]]

(* g is what lay at its place before getEoD took the dots out, so it is    *)
(* one of as many bytes as there are dots.                                 *)
Behind(N, M, b, dst) ==
    \E k \in dst[N] .. N : Ahead(eoD, Following(N, M, b, b[k]), 0, M - N)

(* How far it is.  c bytes of the data are with what is sent or waits in   *)
(* the output block, and getEoD is at the next ...                         *)
DataScanned(N, M, b, q, dst, text, before) ==
    /\ InScan /\ state = "Processing"
    /\ \E c \in 0..N :
          /\ (IF op = "scanRest" THEN Append(sent, "enter data") ELSE sent) \o output
                = before \o text[c]
          /\ \E n, x, y, d :
                /\ Piece(M, b, q, c, n, x, y, d) /\ ScanInv(n, x, y, d)
                /\ Untouched(n, x) /\ Coming(M, b, c + n)

(* ... or c bytes are echoed, those in the input block included ...        *)
DataEchoed(N, M, b, q, dst, text, before) ==
    /\ op \in {"run", "write"} /\ state \in {"Processing", "ProcessingAfterWrite"}
    /\ \E c \in 0..N :
          /\ Echoed \o Rest = before \o text[c]
          /\ \/ c = N /\ eoD # eoM /\ Behind(N, M, b, dst)
             \/ eoD = eoM /\ eodState = q[c] /\ Coming(M, b, c)

(* ... or the next block is read.                                          *)
DataAwaited(N, M, b, q, dst, text, before) ==
    /\ op = "read" /\ state = "Processing"
    /\ \E c \in 0..N :
          /\ sent \o output = before \o text[c]
          /\ eodState = q[c] /\ Coming(M, b, c)

DataUnderWay(N, M, b, q, dst, f, text, before) ==
    /\ Filters(f)
    /\ \/ DataScanned(N, M, b, q, dst, text, before)
       \/ DataEchoed(N, M, b, q, dst, text, before)
       \/ DataAwaited(N, M, b, q, dst, text, before)

(* All of it is sent, and the handler stands before what follows. *)
DataDone(N, M, b, dst, text, before) ==
    /\ op \in {"run", "write"} /\ state = "Init"
    /\ sent = before \o text[N]
    /\ \E k \in dst[N] .. N : Ahead(itr, Following(N, M, b, b[k]), 0, M - N)

(* The client has it all. *)
DataSent(N, text, before) == PrefixOf(before \o text[N], sent)

(* The client is thrown out, and had some of it. *)
ThrownOut(N, text, before) ==
    /\ state = "Terminate" /\ op \in {"run", "closed"}
    /\ PrefixOf(sent, before \o text[N])

DataInv(N, M, b, q, dst, f, text, before) ==
    \/ DataUnderWay(N, M, b, q, dst, f, text, before)
    \/ DataSent(N, text, before)
    \/ ThrownOut(N, text, before)

-------------------------------------------------------------------------------
(* Any bytes have such a text: what they begin with asks for no more than  *)
(* an end that getEoD finds.                                               *)
LEMMA TextExists ==
    ASSUME NEW N \in Nat, NEW b, NEW q, NEW f \in [Byte -> Byte],
           \A k \in 0..N : b[k] \in Byte
    PROVE  \E text \in [0..N -> Seq(Byte)] :
              /\ text[0] = <<>>
              /\ \A k \in 0 .. N - 1 :
                    text[k + 1] = IF Kept(q[k], b[k]) THEN Append(text[k], f[b[k]])
                                                      ELSE text[k]
  <1>. DEFINE Goes(m, text) ==
                  /\ text \in [0..m -> Seq(Byte)] /\ text[0] = <<>>
                  /\ \A k \in 0 .. m - 1 :
                        text[k + 1] = IF Kept(q[k], b[k]) THEN Append(text[k], f[b[k]])
                                                          ELSE text[k]
              S == {m \in 0..N : \E text : Goes(m, text)}
  <1>1. 0 \in S
    <2>. DEFINE text == [k \in 0..0 |-> <<>>]
    <2>1. text \in [0..0 -> Seq(Byte)] /\ text[0] = <<>>
      OBVIOUS
    <2>2. 0 .. 0 - 1 = {}
      OBVIOUS
    <2>. HIDE DEF text
    <2>3. Goes(0, text)
      BY <2>1, <2>2
    <2>. QED
      BY <2>3
  <1>2. ASSUME NEW m \in 0 .. N - 1, m \in S PROVE m + 1 \in S
    <2>1. PICK text : Goes(m, text)
      BY <1>2
    <2>2. m \in Nat /\ m \in 0..m /\ m + 1 \in 0..N /\ m \in 0..N
      OBVIOUS
    <2>. DEFINE last == IF Kept(q[m], b[m]) THEN Append(text[m], f[b[m]]) ELSE text[m]
                more == [k \in 0 .. m + 1 |-> IF k = m + 1 THEN last ELSE text[k]]
    <2>3. last \in Seq(Byte)
      <3>1. text[m] \in Seq(Byte) /\ f[b[m]] \in Byte
        BY <2>1, <2>2
      <3>. QED
        BY <3>1
    <2>4. more \in [0 .. m + 1 -> Seq(Byte)] /\ more[0] = <<>>
      <3>. HIDE DEF last
      <3>. QED
        BY <2>1, <2>2, <2>3
    <2>5. ASSUME NEW k \in 0 .. (m + 1) - 1
          PROVE  more[k + 1] = IF Kept(q[k], b[k]) THEN Append(more[k], f[b[k]]) ELSE more[k]
      <3>1. more[k] = text[k]
        BY <2>2
      <3>2. CASE k = m
        BY <2>2, <3>1, <3>2
      <3>3. CASE k # m
        <4>1. k \in 0 .. m - 1 /\ k + 1 \in 0 .. m + 1 /\ k + 1 # m + 1
          BY <2>2, <3>3
        <4>2. more[k + 1] = text[k + 1]
          BY <4>1
        <4>. QED
          BY <2>1, <3>1, <4>1, <4>2
      <3>. QED
        BY <3>2, <3>3
    <2>. HIDE DEF more
    <2>6. Goes(m + 1, more)
      BY <2>4, <2>5
    <2>. QED
      BY <2>2, <2>6
  <1>. HIDE DEF S
  <1>3. N \in S
    BY <1>1, <1>2, Stretch
  <1>4. PICK text : Goes(N, text)
    BY <1>3 DEF S
  <1>. QED
    BY <1>4

(* The order in which sequences are joined is of no account. *)
LEMMA Joined ==
    ASSUME NEW s \in Seq(U), NEW t \in Seq(U), NEW u \in Seq(U)
    PROVE  (s \o t) \o u = s \o (t \o u)
  <1>. HIDE DEF U
  <1>. QED
    BY ConcatAssociative

(* A sequence begins with itself, and with what it goes on from. *)
LEMMA PrefixIs ==
    ASSUME NEW s \in Seq(U), NEW t \in Seq(U)
    PROVE  PrefixOf(s, s) /\ PrefixOf(s, s \o t) /\ s \o t \in Seq(U)
  <1>. HIDE DEF U
  <1>1. <<>> \in Seq(U) /\ s = s \o <<>>
    BY EmptySeq, ConcatEmptySeq
  <1>2. s \o t \in Seq(U)
    BY ConcatProperties
  <1>. QED
    BY <1>1, <1>2 DEF PrefixOf

(* The beginning of a beginning. *)
LEMMA PrefixGoesOn ==
    ASSUME NEW s \in Seq(U), NEW t \in Seq(U), NEW u \in Seq(U),
           PrefixOf(s, t), PrefixOf(t, u)
    PROVE  PrefixOf(s, u)
  <1>. HIDE DEF U
  <1>1. PICK v \in Seq(U) : t = s \o v
    BY DEF PrefixOf
  <1>2. PICK w \in Seq(U) : u = t \o w
    BY DEF PrefixOf
  <1>3. v \o w \in Seq(U) /\ (s \o v) \o w = s \o (v \o w)
    BY SMTT(30), ConcatProperties, ConcatAssociative
  <1>. QED
    BY <1>1, <1>2, <1>3 DEF PrefixOf

(* A request, byte by byte. *)
Steps(N, b, q, f, text) ==
    /\ N \in Nat /\ N \in 0..N
    /\ \A k \in 0..N : b[k] \in Byte /\ f[b[k]] \in Byte /\ text[k] \in Seq(Byte)
    /\ \A k \in 0 .. N - 1 :
          /\ k \in 0..N /\ k + 1 \in 0..N
          /\ q[k + 1] = After(q[k], b[k]) /\ ~ Finds(q[k], b[k])
          /\ text[k + 1] = IF Kept(q[k], b[k]) THEN Append(text[k], f[b[k]]) ELSE text[k]

(* What a request is, in the terms of the steps. *)
LEMMA RequestIs ==
    ASSUME NEW N, NEW b, NEW q, NEW dst, NEW f, NEW text,
           Requested(N, b, q, dst, f, text)
    PROVE  Steps(N, b, q, f, text)
  <1>1. N \in Nat /\ N \in 0..N
    BY DEF Requested
  <1>2. \A k \in 0 .. N - 1 : k \in 0..N /\ k + 1 \in 0..N /\ k \in 0 .. (N + 1) - 1
    BY <1>1
  <1>3. \A k \in 0 .. N - 1 : q[k + 1] = After(q[k], b[k])
    <2>1. \A k \in 0 .. (N + 1) - 1 : q[k + 1] = After(q[k], b[k])
      BY DEF Requested, ByteByByte
    <2>. QED
      BY <1>2, <2>1
  <1>4. \A k \in 0..N : b[k] \in Byte
    BY DEF Requested
  <1>5. \A k \in 0..N : text[k] \in Seq(Byte)
    BY DEF Requested
  <1>6. f \in [Byte -> Byte]
    BY DEF Requested
  <1>7. \A k \in 0..N : f[b[k]] \in Byte
    BY <1>4, <1>6
  <1>8. \A k \in 0 .. N - 1 : ~ Finds(q[k], b[k])
    BY DEF Requested
  <1>9. \A k \in 0 .. N - 1 :
           text[k + 1] = IF Kept(q[k], b[k]) THEN Append(text[k], f[b[k]]) ELSE text[k]
    BY DEF Requested
  <1>. QED
    BY <1>1, <1>2, <1>3, <1>4, <1>5, <1>7, <1>8, <1>9 DEF Steps

(* What is echoed and what waits are bytes and replies. *)
LEMMA SeqTypes ==
    ASSUME Inv
    PROVE  /\ sent \in Seq(U) /\ output \in Seq(U) /\ output \in Seq(Byte)
           /\ Append(sent, "enter data") \in Seq(U)
           /\ sent \o output \in Seq(U) /\ Echoed \in Seq(U)
  <1>1. sent \in Seq(U) /\ output \in Seq(Byte) /\ "enter data" \in U
    BY DEF Inv, TypeOK, U, Reply
  <1>2. output \in Seq(U)
    <2>1. Byte \subseteq U
      BY DEF U
    <2>. QED
      BY <1>1, <2>1, SeqMonotonic
  <1>. HIDE DEF U
  <1>3. Append(sent, "enter data") \in Seq(U)
    BY <1>1, AppendProperties
  <1>4. sent \o output \in Seq(U)
    BY <1>1, <1>2, ConcatProperties
  <1>. QED
    BY <1>1, <1>2, <1>3, <1>4 DEF Echoed

(* The same after a step. *)
LEMMA SentTypes ==
    ASSUME Inv'
    PROVE  sent' \in Seq(U) /\ output' \in Seq(U) /\ Echoed' \in Seq(U)
  <1>1. sent' \in Seq(U) /\ output' \in Seq(Byte)
    BY DEF Inv, TypeOK, U
  <1>2. output' \in Seq(U)
    <2>1. Byte \subseteq U
      BY DEF U
    <2>. QED
      BY <1>1, <2>1, SeqMonotonic
  <1>3. sent' \o output' \in Seq(U)
    BY <1>1, <1>2, PrefixIs
  <1>. QED
    BY <1>1, <1>2, <1>3 DEF Echoed

(* The text only grows. *)
LEMMA TextGrows ==
    ASSUME NEW N, NEW b, NEW q, NEW dst, NEW f, NEW text,
           Requested(N, b, q, dst, f, text), NEW c \in 0..N
    PROVE  text[c] \in Seq(U) /\ PrefixOf(text[c], text[N])
  <1>1. /\ N \in Nat /\ \A k \in 0..N : text[k] \in Seq(Byte) /\ f[b[k]] \in Byte
        /\ \A k \in 0 .. N - 1 :
              text[k + 1] = IF Kept(q[k], b[k]) THEN Append(text[k], f[b[k]]) ELSE text[k]
    BY RequestIs DEF Steps
  <1>2. \A k \in 0..N : text[k] \in Seq(U)
    <2>1. Byte \subseteq U
      BY DEF U
    <2>. QED
      BY <1>1, <2>1, SeqMonotonic
  <1>. DEFINE S == {k \in 0..N : PrefixOf(text[c], text[k])}
  <1>3. c \in S
    BY <1>1, <1>2, PrefixIs
  <1>4. ASSUME NEW k \in c .. N - 1, k \in S PROVE k + 1 \in S
    <2>1. k \in 0 .. N - 1 /\ k + 1 \in 0..N /\ k \in 0..N
      BY <1>1
    <2>2. PrefixOf(text[k], text[k + 1])
      <3>1. CASE ~ Kept(q[k], b[k])
        BY <1>1, <1>2, <2>1, <3>1, PrefixIs
      <3>2. CASE Kept(q[k], b[k])
        <4>1. f[b[k]] \in U /\ text[k + 1] = Append(text[k], f[b[k]])
          BY <1>1, <2>1, <3>2 DEF U
        <4>. HIDE DEF U
        <4>2. <<f[b[k]]>> \in Seq(U)
          BY <4>1
        <4>3. Append(text[k], f[b[k]]) = text[k] \o <<f[b[k]]>>
          BY <1>2, <2>1, <4>1, AppendIsConcat
        <4>. QED
          BY <4>1, <4>2, <4>3 DEF PrefixOf
      <3>. QED
        BY <3>1, <3>2
    <2>3. PrefixOf(text[c], text[k])
      BY <1>4
    <2>. QED
      BY <1>2, <2>1, <2>2, <2>3, PrefixGoesOn
  <1>. HIDE DEF S
  <1>. HIDE DEF U
  <1>5. \A k \in c..N : k \in S
    <2>1. c \in Nat
      OBVIOUS
    <2>. QED
      BY <1>1, <1>3, <1>4, <2>1, Stretch
  <1>6. N \in S
    BY <1>1, <1>5
  <1>. QED
    BY <1>2, <1>6 DEF S
-------------------------------------------------------------------------------
(* A scan of the data begins, or is over. *)
DataBegun(N, M, b, q, dst, f, text, before) ==
    /\ InScan /\ state = "Processing" /\ Filters(f)
    /\ \E c \in 0..N :
          /\ (IF op = "scanRest" THEN Append(sent, "enter data") ELSE sent) \o output
                = before \o text[c]
          /\ \E n, x, y, d :
                /\ Piece(M, b, q, c, n, x, y, d) /\ Begins(n, x, y)
                /\ Coming(M, b, c + n)

DataThere(N, M, b, q, dst, f, text, before) ==
    /\ op \in {"run", "write"} /\ state = "Processing" /\ Filters(f)
    /\ \E c \in 0..N :
          /\ sent \o output = before \o text[c]
          /\ \E n, x, y, d :
                /\ Piece(M, b, q, c, n, x, y, d) /\ HasData(n, x, y, d)
                /\ eoD # eoM => buf[eoD] = x[eoD - itr]
                /\ Coming(M, b, c + n)

(* moveInput() writes below what it leaves. *)
LEMMA MoveTouchesNothing ==
    ASSUME Scans, NEW n, BufSize = n, NEW to \in scan.bufpos .. n, NEW i \in 0 .. n - 1,
           i < scan.dstsize \/ i >= scan.dstsize + (to - scan.eatsize)
    PROVE  MoveInput(to)[scan.start + i] = At(i)
  <1>. DEFINE s == scan.start
              e == scan.eatsize
              d == scan.dstsize
  <1>1. /\ size \in Nat /\ s \in Nat /\ d \in Nat /\ e \in Nat /\ n = size - s
        /\ to \in Nat /\ n \in Nat
    BY BlockAssumption DEF Scans, BlockType, ScanType, BufSize, MovesDown
  <1>2. s + i \in DOMAIN buf
    <2>1. DOMAIN buf = 0 .. size - 1
      BY DEF Scans, BlockType
    <2>2. s + i \in 0 .. size - 1
      BY <1>1
    <2>. QED
      BY <2>1, <2>2
  <1>3. s + i \notin (s + d) .. (s + d) + (to - e) - 1
    BY <1>1
  <1>. QED
    BY <1>2, <1>3 DEF MoveInput, At

(* Keep() leaves what getEoD has not come to. *)
LEMMA KeepTouchesNothing ==
    ASSUME Scans, NEW n, BufSize = n, NEW x, NEW to \in scan.bufpos .. n, Keep(to),
           Untouched(n, x)
    PROVE  Untouched(n, x)'
  <1>1. /\ scan.dstsize \in Nat /\ scan.eatsize \in Nat /\ n \in Nat /\ to \in Nat
        /\ scan.eatsize <= to /\ scan.dstsize <= scan.eatsize
        /\ scan.eodpos # NotFound => scan.eodpos \in Nat /\ scan.eodpos < scan.dstsize
    <2>1. /\ scan.dstsize \in Nat /\ scan.eatsize \in Nat /\ n \in Nat /\ to \in Nat
          /\ scan.eatsize <= to /\ scan.dstsize <= scan.eatsize
      BY BlockAssumption DEF Scans, BlockType, ScanType, BufSize, MovesDown
    <2>2. scan.eodpos # NotFound => scan.eodpos \in Nat /\ scan.eodpos < scan.dstsize
      BY BlockAssumption DEF Scans, BlockType, ScanType, MovesDown
    <2>. QED
      BY <2>1, <2>2
  <1>2. CASE to = BufSize
    <2>1. /\ buf' = MoveInput(to) /\ scan'.start = scan.start
          /\ scan'.eodpos = scan.eodpos
          /\ scan'.dstsize = scan.dstsize + (to - scan.eatsize)
      BY <1>2 DEF Keep, Scans, BlockType, ScanType
    <2>2. ASSUME NEW i \in 0 .. n - 1,
                 i < scan.dstsize \/ i >= scan.dstsize + (to - scan.eatsize)
          PROVE  buf'[scan'.start + i] = At(i)
      <3>1. MoveInput(to)[scan.start + i] = At(i)
        BY <2>2, MoveTouchesNothing
      <3>. QED
        BY <2>1, <3>1
    <2>3. ASSUME NEW k \in scan'.dstsize .. n - 1 PROVE buf'[scan'.start + k] = x[k]
      <3>1. /\ k \in 0 .. n - 1 /\ k >= scan.dstsize + (to - scan.eatsize)
            /\ k \in scan.dstsize .. n - 1
        BY <1>1, <2>1
      <3>. QED
        BY <2>2, <3>1 DEF Untouched
    <2>4. ASSUME scan'.eodpos # NotFound PROVE buf'[scan'.start + scan'.eodpos] = x[scan'.eodpos]
      <3>1. scan.eodpos \in 0 .. n - 1 /\ scan.eodpos < scan.dstsize
        BY <1>1, <1>2, <2>1, <2>4
      <3>2. buf'[scan.start + scan.eodpos] = At(scan.eodpos)
        <4>. DEFINE i == scan.eodpos
        <4>1. i \in 0 .. n - 1 /\ i < scan.dstsize
          BY <3>1
        <4>2. MoveInput(to)[scan.start + i] = At(i)
          BY <4>1, MoveTouchesNothing
        <4>. QED
          BY <2>1, <4>2
      <3>. QED
        BY <2>1, <2>4, <3>2 DEF Untouched
    <2>. QED
      BY <2>3, <2>4 DEF Untouched, At
  <1>3. CASE to # BufSize
    <2>1. /\ buf' = buf /\ scan'.start = scan.start /\ scan'.eodpos = scan.eodpos
          /\ scan'.dstsize = scan.dstsize
      BY <1>3 DEF Keep, Scans, BlockType, ScanType
    <2>. QED
      BY <2>1 DEF Untouched, At
  <1>. QED
    BY <1>2, <1>3

(* A turn of getEoD leaves what it has not come to. *)
LEMMA UntouchedStays ==
    ASSUME Scans, NEW n, BufSize = n, NEW x, ScanStep, Untouched(n, x)
    PROVE  Untouched(n, x)'
  <1>1. /\ scan.dstsize \in Nat /\ scan.eatsize \in Nat /\ scan.bufpos \in Nat
        /\ n \in Nat /\ scan.bufpos < n
        /\ scan.eatsize <= scan.bufpos /\ scan.dstsize <= scan.eatsize
        /\ scan.eodpos # NotFound => scan.eodpos \in Nat /\ scan.eodpos < scan.dstsize
    <2>1. /\ scan.dstsize \in Nat /\ scan.eatsize \in Nat /\ scan.bufpos \in Nat
          /\ n \in Nat /\ scan.bufpos < n
          /\ scan.eatsize <= scan.bufpos /\ scan.dstsize <= scan.eatsize
      BY BlockAssumption
      DEF ScanStep, Scanning, Scans, BlockType, ScanType, BufSize, MovesDown
    <2>2. scan.eodpos # NotFound => scan.eodpos \in Nat /\ scan.eodpos < scan.dstsize
      BY BlockAssumption DEF Scans, BlockType, ScanType, MovesDown
    <2>. QED
      BY <2>1, <2>2
  <1>2. CASE SkipToLF
    <2>1. CASE LineFeeds = {}
      BY <1>1, <1>2, <2>1, KeepTouchesNothing DEF SkipToLF
    <2>2. CASE LineFeeds # {}
      <3>1. LineFeeds \in SUBSET Nat
        BY <1>1 DEF LineFeeds
      <3>2. Min(LineFeeds) \in LineFeeds
        BY <2>2, <3>1, LeastExists
      <3>3. Min(LineFeeds) + 1 \in scan.bufpos .. n
        BY <1>1, <3>2 DEF LineFeeds
      <3>. QED
        BY <1>2, <2>2, <3>3, KeepTouchesNothing DEF SkipToLF
    <2>. QED
      BY <2>1, <2>2
  <1>3. CASE EatDot
    <2>1. /\ buf' = MoveInput(scan.bufpos) /\ scan'.start = scan.start
          /\ scan'.eodpos = scan.eodpos
          /\ scan'.dstsize = scan.dstsize + (scan.bufpos - scan.eatsize)
      BY <1>3 DEF EatDot, Scans, BlockType, ScanType
    <2>2. ASSUME NEW i \in 0 .. n - 1,
                 i < scan.dstsize \/ i >= scan.dstsize + (scan.bufpos - scan.eatsize)
          PROVE  buf'[scan'.start + i] = At(i)
      <3>1. scan.bufpos \in scan.bufpos .. n
        BY <1>1
      <3>2. MoveInput(scan.bufpos)[scan.start + i] = At(i)
        BY <2>2, <3>1, MoveTouchesNothing
      <3>. QED
        BY <2>1, <3>2
    <2>3. ASSUME NEW k \in scan'.dstsize .. n - 1 PROVE buf'[scan'.start + k] = x[k]
      <3>1. /\ k \in 0 .. n - 1 /\ k >= scan.dstsize + (scan.bufpos - scan.eatsize)
            /\ k \in scan.dstsize .. n - 1
        BY <1>1, <2>1
      <3>. QED
        BY <2>2, <3>1 DEF Untouched
    <2>4. ASSUME scan'.eodpos # NotFound PROVE buf'[scan'.start + scan'.eodpos] = x[scan'.eodpos]
      <3>1. scan.eodpos \in 0 .. n - 1 /\ scan.eodpos < scan.dstsize
        BY <1>1, <2>1, <2>4
      <3>2. buf'[scan.start + scan.eodpos] = At(scan.eodpos)
        <4>. DEFINE i == scan.eodpos
        <4>1. i \in 0 .. n - 1 /\ i < scan.dstsize /\ scan.bufpos \in scan.bufpos .. n
          BY <1>1, <3>1
        <4>2. MoveInput(scan.bufpos)[scan.start + i] = At(i)
          BY <4>1, MoveTouchesNothing
        <4>. QED
          BY <2>1, <4>2
      <3>. QED
        BY <2>1, <2>4, <3>2 DEF Untouched
    <2>. QED
      BY <2>3, <2>4 DEF Untouched, At
  <1>4. CASE NotEoD
    <2>1. scan.bufpos + 1 \in scan.bufpos .. n
      BY <1>1
    <2>. QED
      BY <1>4, <2>1, KeepTouchesNothing DEF NotEoD
  <1>5. CASE DefineEoD
    <2>1. /\ buf' = buf /\ scan'.start = scan.start /\ scan'.eodpos = scan.dstsize
          /\ scan'.dstsize = scan.dstsize + 1
      BY <1>5 DEF DefineEoD, Scans, BlockType, ScanType
    <2>2. scan.dstsize \in scan.dstsize .. n - 1
      BY <1>1
    <2>3. At(scan.dstsize) = x[scan.dstsize]
      BY <2>2 DEF Untouched
    <2>4. \A k \in scan.dstsize + 1 .. n - 1 : k \in scan.dstsize .. n - 1
      BY <1>1
    <2>. QED
      BY <2>1, <2>3, <2>4 DEF Untouched, At
  <1>6. CASE EndLine
    <2>1. scan.bufpos + 1 \in scan.bufpos .. n /\ scan.bufpos \in scan.bufpos .. n
      BY <1>1
    <2>. QED
      BY <1>6, <2>1, KeepTouchesNothing DEF EndLine
  <1>7. CASE SkipRest
    <2>1. n \in scan.bufpos .. n
      BY <1>1
    <2>. QED
      BY <1>7, <2>1, KeepTouchesNothing DEF SkipRest
  <1>. QED
    BY <1>2, <1>3, <1>4, <1>5, <1>6, <1>7 DEF ScanStep

(* When it is over, the byte at the end of data is the one it was. *)
LEMMA GivenUp ==
    ASSUME Inv, ScanEnds, NEW n, NEW x, Untouched(n, x)
    PROVE  eoD' # eoM' => buf'[eoD'] = x[eoD' - itr']
  <1>1. itr = scan.start /\ itr \in Nat
    <2>1. itr = scan.start
      BY DEF ScanEnds, Inv, Placed
    <2>2. itr \in Nat
      BY Places
    <2>. QED
      BY <2>1, <2>2
  <1>2. eoD' = EoD /\ eoM' = End /\ UNCHANGED <<buf, itr>>
    BY DEF ScanEnds
  <1>. SUFFICES ASSUME EoD # End PROVE buf[EoD] = x[EoD - itr]
    BY <1>2
  <1>3. scan.eodpos # NotFound /\ EoD = scan.start + scan.eodpos
    BY DEF EoD
  <1>4. scan.eodpos \in Nat
    BY <1>3, Places DEF Inv, TypeOK, BlockType, ScanType
  <1>5. EoD - itr = scan.eodpos
    BY <1>1, <1>3, <1>4
  <1>. QED
    BY <1>3, <1>5 DEF Untouched, At

(* Where getEoD begins it has read nothing of its block. *)
LEMMA BegunIsScanned ==
    ASSUME NEW N, NEW M \in Nat, NEW b, NEW q, NEW dst, NEW f, NEW text, NEW before,
           DataBegun(N, M, b, q, dst, f, text, before)
    PROVE  DataUnderWay(N, M, b, q, dst, f, text, before)
  <1>1. PICK c \in 0..N :
           /\ (IF op = "scanRest" THEN Append(sent, "enter data") ELSE sent) \o output
                 = before \o text[c]
           /\ \E n, x, y, d :
                 /\ Piece(M, b, q, c, n, x, y, d) /\ Begins(n, x, y)
                 /\ Coming(M, b, c + n)
    BY DEF DataBegun
  <1>2. PICK n, x, y, d :
           /\ Piece(M, b, q, c, n, x, y, d) /\ Begins(n, x, y)
           /\ Coming(M, b, c + n)
    BY <1>1
  <1>3. ScanInv(n, x, y, d)
    BY <1>2, BeginsRight DEF Piece
  <1>5. Untouched(n, x)
    BY <1>2 DEF Begins, Faces, Untouched
  <1>4. DataScanned(N, M, b, q, dst, text, before)
    BY <1>1, <1>2, <1>3, <1>5 DEF DataBegun, DataScanned
  <1>. QED
    BY <1>4 DEF DataBegun, DataUnderWay

(* No more bytes stay than there are. *)
LEMMA CountsFew ==
    ASSUME NEW n, NEW b, NEW q, NEW dst, ByteByByte(n, b, q, dst), NEW i \in 0..n
    PROVE  dst[i] <= i
  <1>. DEFINE S == {k \in 0..n : dst[k] <= k}
  <1>1. /\ n \in Nat /\ dst[0] = 0 /\ \A k \in 0..n : dst[k] \in Nat
        /\ \A k \in 0 .. n - 1 : dst[k + 1] = dst[k] \/ dst[k + 1] = dst[k] + 1
    BY DEF ByteByByte
  <1>2. 0 \in S
    BY <1>1
  <1>3. ASSUME NEW k \in 0 .. n - 1, k \in S PROVE k + 1 \in S
    <2>1. k \in 0..n /\ k + 1 \in 0..n /\ dst[k] \in Nat /\ dst[k] <= k
      BY <1>1, <1>3
    <2>2. dst[k + 1] = dst[k] \/ dst[k + 1] = dst[k] + 1
      BY <1>1
    <2>. QED
      BY <2>1, <2>2
  <1>. HIDE DEF S
  <1>4. \A k \in 0..n : k \in S
    BY <1>1, <1>2, <1>3, Stretch
  <1>. QED
    BY <1>4 DEF S

(* What the block has of the data is the next piece of the text. *)
PieceIs(q, dst, text, c, y, d, m) ==
    /\ y[m] = q[c + m] /\ dst[c + m] = dst[c] + d[m]
    /\ Part(itr, itr + d[m]) \in Seq(Byte)
    /\ text[c + m] = text[c] \o Part(itr, itr + d[m])

(* The text of the data before and in a block is that before it and that   *)
(* which getEoD leaves in it, filtered.                                    *)
LEMMA TextOfBlock ==
    ASSUME Inv,
           NEW N, NEW M \in Nat, NEW b, NEW q, NEW dst, NEW f, NEW text,
           Requested(N, b, q, dst, f, text), N <= M, Filters(f), NEW c \in 0..N,
           NEW n, NEW x, NEW y, NEW d, Piece(M, b, q, c, n, x, y, d), HasData(n, x, y, d),
           NEW m \in 0..n, c + m <= N
    PROVE  PieceIs(q, dst, text, c, y, d, m)
  <1>1. /\ N \in Nat /\ n \in Nat /\ c \in Nat /\ m \in Nat
        /\ d[0] = 0 /\ \A k \in 0..n : d[k] \in Nat
        /\ \A k \in 0 .. n - 1 :
              /\ y[k + 1] = After(y[k], x[k])
              /\ d[k + 1] = IF Eaten(y[k], x[k]) THEN d[k] ELSE d[k] + 1
    <2>1. N \in Nat
      BY RequestIs DEF Steps
    <2>2. ByteByByte(n, x, y, d)
      BY DEF Piece
    <2>. QED
      BY <2>1, <2>2 DEF ByteByByte
  <1>2. /\ \A k \in 0 .. N - 1 :
              /\ q[k + 1] = After(q[k], b[k]) /\ ~ Finds(q[k], b[k])
              /\ text[k + 1] = IF Kept(q[k], b[k]) THEN Append(text[k], f[b[k]]) ELSE text[k]
        /\ \A k \in 0..N : b[k] \in Byte /\ f[b[k]] \in Byte /\ text[k] \in Seq(Byte)
        /\ \A k \in 0..N : dst[k] \in Nat
        /\ \A k \in 0 .. N - 1 :
              dst[k + 1] = IF Eaten(q[k], b[k]) THEN dst[k] ELSE dst[k] + 1
    <2>1. Steps(N, b, q, f, text)
      BY RequestIs
    <2>2. N \in Nat /\ ByteByByte(N + 1, b, q, dst)
      BY DEF Requested
    <2>3. /\ \A k \in 0 .. (N + 1) : dst[k] \in Nat
          /\ \A k \in 0 .. (N + 1) - 1 :
                dst[k + 1] = IF Eaten(q[k], b[k]) THEN dst[k] ELSE dst[k] + 1
      BY <2>2 DEF ByteByByte
    <2>4. \A k \in 0..N : k \in 0 .. (N + 1) /\ k \in 0 .. (N + 1) - 1
      BY <2>2
    <2>5. \A k \in 0 .. N - 1 : k \in 0..N
      BY <2>2
    <2>. QED
      BY <2>1, <2>3, <2>4, <2>5 DEF Steps
  <1>3. /\ itr \in Nat /\ size \in Nat /\ itr + d[n] <= size
        /\ \A k \in 0 .. n - 1 : Kept(y[k], x[k]) => buf[itr + d[k]] = x[k]
    BY <1>1, Places DEF HasData
  <1>4. \A k \in 0..n : itr + d[k] <= size
    <2>. SUFFICES ASSUME NEW k \in 0..n PROVE itr + d[k] <= size
      OBVIOUS
    <2>1. n \in k..n
      BY <1>1
    <2>2. d[k] \in Nat /\ d[n] \in Nat /\ d[k] <= d[n]
      BY <2>1, CountsUp DEF Piece
    <2>. QED
      BY <1>3, <2>2
  <1>. DEFINE Right(k) == /\ y[k] = q[c + k] /\ dst[c + k] = dst[c] + d[k]
                          /\ Part(itr, itr + d[k]) \in Seq(Byte)
                          /\ text[c + k] = text[c] \o Part(itr, itr + d[k])
              S == {k \in 0..m : Right(k)}
  <1>5. 0 \in S
    <2>1. Part(itr, itr + d[0]) = <<>>
      BY <1>1, <1>3 DEF Part
    <2>2. text[c] \o <<>> = text[c] /\ <<>> \in Seq(Byte)
      BY <1>2, ConcatEmptySeq, EmptySeq
    <2>3. 0 \in 0..m /\ c + 0 = c /\ y[0] = q[c] /\ dst[c] = dst[c] + d[0]
      BY <1>1, <1>2 DEF Piece
    <2>. QED
      BY <2>1, <2>2, <2>3
  <1>6. ASSUME NEW k \in 0 .. m - 1, k \in S PROVE k + 1 \in S
    <2>1. /\ k \in 0 .. n - 1 /\ c + k \in 0 .. N - 1 /\ c + k \in c..M /\ (c + k) - c = k
          /\ c + k \in 0..N /\ c + (k + 1) = (c + k) + 1 /\ k + 1 \in 0..m /\ k \in 0..n
          /\ k + 1 \in 0..n
      BY <1>1
    <2>2. Right(k)
      BY <1>6
    <2>3. x[k] = b[c + k] /\ y[k] = q[c + k]
      <3>1. (c + k) - c < n
        BY <1>1, <2>1
      <3>. QED
        BY <2>1, <2>2, <3>1 DEF Piece
    <2>4. y[k + 1] = q[c + (k + 1)] /\ dst[c + (k + 1)] = dst[c] + d[k + 1]
      <3>1. dst[c] \in Nat /\ d[k] \in Nat /\ dst[c + k] = dst[c] + d[k]
        BY <1>1, <1>2, <2>1, <2>2
      <3>2. /\ d[k + 1] = IF Eaten(y[k], x[k]) THEN d[k] ELSE d[k] + 1
            /\ dst[(c + k) + 1] = IF Eaten(y[k], x[k]) THEN dst[c + k] ELSE dst[c + k] + 1
        BY <1>1, <1>2, <2>1, <2>3
      <3>3. dst[(c + k) + 1] = dst[c] + d[k + 1]
        BY <3>1, <3>2
      <3>4. y[k + 1] = q[(c + k) + 1]
        BY <1>1, <1>2, <2>1, <2>3
      <3>. QED
        BY <2>1, <3>3, <3>4
    <2>5. CASE Kept(y[k], x[k])
      <3>. DEFINE i == itr + d[k]
      <3>1. d[k + 1] = d[k] + 1 /\ d[k] \in Nat
        BY <1>1, <2>1, <2>5 DEF Kept
      <3>2. /\ i \in Nat /\ i + 1 \in Nat /\ itr <= i /\ i <= i + 1 /\ i + 1 <= size
            /\ itr + d[k + 1] = i + 1
        BY <1>3, <1>4, <2>1, <3>1
      <3>3. buf[i] = b[c + k]
        BY <1>3, <2>1, <2>3, <2>5
      <3>. HIDE DEF i
      <3>4. /\ Part(itr, i) \in Seq(Byte) /\ Part(i, i + 1) \in Seq(Byte)
            /\ Part(itr, i + 1) = Part(itr, i) \o Part(i, i + 1)
        BY <1>3, <3>2, PartSplits DEF Inv
      <3>5. Part(i, i + 1) = <<f[b[c + k]]>>
        <4>1. Filter(buf[i]) = f[b[c + k]]
          BY <1>2, <2>1, <3>3 DEF Filters
        <4>2. (i + 1) - i = 1 /\ i + 1 - 1 = i
          BY <3>2
        <4>3. Part(i, i + 1) = [j \in 1..1 |-> Filter(buf[i + j - 1])]
          BY <4>2 DEF Part
        <4>4. \A j \in 1..1 : i + j - 1 = i
          BY <3>2
        <4>5. Part(i, i + 1) = [j \in 1..1 |-> f[b[c + k]]]
          BY <4>1, <4>3, <4>4
        <4>. QED
          BY <4>5
      <3>6. /\ text[c + (k + 1)] = Append(text[c + k], f[b[c + k]])
            /\ f[b[c + k]] \in Byte /\ text[c + k] \in Seq(Byte)
        BY <1>2, <2>1, <2>3, <2>5
      <3>7. Append(text[c + k], f[b[c + k]]) = text[c + k] \o <<f[b[c + k]]>>
        BY <3>6, AppendIsConcat
      <3>8. text[c + k] = text[c] \o Part(itr, i)
        BY <2>2 DEF i
      <3>9. text[c + (k + 1)] = (text[c] \o Part(itr, i)) \o Part(i, i + 1)
        BY <3>5, <3>6, <3>7, <3>8
      <3>0. text[c] \in Seq(Byte)
        BY <1>2
      <3>10. (text[c] \o Part(itr, i)) \o Part(i, i + 1)
                = text[c] \o (Part(itr, i) \o Part(i, i + 1))
        <4>. DEFINE t == text[c]
                    u == Part(itr, i)
                    v == Part(i, i + 1)
        <4>1. t \in Seq(Byte) /\ u \in Seq(Byte) /\ v \in Seq(Byte)
          BY <3>0, <3>4
        <4>. HIDE DEF t, u, v
        <4>2. (t \o u) \o v = t \o (u \o v)
          BY <4>1, ConcatAssociative, SMTT(30)
        <4>. QED
          BY <4>2 DEF t, u, v
      <3>11. Part(itr, i + 1) \in Seq(Byte)
        BY <3>4, ConcatProperties
      <3>12. Part(itr, itr + d[k + 1]) = Part(itr, i + 1)
        BY <3>2
      <3>. QED
        BY <2>1, <2>4, <3>4, <3>9, <3>10, <3>11, <3>12
    <2>6. CASE ~ Kept(y[k], x[k])
      <3>1. Eaten(y[k], x[k])
        BY <1>2, <2>1, <2>3, <2>6 DEF Kept
      <3>2. d[k + 1] = d[k]
        BY <1>1, <2>1, <3>1
      <3>3. text[c + (k + 1)] = text[c + k]
        BY <1>2, <2>1, <2>3, <2>6
      <3>. QED
        BY <2>1, <2>2, <2>4, <3>2, <3>3
    <2>. QED
      BY <2>5, <2>6
  <1>. HIDE DEF S
  <1>7. \A k \in 0..m : k \in S
    BY <1>1, <1>5, <1>6, Stretch
  <1>8. m \in S
    BY <1>1, <1>7
  <1>. QED
    BY <1>8 DEF S, PieceIs

(* Where the end of data is found, getEoD leaves the byte that it gives up *)
(* and, one behind the other, all that follows.                            *)
LEMMA ThereIsBehind ==
    ASSUME Inv,
           NEW N, NEW M \in Nat, NEW b, NEW q, NEW dst, NEW f, NEW text,
           Requested(N, b, q, dst, f, text), N <= M, Filters(f), NEW c \in 0..N,
           NEW n, NEW x, NEW y, NEW d, Piece(M, b, q, c, n, x, y, d), HasData(n, x, y, d),
           eoD # eoM => buf[eoD] = x[eoD - itr], Coming(M, b, c + n), c + n > N
    PROVE  Behind(N, M, b, dst)
  <1>. DEFINE m == N - c
  <1>1. /\ N \in Nat /\ n \in Nat /\ c \in Nat /\ itr \in Nat
        /\ m \in 0 .. n - 1 /\ m \in 0..n /\ m + 1 \in 0..n /\ n \in (m + 1) .. n
        /\ c + m = N /\ c + m <= N /\ N \in c..M /\ N - c < n /\ m \in Nat
    <2>1. N \in Nat /\ n \in Nat /\ itr \in Nat
      BY Places DEF Requested, Piece, ByteByByte
    <2>. QED
      BY <2>1
  <1>2. /\ ByteByByte(n, x, y, d) /\ \A k \in 0..n : d[k] \in Nat
        /\ \A k \in c..M : k - c < n => x[k - c] = b[k]
    BY DEF Piece, ByteByByte
  <1>. HIDE DEF m
  <1>3. y[m] = q[N] /\ dst[N] = dst[c] + d[m]
    <2>1. PieceIs(q, dst, text, c, y, d, m)
      BY <1>1, TextOfBlock
    <2>. QED
      BY <1>1, <2>1 DEF PieceIs
  <1>4. x[m] = b[N]
    BY <1>1, <1>2 DEF m
  <1>5. Finds(y[m], x[m])
    BY <1>3, <1>4 DEF Requested
  <1>6. eoD = itr + d[m] /\ eoM = itr + d[n]
    BY <1>1, <1>5 DEF HasData
  <1>7. y[m + 1] \in {"LF_DOT_CR", "LF_DOT_CR_LF"} /\ d[m + 1] = d[m] + 1
    <2>1. /\ y[m + 1] = After(y[m], x[m])
          /\ d[m + 1] = IF Eaten(y[m], x[m]) THEN d[m] ELSE d[m] + 1
      BY <1>1, <1>2 DEF ByteByByte
    <2>. QED
      BY <1>5, <2>1 DEF Finds, Eaten, After
  <1>8. \A k \in m + 1 .. n - 1 : Kept(y[k], x[k])
    <2>1. \A k \in m + 1 .. n : y[k] \in {"LF_DOT_CR", "LF_DOT_CR_LF"}
      BY <1>1, <1>2, <1>7, StretchOfRest
    <2>2. \A k \in m + 1 .. n - 1 : k \in m + 1 .. n
      BY <1>1
    <2>. QED
      BY <2>1, <2>2 DEF Kept, Eaten, Finds
  <1>9. \A k \in m + 1 .. n : d[k] = d[m] + (k - m)
    <2>1. \A k \in m + 1 .. n : d[k] = d[m + 1] + (k - (m + 1))
      BY <1>1, <1>2, <1>8, StretchCounted
    <2>2. d[m] \in Nat
      BY <1>1, <1>2
    <2>. QED
      BY <1>1, <1>7, <2>1, <2>2
  <1>10. d[m] <= m /\ dst[c] <= c /\ dst[c] \in Nat /\ d[m] \in Nat
    <2>1. d[m] <= m
      BY <1>1, <1>2, CountsFew
    <2>2. ByteByByte(N + 1, b, q, dst) /\ c \in 0 .. N + 1
      BY <1>1 DEF Requested
    <2>3. dst[c] <= c /\ dst[c] \in Nat
      BY <2>2, CountsFew DEF ByteByByte
    <2>. QED
      BY <1>1, <1>2, <2>1, <2>3
  <1>. DEFINE i == c + d[m]
              z == Following(N, M, b, b[i])
  <1>11. i \in dst[N] .. N
    BY <1>1, <1>3, <1>10
  <1>12. ASSUME NEW k \in 0 .. M - N
         PROVE  IF eoD + (k - 0) < eoM
                THEN buf[eoD + (k - 0)] = z[k]
                ELSE /\ eoD + (k - 0) - eoM + 1 \in 1 .. Len(unread)
                     /\ unread[eoD + (k - 0) - eoM + 1] = z[k]
    <2>1. eoM = eoD + (n - m) /\ eoD \in Nat /\ eoD < eoM /\ eoM \in Nat
      <3>1. d[n] = d[m] + (n - m)
        BY <1>1, <1>9
      <3>. QED
        BY <1>1, <1>6, <1>10, <3>1
    <2>2. CASE k = 0
      <3>1. z[k] = b[i]
        BY <2>2 DEF Following
      <3>2. buf[eoD] = x[d[m]]
        <4>1. eoD - itr = d[m]
          BY <1>1, <1>6, <1>10
        <4>. QED
          BY <2>1, <4>1
      <3>3. x[d[m]] = b[i]
        <4>1. i \in c..M /\ i - c = d[m] /\ d[m] < n
          BY <1>1, <1>10
        <4>. QED
          BY <1>2, <4>1
      <3>4. eoD + (k - 0) = eoD
        BY <2>1, <2>2
      <3>. QED
        BY <2>1, <3>1, <3>2, <3>3, <3>4
    <2>3. CASE k # 0 /\ m + k < n
      <3>. HIDE DEF i
      <3>1. /\ m + k \in m + 1 .. n - 1 /\ m + k \in m + 1 .. n /\ m + k \in 0 .. n - 1
            /\ N + k \in c..M /\ (N + k) - c = m + k /\ (m + k) - m = k
        BY <1>1, <2>3 DEF m
      <3>2. buf[itr + d[m + k]] = x[m + k]
        BY <1>8, <3>1 DEF HasData
      <3>3. itr + d[m + k] = eoD + (k - 0)
        BY <1>1, <1>6, <1>9, <1>10, <3>1
      <3>4. x[m + k] = b[N + k]
        BY <1>2, <2>3, <3>1
      <3>5. z[k] = b[N + k]
        BY <2>3 DEF Following
      <3>6. eoD + (k - 0) < eoM
        BY <1>1, <2>1, <2>3
      <3>. QED
        BY <3>2, <3>3, <3>4, <3>5, <3>6
    <2>4. CASE k # 0 /\ m + k >= n
      <3>. HIDE DEF i
      <3>1. /\ N + k \in (c + n) .. M
            /\ (N + k) - (c + n) + 1 = eoD + (k - 0) - eoM + 1
            /\ ~ (eoD + (k - 0) < eoM)
        BY <1>1, <2>1, <2>4 DEF m
      <3>2. z[k] = b[N + k]
        BY <2>4 DEF Following
      <3>3. /\ (N + k) - (c + n) + 1 \in 1 .. Len(unread)
            /\ unread[(N + k) - (c + n) + 1] = b[N + k]
        BY <3>1 DEF Coming
      <3>. QED
        BY <3>1, <3>2, <3>3
    <2>5. m + k < n \/ m + k >= n
      BY <1>1
    <2>. QED
      BY <2>2, <2>3, <2>4, <2>5
  <1>. HIDE DEF i
  <1>13. Ahead(eoD, z, 0, M - N)
    BY <1>12 DEF Ahead
  <1>. QED
    BY <1>11, <1>13 DEF Behind

(* Where getEoD ends, the input block holds the text of the bytes it read. *)
LEMMA ThereIsEchoed ==
    ASSUME Inv,
           NEW N, NEW M \in Nat, NEW b, NEW q, NEW dst, NEW f, NEW text,
           NEW before \in Seq(U), Requested(N, b, q, dst, f, text), N <= M,
           DataThere(N, M, b, q, dst, f, text, before)
    PROVE  DataUnderWay(N, M, b, q, dst, f, text, before)
  <1>1. PICK c \in 0..N :
           /\ sent \o output = before \o text[c]
           /\ \E n, x, y, d :
                 /\ Piece(M, b, q, c, n, x, y, d) /\ HasData(n, x, y, d)
                 /\ eoD # eoM => buf[eoD] = x[eoD - itr]
                 /\ Coming(M, b, c + n)
    BY DEF DataThere
  <1>2. PICK n, x, y, d :
           /\ Piece(M, b, q, c, n, x, y, d) /\ HasData(n, x, y, d)
           /\ eoD # eoM => buf[eoD] = x[eoD - itr]
           /\ Coming(M, b, c + n)
    BY <1>1
  <1>3. N \in Nat /\ n \in Nat /\ c \in Nat /\ Filters(f) /\ itr \in Nat
    BY <1>2, Places DEF Requested, Piece, ByteByByte, DataThere
  <1>4. \A k \in 0..n : d[k] \in Nat
    BY <1>2 DEF Piece, ByteByByte
  <1>5. ASSUME NEW m \in 0..n, c + m <= N, eoD = itr + d[m]
        PROVE  Echoed \o Rest = before \o text[c + m]
    <2>1. /\ Part(itr, itr + d[m]) \in Seq(Byte)
          /\ text[c + m] = text[c] \o Part(itr, itr + d[m])
      <3>1. PieceIs(q, dst, text, c, y, d, m)
        BY <1>2, <1>3, <1>5, TextOfBlock
      <3>. QED
        BY <3>1 DEF PieceIs
    <2>2. Rest \in Seq(U) /\ text[c] \in Seq(U) /\ text[c + m] = text[c] \o Rest
      <3>1. Byte \subseteq U
        BY DEF U
      <3>2. Rest = Part(itr, itr + d[m])
        BY <1>5 DEF Rest
      <3>3. Rest \in Seq(U)
        BY <2>1, <3>1, <3>2, SeqMonotonic
      <3>. QED
        BY <2>1, <3>2, <3>3, TextGrows
    <2>3. Echoed = before \o text[c]
      BY <1>1 DEF DataThere, Echoed
    <2>4. (before \o text[c]) \o Rest = before \o (text[c] \o Rest)
      BY <2>2, Joined
    <2>. QED
      BY <2>2, <2>3, <2>4
  <1>6. CASE c + n <= N
    <2>1. \A k \in 0 .. n - 1 : ~ Finds(y[k], x[k])
      <3>. SUFFICES ASSUME NEW k \in 0 .. n - 1 PROVE ~ Finds(y[k], x[k])
        OBVIOUS
      <3>1. /\ k \in 0..n /\ c + k <= N /\ c + k \in c..M /\ (c + k) - c < n
            /\ (c + k) - c = k /\ c + k \in 0 .. N - 1
        BY <1>3, <1>6
      <3>2. y[k] = q[c + k]
        <4>1. PieceIs(q, dst, text, c, y, d, k)
          BY <1>2, <1>3, <3>1, TextOfBlock
        <4>. QED
          BY <4>1 DEF PieceIs
      <3>3. x[k] = b[c + k]
        BY <1>2, <3>1 DEF Piece
      <3>. QED
        BY <3>1, <3>2, <3>3 DEF Requested
    <2>2. eoD = eoM /\ eoM = itr + d[n] /\ eodState = y[n]
      BY <1>2, <2>1 DEF HasData
    <2>3. n \in 0..n /\ c + n \in 0..N
      BY <1>3, <1>6
    <2>4. eodState = q[c + n]
      <3>1. PieceIs(q, dst, text, c, y, d, n)
        BY <1>2, <1>3, <1>6, <2>3, TextOfBlock
      <3>. QED
        BY <2>2, <3>1 DEF PieceIs
    <2>5. Echoed \o Rest = before \o text[c + n]
      BY <1>5, <1>6, <2>2, <2>3
    <2>6. DataEchoed(N, M, b, q, dst, text, before)
      BY <1>2, <2>2, <2>3, <2>4, <2>5 DEF DataEchoed, DataThere
    <2>. QED
      BY <1>3, <2>6 DEF DataUnderWay
  <1>7. CASE ~ (c + n <= N)
    <2>. DEFINE m == N - c
    <2>1. /\ m \in 0 .. n - 1 /\ m \in 0..n /\ m + 1 \in 0..n /\ n \in (m + 1) .. n
          /\ c + m = N /\ c + m <= N /\ N \in c..N /\ N - c < n
      BY <1>3, <1>7
    <2>2. x[m] = b[N]
      BY <1>2, <2>1 DEF Piece
    <2>. HIDE DEF m
    <2>3. y[m] = q[N]
      <3>1. PieceIs(q, dst, text, c, y, d, m)
        BY <1>2, <1>3, <2>1, TextOfBlock
      <3>. QED
        BY <2>1, <3>1 DEF PieceIs
    <2>4. Finds(y[m], x[m])
      BY <2>2, <2>3 DEF Requested
    <2>5. eoD = itr + d[m] /\ eoM = itr + d[n]
      BY <1>2, <2>1, <2>4 DEF HasData
    <2>6. d[m + 1] = d[m] + 1
      BY <1>2, <2>1, <2>4 DEF Piece, ByteByByte, Finds, Eaten
    <2>7. d[m + 1] <= d[n]
      BY <1>2, <2>1, CountsUp DEF Piece
    <2>8. eoD # eoM
      BY <1>3, <1>4, <2>1, <2>5, <2>6, <2>7
    <2>9. Echoed \o Rest = before \o text[N]
      BY <1>5, <2>1, <2>5
    <2>10. N \in 0..N
      BY <1>3
    <2>12. Behind(N, M, b, dst)
      <3>1. c + n > N
        BY <1>3, <1>7
      <3>. QED
        BY <1>2, <1>3, <3>1, ThereIsBehind
    <2>11. DataEchoed(N, M, b, q, dst, text, before)
      BY <2>8, <2>9, <2>10, <2>12 DEF DataEchoed, DataThere
    <2>. QED
      BY <1>3, <2>11 DEF DataUnderWay
  <1>. QED
    BY <1>6, <1>7
-------------------------------------------------------------------------------
(* What was sent was sent. *)
LEMMA SentGrows ==
    ASSUME Inv, Inv', [Next]_vars
    PROVE  PrefixOf(sent, sent')
  <1>1. sent \in Seq(U) /\ sent' \in Seq(U) /\ output' \in Seq(U)
    <2>1. Byte \subseteq U
      BY DEF U
    <2>. QED
      BY <2>1, SeqMonotonic DEF Inv, TypeOK, U
  <1>2. ASSUME NEW m \in Reply PROVE PrefixOf(sent, Append(sent, m))
    <2>1. m \in U
      BY DEF U
    <2>. HIDE DEF U
    <2>2. <<m>> \in Seq(U) /\ Append(sent, m) = sent \o <<m>>
      BY <1>1, <2>1, AppendIsConcat
    <2>. QED
      BY <2>2 DEF PrefixOf
  <1>3. PrefixOf(sent, sent) /\ PrefixOf(sent, sent \o output')
    BY <1>1, PrefixIs
  <1>4. \/ sent' = sent \/ sent' = sent \o output'
        \/ \E m \in Reply : sent' = Append(sent, m)
    BY DEF Next, Serve, Greet, EnterCommand, EmptyLine, EnterMode, StartProcessing,
           ScanBlock, ScanEnds, Release, Processing, HandleError, Close, NetworkInput,
           Written, SignalTerminate, Say, ReadData, Continue, SendOutput, Reply, vars
  <1>. QED
    BY <1>2, <1>3, <1>4

(* The client has it all, and keeps it. *)
LEMMA SentStays ==
    ASSUME Inv, Inv', [Next]_vars,
           NEW N, NEW b, NEW q, NEW dst, NEW f, NEW text,
           NEW before \in Seq(U), Requested(N, b, q, dst, f, text),
           DataSent(N, text, before)
    PROVE  DataSent(N, text, before)'
  <1>1. PrefixOf(sent, sent')
    BY SentGrows
  <1>2. sent \in Seq(U) /\ sent' \in Seq(U)
    BY DEF Inv, TypeOK, U
  <1>3. text[N] \in Seq(U)
    BY TextGrows, RequestIs DEF Steps
  <1>4. before \o text[N] \in Seq(U)
    BY <1>3, PrefixIs
  <1>. QED
    BY <1>1, <1>2, <1>4, PrefixGoesOn DEF DataSent

(* What the client has so far is the beginning of what it gets. *)
LEMMA UnderWayBegins ==
    ASSUME Inv,
           NEW N, NEW M \in Nat, NEW b, NEW q, NEW dst, NEW f, NEW text,
           NEW before \in Seq(U), Requested(N, b, q, dst, f, text), N <= M,
           DataUnderWay(N, M, b, q, dst, f, text, before)
    PROVE  PrefixOf(sent, before \o text[N])
  <1>1. /\ sent \in Seq(U) /\ output \in Seq(U)
        /\ Append(sent, "enter data") \in Seq(U)
        /\ sent \o output \in Seq(U) /\ Echoed \in Seq(U)
    BY SeqTypes
  <1>2. PICK c \in 0..N :
           \/ Append(sent, "enter data") \o output = before \o text[c]
           \/ sent \o output = before \o text[c]
           \/ Rest \in Seq(U) /\ Echoed \o Rest = before \o text[c]
    <2>1. CASE DataScanned(N, M, b, q, dst, text, before)
      BY <2>1 DEF DataScanned
    <2>2. CASE DataEchoed(N, M, b, q, dst, text, before)
      <3>1. /\ itr \in Nat /\ eoD \in Nat /\ itr <= eoD /\ eoD <= size
        BY <2>2, Places DEF DataEchoed, Inv, Placed
      <3>2. Rest \in Seq(Byte)
        BY <3>1, PartSplits DEF Rest, Inv
      <3>3. Byte \subseteq U
        BY DEF U
      <3>4. Rest \in Seq(U)
        BY <3>2, <3>3, SeqMonotonic
      <3>. QED
        BY <2>2, <3>4 DEF DataEchoed
    <2>3. CASE DataAwaited(N, M, b, q, dst, text, before)
      BY <2>3 DEF DataAwaited
    <2>. QED
      BY <2>1, <2>2, <2>3 DEF DataUnderWay
  <1>3. N \in 0..N
    BY DEF Requested
  <1>4. /\ text[c] \in Seq(U) /\ text[N] \in Seq(U) /\ PrefixOf(text[c], text[N])
    BY <1>3, TextGrows
  <1>5. before \o text[c] \in Seq(U) /\ before \o text[N] \in Seq(U)
    BY <1>4, PrefixIs
  <1>6. PrefixOf(before \o text[c], before \o text[N])
    <2>1. PICK u \in Seq(U) : text[N] = text[c] \o u
      BY <1>4 DEF PrefixOf
    <2>2. before \o (text[c] \o u) = (before \o text[c]) \o u
      BY <1>4, Joined
    <2>. QED
      BY <2>1, <2>2 DEF PrefixOf
  <1>7. PrefixOf(sent, sent \o output) /\ PrefixOf(sent, sent)
    BY <1>1, PrefixIs
  <1>8. PrefixOf(sent, before \o text[c])
    <2>1. CASE Append(sent, "enter data") \o output = before \o text[c]
      <3>1. "enter data" \in U
        BY DEF U, Reply
      <3>. HIDE DEF U
      <3>2. <<"enter data">> \in Seq(U)
        <4>. DEFINE e == "enter data"
        <4>1. e \in U
          BY <3>1
        <4>. HIDE DEF e
        <4>2. <<e>> \in Seq(U)
          BY <4>1
        <4>. QED
          BY <4>2 DEF e
      <3>3. Append(sent, "enter data") = sent \o <<"enter data">>
        BY <1>1, <3>1, AppendIsConcat
      <3>4. PrefixOf(sent, Append(sent, "enter data"))
        BY <3>2, <3>3 DEF PrefixOf
      <3>5. PrefixOf(Append(sent, "enter data"), before \o text[c])
        BY <1>1, <2>1, PrefixIs
      <3>. QED
        BY <1>1, <1>5, <3>4, <3>5, PrefixGoesOn
    <2>2. CASE sent \o output = before \o text[c]
      BY <1>7, <2>2
    <2>3. CASE Rest \in Seq(U) /\ Echoed \o Rest = before \o text[c]
      <3>1. PrefixOf(sent, Echoed)
        BY <1>7 DEF Echoed
      <3>2. PrefixOf(Echoed, before \o text[c])
        BY <1>1, <2>3, PrefixIs
      <3>. QED
        BY <1>1, <1>5, <3>1, <3>2, PrefixGoesOn
    <2>. QED
      BY <1>2, <2>1, <2>2, <2>3
  <1>. QED
    BY <1>1, <1>5, <1>6, <1>8, PrefixGoesOn

(* Nothing is sent to a client that is thrown out. *)
LEMMA ThrownOutStays ==
    ASSUME [Next]_vars, NEW N, NEW text, NEW before, ThrownOut(N, text, before)
    PROVE  ThrownOut(N, text, before)'
  <1>1. Close \/ UNCHANGED vars
    BY DEF ThrownOut, Next, Serve, Greet, EnterCommand, EmptyLine, EnterMode,
           StartProcessing, ScanBlock, ScanEnds, Release, Processing, HandleError,
           NetworkInput, Written, SignalTerminate, Runs
  <1>2. state' = "Terminate" /\ op' \in {"run", "closed"} /\ sent' = sent
    BY <1>1 DEF Close, Runs, ThrownOut, vars
  <1>. QED
    BY <1>2 DEF ThrownOut, PrefixOf

(* As long as the mode is the same, so is what becomes of a byte. *)
LEMMA FiltersStay ==
    ASSUME NEW f, Filters(f), UNCHANGED mode
    PROVE  Filters(f)'
  BY DEF Filters, Filter

(* Nothing happens, and all is as it was. *)
LEMMA UnderWayStays ==
    ASSUME UNCHANGED vars,
           NEW N, NEW M \in Nat, NEW b, NEW q, NEW dst, NEW f, NEW text, NEW before,
           DataUnderWay(N, M, b, q, dst, f, text, before)
    PROVE  DataUnderWay(N, M, b, q, dst, f, text, before)'
  <1>1. UNCHANGED <<size, buf, pos, eodState, scan, state, mode, itr, eoM, eoD, output,
                    outSize, op, unread, sent>> /\ UNCHANGED block
    BY DEF vars, block
  <1>2. Filters(f)'
    BY <1>1, FiltersStay DEF DataUnderWay
  <1>3. \A c : Coming(M, b, c)' = Coming(M, b, c)
    BY <1>1 DEF Coming
  <1>4. CASE DataScanned(N, M, b, q, dst, text, before)
    <2>1. \A n, x, y, d : ByteByByte(n, x, y, d) /\ ScanInv(n, x, y, d) => ScanInv(n, x, y, d)'
      BY <1>1, StandsStill
    <2>2. \A c, n, x, y, d : Piece(M, b, q, c, n, x, y, d) => ByteByByte(n, x, y, d)
      BY DEF Piece
    <2>4. \A n, x : Untouched(n, x)' = Untouched(n, x)
      BY <1>1 DEF Untouched, At
    <2>3. DataScanned(N, M, b, q, dst, text, before)'
      BY <1>1, <1>3, <1>4, <2>1, <2>2, <2>4 DEF DataScanned, InScan
    <2>. QED
      BY <1>2, <2>3 DEF DataUnderWay
  <1>5. CASE DataEchoed(N, M, b, q, dst, text, before)
    <2>1. Echoed' = Echoed /\ Rest' = Rest
      BY <1>1 DEF Echoed, Rest, Part, Filter
    <2>3. Behind(N, M, b, dst)' = Behind(N, M, b, dst)
      BY <1>1 DEF Behind, Ahead
    <2>2. DataEchoed(N, M, b, q, dst, text, before)'
      BY <1>1, <1>3, <1>5, <2>1, <2>3 DEF DataEchoed
    <2>. QED
      BY <1>2, <2>2 DEF DataUnderWay
  <1>6. CASE DataAwaited(N, M, b, q, dst, text, before)
    <2>1. DataAwaited(N, M, b, q, dst, text, before)'
      BY <1>1, <1>3, <1>6 DEF DataAwaited
    <2>. QED
      BY <1>2, <2>1 DEF DataUnderWay
  <1>. QED
    BY <1>4, <1>5, <1>6 DEF DataUnderWay

(* A timeout, a signal or an error. *)
LEMMA TerminateLeads ==
    ASSUME Inv, SignalTerminate,
           NEW N, NEW M \in Nat, NEW b, NEW q, NEW dst, NEW f, NEW text,
           NEW before \in Seq(U), Requested(N, b, q, dst, f, text), N <= M,
           DataUnderWay(N, M, b, q, dst, f, text, before)
    PROVE  ThrownOut(N, text, before)'
  <1>1. PrefixOf(sent, before \o text[N])
    BY UnderWayBegins
  <1>. QED
    BY <1>1 DEF SignalTerminate, ThrownOut, PrefixOf

(* A turn of getEoD, or its end. *)
LEMMA ScanStepLeads ==
    ASSUME Inv, Next,
           NEW N, NEW M \in Nat, NEW b, NEW q, NEW dst, NEW f, NEW text, NEW before,
           Filters(f), DataScanned(N, M, b, q, dst, text, before)
    PROVE  \/ DataUnderWay(N, M, b, q, dst, f, text, before)'
           \/ DataThere(N, M, b, q, dst, f, text, before)'
  <1>1. ScanBlock \/ ScanEnds
    BY DEF DataScanned, InScan, Next, Serve, Greet, EnterCommand, EmptyLine, EnterMode,
           StartProcessing, Release, Processing, HandleError, Close, NetworkInput,
           Written, SignalTerminate, Runs
  <1>2. InScan /\ state = "Processing"
    BY DEF DataScanned
  <1>3. PICK c \in 0..N :
           /\ (IF op = "scanRest" THEN Append(sent, "enter data") ELSE sent) \o output
                 = before \o text[c]
           /\ \E n, x, y, d :
                 /\ Piece(M, b, q, c, n, x, y, d) /\ ScanInv(n, x, y, d)
                 /\ Untouched(n, x) /\ Coming(M, b, c + n)
    BY DEF DataScanned
  <1>4. PICK n, x, y, d :
           /\ Piece(M, b, q, c, n, x, y, d) /\ ScanInv(n, x, y, d)
           /\ Untouched(n, x) /\ Coming(M, b, c + n)
    BY <1>3
  <1>5. UNCHANGED <<mode, unread, output, state>>
    BY <1>1 DEF ScanBlock, ScanEnds
  <1>6. Filters(f)'
    BY <1>5, FiltersStay
  <1>7. Coming(M, b, c + n)'
    BY <1>4, <1>5 DEF Coming
  <1>8. Piece(M, b, q, c, n, x, y, d)'
    BY <1>4 DEF Piece, ByteByByte
  <1>9. IF InScan' THEN ScanInv(n, x, y, d)' ELSE HasData(n, x, y, d)'
    <2>1. ByteByByte(n, x, y, d)
      BY <1>4 DEF Piece
    <2>. QED
      BY <1>2, <1>4, <2>1, ScanGoesOn
  <1>10. CASE ScanBlock
    <2>1. UNCHANGED <<op, sent>> /\ InScan'
      BY <1>2, <1>10 DEF ScanBlock, InScan
    <2>2. ScanInv(n, x, y, d)'
      BY <1>9, <2>1
    <2>3. (IF op' = "scanRest" THEN Append(sent', "enter data") ELSE sent') \o output'
              = before \o text[c]
      BY <1>3, <1>5, <2>1
    <2>5. Untouched(n, x)'
      BY <1>4, <1>10, UntouchedStays DEF ScanBlock, ScanInv
    <2>4. DataScanned(N, M, b, q, dst, text, before)'
      BY <1>2, <1>5, <1>7, <1>8, <2>1, <2>2, <2>3, <2>5 DEF DataScanned
    <2>. QED
      BY <1>6, <2>4 DEF DataUnderWay
  <1>11. CASE ScanEnds
    <2>1. /\ op' \in {"run", "write"} /\ ~ InScan'
          /\ sent' = IF op = "scanRest" THEN Append(sent, "enter data") ELSE sent
      BY <1>11 DEF ScanEnds, InScan
    <2>2. HasData(n, x, y, d)'
      BY <1>9, <2>1
    <2>3. sent' \o output' = before \o text[c]
      BY <1>3, <1>5, <2>1
    <2>5. eoD' # eoM' => buf'[eoD'] = x[eoD' - itr']
      BY <1>4, <1>11, GivenUp
    <2>4. DataThere(N, M, b, q, dst, f, text, before)'
      BY <1>2, <1>5, <1>6, <1>7, <1>8, <2>1, <2>2, <2>3, <2>5 DEF DataThere
    <2>. QED
      BY <2>4
  <1>. QED
    BY <1>1, <1>10, <1>11

(* The end of the data, and the client has it all. *)
LEMMA DoneIsSent ==
    ASSUME NEW N, NEW M, NEW b, NEW q, NEW dst, NEW f, NEW text,
           NEW before \in Seq(U), Requested(N, b, q, dst, f, text),
           DataDone(N, M, b, dst, text, before)'
    PROVE  DataSent(N, text, before)'
  <1>1. text[N] \in Seq(U)
    BY TextGrows, RequestIs DEF Steps
  <1>2. PrefixOf(before \o text[N], before \o text[N])
    BY <1>1, PrefixIs
  <1>3. sent' = before \o text[N]
    BY DEF DataDone
  <1>. QED
    BY <1>2, <1>3 DEF DataSent, PrefixOf

(* A turn of the echo, or its end. *)
LEMMA EchoStepLeads ==
    ASSUME Inv, Inv', Next,
           NEW N, NEW M \in Nat, NEW b, NEW q, NEW dst, NEW f, NEW text,
           NEW before \in Seq(U), Requested(N, b, q, dst, f, text), N <= M,
           Filters(f), DataEchoed(N, M, b, q, dst, text, before)
    PROVE  \/ DataUnderWay(N, M, b, q, dst, f, text, before)'
           \/ DataDone(N, M, b, dst, text, before)' \/ ThrownOut(N, text, before)'
  <1>1. op \in {"run", "write"} /\ state \in {"Processing", "ProcessingAfterWrite"}
    BY DEF DataEchoed
  <1>2. Release \/ Processing \/ Written \/ SignalTerminate
    BY <1>1
    DEF Next, Serve, Greet, EnterCommand, EmptyLine, EnterMode, StartProcessing, ScanBlock,
        ScanEnds, HandleError, Close, NetworkInput, Runs
  <1>3. CASE SignalTerminate
    <2>1. DataUnderWay(N, M, b, q, dst, f, text, before)
      BY DEF DataUnderWay
    <2>. QED
      BY <1>3, <2>1, TerminateLeads
  <1>4. PICK c \in 0..N :
           /\ Echoed \o Rest = before \o text[c]
           /\ \/ c = N /\ eoD # eoM /\ Behind(N, M, b, dst)
              \/ eoD = eoM /\ eodState = q[c] /\ Coming(M, b, c)
    BY DEF DataEchoed
  <1>5. CASE Release \/ Processing \/ Written
    <2>1. UNCHANGED <<mode, unread, eoD, eoM>> /\ state' # "Terminate"
      BY <1>1, <1>5 DEF Release, Processing, Written, block, Runs
    <2>2. Filters(f)'
      BY <2>1, FiltersStay
    <2>3. Echoed' \o Rest' = before \o text[c]
      <3>1. Echoing
        BY <1>1 DEF Echoing
      <3>. QED
        BY <1>1, <1>4, <2>1, <3>1, EchoKept
    <2>4. /\ Coming(M, b, c) => Coming(M, b, c)'
          /\ Behind(N, M, b, dst) => Behind(N, M, b, dst)'
      <3>1. buf' = buf
        BY <1>5 DEF Release, Processing, Written, block
      <3>. QED
        BY <2>1, <3>1 DEF Coming, Behind, Ahead
    <2>5. ASSUME op' \in {"run", "write"}, UNCHANGED eodState,
                 state' \in {"Processing", "ProcessingAfterWrite"}
          PROVE  DataUnderWay(N, M, b, q, dst, f, text, before)'
      <3>1. \/ c = N /\ eoD' # eoM' /\ Behind(N, M, b, dst)'
            \/ eoD' = eoM' /\ eodState' = q[c] /\ Coming(M, b, c)'
        BY <1>4, <2>1, <2>4, <2>5
      <3>2. DataEchoed(N, M, b, q, dst, text, before)'
        BY <2>3, <2>5, <3>1 DEF DataEchoed
      <3>. QED
        BY <2>2, <3>2 DEF DataUnderWay
    <2>6. CASE Release \/ Written
      BY <1>1, <2>5, <2>6 DEF Release, Written, block, Runs
    <2>7. CASE Processing /\ itr' # eoD
      <3>1. /\ op' \in {"run", "write"} /\ UNCHANGED eodState
            /\ state' = "ProcessingAfterWrite"
        BY <2>7 DEF Processing, SendOutput, Runs
      <3>. QED
        BY <2>5, <3>1
    <2>8. CASE Processing /\ itr' = eoD
      <3>1. Rest' = <<>>
        <4>1. eoD \in Nat
          BY Places
        <4>2. Part(eoD, eoD) = <<>>
          BY <4>1 DEF Part
        <4>3. Rest' = Part(itr', eoD)
          <5>1. eoD' = eoD /\ buf' = buf /\ mode' = mode
            BY <2>8 DEF Processing
          <5>. QED
            BY <5>1 DEF Rest, Part, Filter
        <4>. QED
          BY <2>8, <4>2, <4>3
      <3>2. Echoed' \in Seq(U)
        BY SentTypes
      <3>3. Echoed' = before \o text[c]
        <4>. HIDE DEF U
        <4>1. Echoed' \o <<>> = Echoed'
          BY <3>2, ConcatEmptySeq
        <4>. QED
          BY <2>3, <3>1, <4>1
      <3>4. CASE eoD = eoM
        <4>1. op' = "read" /\ state' = "Processing" /\ UNCHANGED <<eodState, sent>>
          BY <2>8, <3>4 DEF Processing, ReadData, Runs
        <4>2. eodState' = q[c] /\ Coming(M, b, c)'
          BY <1>4, <2>4, <3>4, <4>1
        <4>3. sent' \o output' = before \o text[c]
          BY <3>3, <4>1 DEF Echoed
        <4>4. DataAwaited(N, M, b, q, dst, text, before)'
          BY <4>1, <4>2, <4>3 DEF DataAwaited
        <4>. QED
          BY <2>2, <4>4 DEF DataUnderWay
      <3>5. CASE eoD # eoM
        <4>1. state' = "Init" /\ c = N
          BY <1>4, <2>8, <3>5 DEF Processing, Runs
        <4>2. sent' = before \o text[N]
          BY <3>3, <4>1 DEF Echoed
        <4>3. op' \in {"run", "write"}
          BY <2>8, <3>5 DEF Processing, SendOutput, Runs
        <4>4. \E k \in dst[N] .. N : Ahead(itr, Following(N, M, b, b[k]), 0, M - N)'
          <5>1. Behind(N, M, b, dst)
            BY <1>4, <3>5
          <5>2. /\ UNCHANGED <<buf, eoM, unread>> /\ itr' = eoD
            BY <2>8 DEF Processing
          <5>. QED
            BY <5>1, <5>2 DEF Behind, Ahead
        <4>. QED
          BY <4>1, <4>2, <4>3, <4>4 DEF DataDone
      <3>. QED
        BY <3>4, <3>5
    <2>. QED
      BY <1>5, <2>6, <2>7, <2>8
  <1>. QED
    BY <1>2, <1>3, <1>5

(* The next block. *)
LEMMA AwaitStepLeads ==
    ASSUME Inv, Inv', Next, FullReads,
           NEW N, NEW M \in Nat, NEW b, NEW q, NEW dst, NEW f, NEW text,
           NEW before \in Seq(U), Requested(N, b, q, dst, f, text), N <= M,
           Filters(f), DataAwaited(N, M, b, q, dst, text, before)
    PROVE  DataBegun(N, M, b, q, dst, f, text, before)' \/ ThrownOut(N, text, before)'
  <1>1. op = "read" /\ state = "Processing"
    BY DEF DataAwaited
  <1>2. SignalTerminate \/ \E m \in 1..size : NetworkInput(m)
    BY <1>1
    DEF Next, Serve, Greet, EnterCommand, EmptyLine, EnterMode, StartProcessing, ScanBlock,
        ScanEnds, HandleError, Close, Release, Processing, Written, Runs
  <1>3. CASE SignalTerminate
    <2>1. DataUnderWay(N, M, b, q, dst, f, text, before)
      BY DEF DataUnderWay
    <2>. QED
      BY <1>3, <2>1, TerminateLeads
  <1>4. PICK c \in 0..N :
           /\ sent \o output = before \o text[c]
           /\ eodState = q[c] /\ Coming(M, b, c)
    BY DEF DataAwaited
  <1>5. ASSUME NEW m \in 1..size, NetworkInput(m)
        PROVE  DataBegun(N, M, b, q, dst, f, text, before)'
    <2>1. /\ UNCHANGED <<mode, state, sent, output, size, eodState>>
          /\ op' = "scanInput" /\ InScan' /\ ~ InScan /\ scan'.start = 0
      BY <1>1, <1>5 DEF NetworkInput, GetEoD, InScan
    <2>2. /\ size \in Nat /\ m \in Nat /\ N \in Nat /\ c \in Nat
          /\ Len(unread) \in Nat /\ m <= Len(unread) /\ (m = size \/ m = Len(unread))
      <3>1. N \in Nat
        BY RequestIs DEF Steps
      <3>2. size \in Nat /\ unread \in Seq(Byte)
        BY Places DEF Inv, TypeOK
      <3>. QED
        BY <1>5, <3>1, <3>2, LenProperties DEF NetworkInput
    <2>0. PICK n, x : n = size /\ x = buf'
      OBVIOUS
    <2>3. PICK y, d : ByteByByte(n, x, y, d) /\ y[0] = q[c]
      <3>1. q[c] \in EodState
        BY <1>4 DEF Inv, TypeOK, BlockType
      <3>2. n \in Nat
        BY <2>0, <2>2
      <3>3. \E y, d : ByteByByte(n, x, y, d) /\ y[0] = q[c]
        BY <3>1, <3>2, ByteByByteExists
      <3>. QED
        BY <3>3
    <2>4. Faces(n, x, y)'
      <3>1. BufSize' = size
        BY <2>1, <2>2 DEF BufSize
      <3>2. \A k \in 0 .. size - 1 : 0 + k = k
        BY <2>2
      <3>. QED
        BY <1>4, <2>0, <2>1, <2>3, <3>1, <3>2 DEF Faces, At
    <2>5. Begins(n, x, y)'
      BY <2>1, <2>3, <2>4, ScanBegins
    <2>6. \A k \in c..M : k - c + 1 \in 1 .. Len(unread) /\ unread[k - c + 1] = b[k]
      BY <1>4 DEF Coming
    <2>7. \A k \in c..M : k - c < n => x[k - c] = b[k]
      <3>. SUFFICES ASSUME NEW k \in c..M, k - c < n PROVE x[k - c] = b[k]
        OBVIOUS
      <3>1. /\ k - c \in 0 .. size - 1 /\ k - c + 1 \in 1 .. Len(unread)
            /\ unread[k - c + 1] = b[k]
        BY <2>0, <2>2, <2>6
      <3>2. k - c < m
        BY <2>2, <3>1
      <3>3. k - c \in DOMAIN buf
        BY <3>1 DEF Inv, TypeOK, BlockType
      <3>. QED
        BY <1>5, <2>0, <3>1, <3>2, <3>3 DEF NetworkInput
    <2>8. Coming(M, b, c + n)'
      <3>. SUFFICES ASSUME NEW k \in (c + n) .. M
                    PROVE  /\ k - (c + n) + 1 \in 1 .. Len(unread')
                           /\ unread'[k - (c + n) + 1] = b[k]
        BY DEF Coming
      <3>1. /\ k \in c..M /\ k - c + 1 \in 1 .. Len(unread) /\ unread[k - c + 1] = b[k]
            /\ k - c + 1 > size
        BY <2>0, <2>2, <2>6
      <3>2. m = size
        BY <2>2, <3>1
      <3>3. unread' = SubSeq(unread, size + 1, Len(unread))
        BY <1>5, <3>2 DEF NetworkInput
      <3>4. \A i \in size + 1 .. Len(unread) : unread[i] \in Byte
        BY <2>2, ElementOfSeq DEF Inv, TypeOK
      <3>5. /\ Len(unread') = Len(unread) - size
            /\ \A i \in 1 .. Len(unread) - size : unread'[i] = unread[size + i]
        <4>1. size + 1 \in Int /\ Len(unread) \in Int /\ size + 1 <= Len(unread)
          BY <2>2, <3>1
        <4>2. /\ Len(unread') = Len(unread) - (size + 1) + 1
              /\ \A i \in 1 .. Len(unread) - (size + 1) + 1 :
                    unread'[i] = unread[(size + 1) + i - 1]
          BY <3>3, <3>4, <4>1, SubSeqProperties
        <4>3. /\ Len(unread) - (size + 1) + 1 = Len(unread) - size
              /\ \A i \in 1 .. Len(unread) - size : (size + 1) + i - 1 = size + i
          BY <2>2
        <4>. QED
          BY <4>2, <4>3
      <3>. DEFINE i == k - (c + n) + 1
      <3>6. i \in 1 .. Len(unread) - size /\ size + i = k - c + 1
        BY <2>0, <2>2, <3>1
      <3>. QED
        BY <3>1, <3>5, <3>6
    <2>9. Filters(f)'
      BY <2>1, FiltersStay
    <2>10. Piece(M, b, q, c, n, x, y, d)
      BY <2>3, <2>7 DEF Piece
    <2>11. (IF op' = "scanRest" THEN Append(sent', "enter data") ELSE sent') \o output'
               = before \o text[c]
      BY <1>4, <2>1
    <2>12. /\ Piece(M, b, q, c, n, x, y, d) /\ Begins(n, x, y)'
           /\ Coming(M, b, c + n)'
      BY <2>5, <2>8, <2>10
    <2>. QED
      BY <1>1, <2>1, <2>9, <2>11, <2>12 DEF DataBegun
  <1>. QED
    BY <1>2, <1>3, <1>5

(* The data begins: no byte of it is read yet. *)
LEMMA BeginsBegun ==
    ASSUME Inv,
           NEW N, NEW M \in Nat, NEW b, NEW q, NEW dst, NEW f, NEW text,
           NEW before \in Seq(U), Requested(N, b, q, dst, f, text), N <= M,
           DataBegins(M, b, f, before)
    PROVE  DataBegun(N, M, b, q, dst, f, text, before)
  <1>1. PICK n, x : n = BufSize /\ x = [k \in 0 .. n - 1 |-> At(k)]
    OBVIOUS
  <1>2. n \in Nat
    <2>1. size \in Nat /\ scan.start \in 0 .. size - 1
      BY Places DEF Inv, TypeOK, BlockType, ScanType
    <2>. QED
      BY <1>1, <2>1 DEF BufSize
  <1>3. q[0] = "SRC" /\ "SRC" \in EodState /\ N \in Nat /\ text[0] = <<>> /\ 0 \in 0..N
    BY DEF Requested, EodState
  <1>4. PICK y, d : ByteByByte(n, x, y, d) /\ y[0] = "SRC"
    <2>1. \E y, d : ByteByByte(n, x, y, d) /\ y[0] = "SRC"
      <3>1. "SRC" \in EodState
        BY <1>3
      <3>. QED
        BY <1>2, <3>1, ByteByByteExists
    <2>. QED
      BY <2>1
  <1>5. Begins(n, x, y)
    <2>1. Faces(n, x, y)
      BY <1>1, <1>4 DEF Faces, DataBegins
    <2>2. /\ scan.bufpos = 0 /\ scan.eatsize = 0 /\ scan.dstsize = 0
          /\ scan.eodpos = NotFound
      <3>1. /\ scan.eatsize \in Nat /\ scan.dstsize \in Nat
            /\ scan.eodpos = NotFound \/ scan.eodpos \in Nat
        BY Places DEF Inv, TypeOK, BlockType, ScanType
      <3>2. scan.bufpos = 0 /\ scan.eatsize <= scan.bufpos
        BY DEF DataBegins, Inv, MovesDown
      <3>3. scan.eatsize = 0
        BY <3>1, <3>2
      <3>4. scan.dstsize = 0
        <4>1. scan.dstsize <= scan.eatsize
          BY DEF Inv, MovesDown
        <4>. QED
          BY <3>1, <3>3, <4>1
      <3>5. scan.eodpos = NotFound
        <4>1. scan.eodpos < scan.dstsize \/ scan.eodpos = NotFound
          BY DEF Inv, MovesDown
        <4>. QED
          BY <3>1, <3>4, <4>1
      <3>. QED
        BY <3>2, <3>3, <3>4, <3>5
    <2>. QED
      BY <2>1, <2>2 DEF Begins, Inv, TypeOK
  <1>6. Piece(M, b, q, 0, n, x, y, d)
    <2>1. \A k \in 0..M : k - 0 < n => x[k - 0] = b[k]
      <3>. SUFFICES ASSUME NEW k \in 0..M, k < n PROVE x[k] = b[k]
        OBVIOUS
      <3>1. k \in 0 .. n - 1
        BY <1>2, <1>3
      <3>2. x[k] = At(k)
        BY <1>1, <3>1
      <3>. QED
        BY <1>1, <3>2 DEF DataBegins
    <2>. QED
      BY <1>3, <1>4, <2>1 DEF Piece
  <1>7. Coming(M, b, 0 + n)
    <2>1. 0 + n = BufSize
      BY <1>1, <1>2
    <2>. QED
      BY <2>1 DEF DataBegins
  <1>8. (IF op = "scanRest" THEN Append(sent, "enter data") ELSE sent) \o output
            = before \o text[0]
    <2>1. before \o <<>> = before
      <3>. HIDE DEF U
      <3>. QED
        BY ConcatEmptySeq
    <2>. QED
      BY <1>3, <2>1 DEF DataBegins
  <1>9. InScan /\ state = "Processing" /\ Filters(f)
    BY DEF DataBegins, InScan
  <1>. QED
    BY <1>3, <1>5, <1>6, <1>7, <1>8, <1>9 DEF DataBegun

(* Whatever a request sends, in blocks that are filled: from where getEoD  *)
(* begins on, the client gets what was on its way before, then the text,   *)
(* byte for byte, the dots that escape a dot left out, whatever the sizes  *)
(* of the blocks and wherever they cut; at any time it has a beginning of  *)
(* that; and unless it is thrown out the handler does not turn to anything *)
(* else before the client has it all.                                      *)
THEOREM DataComesBack ==
    ASSUME FullReads,
           NEW N, NEW b, NEW q, NEW dst, NEW f, NEW text,
           NEW before \in Seq(Byte \cup Reply), Requested(N, b, q, dst, f, text)
    PROVE  Spec => [](DataBegins(N, b, f, before)
                      => [](/\ \/ PrefixOf(sent, before \o text[N])
                               \/ PrefixOf(before \o text[N], sent)
                            /\ \/ state \in {"Processing", "ProcessingAfterWrite", "Terminate"}
                               \/ PrefixOf(before \o text[N], sent)))
  <1>. DEFINE Asked == DataBegins(N, b, f, before)
              Begun == DataBegun(N, N, b, q, dst, f, text, before)
              There == DataThere(N, N, b, q, dst, f, text, before)
              On == DataInv(N, N, b, q, dst, f, text, before)
              Comes == /\ \/ PrefixOf(sent, before \o text[N])
                          \/ PrefixOf(before \o text[N], sent)
                       /\ \/ state \in {"Processing", "ProcessingAfterWrite", "Terminate"}
                          \/ PrefixOf(before \o text[N], sent)
  <1>0. before \in Seq(U) /\ N \in Nat /\ N <= N
    BY DEF U, Requested
  <1>1. Inv /\ Asked => Begun
    BY <1>0, BeginsBegun
  <1>2. Begun => On
    BY <1>0, BegunIsScanned DEF DataInv
  <1>3. Inv /\ There => On
    BY <1>0, ThereIsEchoed DEF DataInv
  <1>4. Inv /\ Inv' /\ On /\ [Next]_vars => On' \/ Begun' \/ There'
    <2>. SUFFICES ASSUME Inv, Inv', On, [Next]_vars PROVE On' \/ Begun' \/ There'
      OBVIOUS
    <2>1. CASE DataSent(N, text, before)
      BY <1>0, <2>1, SentStays DEF DataInv
    <2>2. CASE ThrownOut(N, text, before)
      BY <2>2, ThrownOutStays DEF DataInv
    <2>3. CASE DataUnderWay(N, N, b, q, dst, f, text, before) /\ UNCHANGED vars
      BY <1>0, <2>3, UnderWayStays DEF DataInv
    <2>4. CASE DataUnderWay(N, N, b, q, dst, f, text, before) /\ Next
      <3>1. Filters(f)
        BY <2>4 DEF DataUnderWay
      <3>2. CASE DataScanned(N, N, b, q, dst, text, before)
        BY <1>0, <2>4, <3>1, <3>2, ScanStepLeads DEF DataInv
      <3>3. CASE DataEchoed(N, N, b, q, dst, text, before)
        BY <1>0, <2>4, <3>1, <3>3, EchoStepLeads, DoneIsSent DEF DataInv
      <3>4. CASE DataAwaited(N, N, b, q, dst, text, before)
        BY <1>0, <2>4, <3>1, <3>4, AwaitStepLeads DEF DataInv
      <3>. QED
        BY <2>4, <3>2, <3>3, <3>4 DEF DataUnderWay
    <2>. QED
      BY <2>1, <2>2, <2>3, <2>4 DEF DataInv
  <1>5. Inv /\ On => Comes
    <2>. SUFFICES ASSUME Inv, On PROVE Comes
      OBVIOUS
    <2>1. CASE DataUnderWay(N, N, b, q, dst, f, text, before)
      <3>1. PrefixOf(sent, before \o text[N])
        BY <1>0, <2>1, UnderWayBegins
      <3>2. state \in {"Processing", "ProcessingAfterWrite"}
        BY <2>1 DEF DataUnderWay, DataScanned, DataEchoed, DataAwaited
      <3>. QED
        BY <3>1, <3>2
    <2>2. CASE DataSent(N, text, before)
      BY <2>2 DEF DataSent
    <2>3. CASE ThrownOut(N, text, before)
      BY <2>3 DEF ThrownOut
    <2>. QED
      BY <2>1, <2>2, <2>3 DEF DataInv
  <1>. HIDE DEF Asked, Begun, There, On, Comes
  <1>6. Spec => [](Asked => []Comes)
    BY <1>1, <1>2, <1>3, <1>4, <1>5, Inductive, PTL DEF Spec
  <1>. QED
    BY <1>6 DEF Asked, Comes
-------------------------------------------------------------------------------
(***************************************************************************)
(* A session with one request, from the greeting to "bye".                 *)
(*                                                                         *)
(* What is left of what the client sends is ahead of the handler: in its   *)
(* block from some place on, and then with the network.  Wherever a block  *)
(* ends, a word that is not read to its end is in the command buffer as    *)
(* far as it was read.                                                     *)
(***************************************************************************)

Bytes(z, i, j) == \A k \in i .. j - 1 : z[k] \in Byte

IsLowered(s, z, i, j) ==
    /\ s \in Seq(Byte) /\ Len(s) = j - i
    /\ \A k \in 1 .. j - i : s[k] = Lower[z[i + k - 1]]

(* No bytes spell nothing. *)
LEMMA NoBytes == CmdValue(<<>>) = <<>>
  <1>2. <<>> \in Seq(Byte) /\ Len(<<>>) = 0
    BY EmptySeq
  <1>1. PICK m : m \in 1 .. 0 + 1 /\ CmdValue(<<>>) = SubSeq(<<>>, m, Len(<<>>))
    BY <1>2, FirstStart
  <1>3. SubSeq(<<>>, m, 0) = <<>>
    BY <1>1
  <1>. QED
    BY <1>2, <1>1, <1>3

(* A word of which nothing is read yet. *)
LEMMA SpeltNothing ==
    ASSUME NEW z, NEW i \in Nat
    PROVE  Spelt(z, i, i) = <<>>
  <1>1. Lowered(z, i, i) = <<>>
    BY DEF Lowered
  <1>. QED
    BY <1>1, NoBytes DEF Spelt

(* The small letters of a stretch of bytes. *)
LEMMA LoweredIs ==
    ASSUME NEW z, NEW i \in Nat, NEW j \in Nat, i <= j, Bytes(z, i, j)
    PROVE  IsLowered(Lowered(z, i, j), z, i, j)
  <1>1. Lower \in [Byte -> Byte]
    BY PechoAssumption
  <1>2. j - i \in Nat /\ \A k \in 1 .. j - i : i + k - 1 \in i .. j - 1
    OBVIOUS
  <1>. DEFINE s == Lowered(z, i, j)
  <1>3. s \in [1 .. j - i -> Byte] /\ \A k \in 1 .. j - i : s[k] = Lower[z[i + k - 1]]
    BY <1>1, <1>2 DEF Lowered, Bytes
  <1>. HIDE DEF s
  <1>4. s \in Seq(Byte)
    BY <1>2, <1>3, SeqDef
  <1>5. Len(s) = j - i
    BY <1>2, <1>3, <1>4, LenProperties
  <1>. QED
    BY <1>3, <1>4, <1>5 DEF s, IsLowered

(* A word goes on with the next block. *)
LEMMA SpeltOn ==
    ASSUME NEW z, NEW i \in Nat, NEW p \in Nat, NEW j \in Nat, i <= p, p <= j,
           Bytes(z, i, j)
    PROVE  Spelt(z, i, j) = CmdValue(Spelt(z, i, p) \o Lowered(z, p, j))
  <1>. DEFINE s == Lowered(z, i, p)
              t == Lowered(z, p, j)
              u == Lowered(z, i, j)
  <1>0. Bytes(z, i, p) /\ Bytes(z, p, j)
    BY DEF Bytes
  <1>1. /\ s \in Seq(Byte) /\ Len(s) = p - i
        /\ \A k \in 1 .. p - i : s[k] = Lower[z[i + k - 1]]
    <2>1. IsLowered(s, z, i, p)
      BY <1>0, LoweredIs
    <2>. QED
      BY <2>1 DEF IsLowered
  <1>2. /\ t \in Seq(Byte) /\ Len(t) = j - p
        /\ \A k \in 1 .. j - p : t[k] = Lower[z[p + k - 1]]
    <2>1. IsLowered(t, z, p, j)
      BY <1>0, LoweredIs
    <2>. QED
      BY <2>1 DEF IsLowered
  <1>3. /\ u \in Seq(Byte) /\ Len(u) = j - i
        /\ \A k \in 1 .. j - i : u[k] = Lower[z[i + k - 1]]
    <2>1. i <= j
      OBVIOUS
    <2>2. IsLowered(u, z, i, j)
      BY <2>1, LoweredIs
    <2>. QED
      BY <2>2 DEF IsLowered
  <1>4. Spelt(z, i, j) = CmdValue(u) /\ Spelt(z, i, p) = CmdValue(s)
    BY DEF Spelt
  <1>. HIDE DEF s, t, u
  <1>5. /\ s \o t \in Seq(Byte) /\ Len(s \o t) = Len(s) + Len(t)
        /\ \A k \in 1 .. Len(s) + Len(t) :
              (s \o t)[k] = IF k <= Len(s) THEN s[k] ELSE t[k - Len(s)]
    BY <1>1, <1>2, ConcatProperties
  <1>6. Len(s \o t) = Len(u) /\ Len(u) \in Nat
    BY <1>1, <1>2, <1>3, <1>5
  <1>7. \A k \in 1 .. Len(u) : (s \o t)[k] = u[k]
    <2>. SUFFICES ASSUME NEW k \in 1 .. j - i PROVE (s \o t)[k] = u[k]
      BY <1>3
    <2>1. CASE k <= p - i
      <3>1. k \in 1 .. p - i /\ k \in 1 .. Len(s) + Len(t) /\ k <= Len(s)
        BY <1>1, <1>2, <2>1
      <3>. QED
        BY <1>1, <1>3, <1>5, <3>1
    <2>2. CASE ~ (k <= p - i)
      <3>1. /\ k - (p - i) \in 1 .. j - p /\ k \in 1 .. Len(s) + Len(t) /\ ~ (k <= Len(s))
            /\ p + (k - (p - i)) - 1 = i + k - 1 /\ Len(s) = p - i
        BY <1>1, <1>2, <2>2
      <3>. QED
        BY <1>2, <1>3, <1>5, <3>1
    <2>. QED
      BY <2>1, <2>2
  <1>8. s \o t = u
    BY <1>3, <1>5, <1>6, <1>7, SeqEqual
  <1>. QED
    BY <1>1, <1>2, <1>4, <1>8, WordsSurviveCuts DEF t

(* The parser searches n bytes on, as far as the message goes. *)
LEMMA FindIs ==
    ASSUME NEW i \in Nat, eoM \in Nat, i <= eoM, NEW S, NEW n \in Nat,
           \A k \in 0 .. n - 1 : i + k < eoM => buf[i + k] \notin S,
           i + n < eoM => buf[i + n] \in S
    PROVE  Find(i, S) = IF i + n < eoM THEN i + n ELSE eoM
  <1>. DEFINE stops == {k \in i..eoM : k = eoM \/ buf[k] \in S}
  <1>1. stops \in SUBSET Nat /\ eoM \in stops
    OBVIOUS
  <1>2. Min(stops) \in stops /\ \A k \in stops : Min(stops) <= k
    <2>. HIDE DEF stops
    <2>. QED
      BY <1>1, LeastExists
  <1>3. Find(i, S) = Min(stops)
    BY DEF Find
  <1>. DEFINE g == Min(stops)
  <1>4. g \in i..eoM /\ (g = eoM \/ buf[g] \in S)
    BY <1>2
  <1>5. i + n < eoM => g <= i + n
    BY <1>2
  <1>. HIDE DEF g
  <1>6. g - i \in Nat /\ i + (g - i) = g
    BY <1>4
  <1>7. g < eoM => ~ (g - i < n)
    <2>. SUFFICES ASSUME g < eoM, g - i < n PROVE FALSE
      OBVIOUS
    <2>1. g - i \in 0 .. n - 1
      BY <1>6
    <2>2. buf[i + (g - i)] \notin S
      BY <1>6, <2>1
    <2>. QED
      BY <1>4, <1>6, <2>2
  <1>8. g = IF i + n < eoM THEN i + n ELSE eoM
    BY <1>4, <1>5, <1>6, <1>7
  <1>. QED
    BY <1>3, <1>8 DEF g

(* The byte k places on, whether it is in the block or with the network. *)
Comes(k, c) ==
    /\ k < eoM => buf[k] = c
    /\ ~ (k < eoM) => k - eoM + 1 \in 1 .. Len(unread) /\ unread[k - eoM + 1] = c

(* The same of all the bytes z from p to m. *)
Near(at, z, p, m) == \A k \in p..m : Comes(at + (k - p), z[k])

(* What is ahead, byte by byte. *)
LEMMA AheadComes ==
    ASSUME eoM \in Nat, NEW at \in Int, NEW z, NEW p \in Int, NEW m \in Int
    PROVE  Ahead(at, z, p, m) <=> Near(at, z, p, m)
  <1>1. ASSUME NEW k \in p..m
        PROVE  at + (k - p) - eoM + 1 = (at + (k - p)) - eoM + 1
    OBVIOUS
  <1>2. ASSUME Ahead(at, z, p, m), NEW k \in p..m PROVE Comes(at + (k - p), z[k])
    BY <1>1, <1>2 DEF Ahead, Comes
  <1>3. ASSUME \A k \in p..m : Comes(at + (k - p), z[k]) PROVE Ahead(at, z, p, m)
    <2>. SUFFICES ASSUME NEW k \in p..m
                  PROVE  IF at + (k - p) < eoM
                         THEN buf[at + (k - p)] = z[k]
                         ELSE /\ at + (k - p) - eoM + 1 \in 1 .. Len(unread)
                              /\ unread[at + (k - p) - eoM + 1] = z[k]
      BY Zenon DEF Ahead
    <2>1. Comes(at + (k - p), z[k])
      BY <1>3
    <2>. QED
      BY <1>1, <2>1 DEF Comes
  <1>. QED
    BY <1>2, <1>3 DEF Near

(* n bytes on, what is ahead is the rest. *)
LEMMA AheadGoes ==
    ASSUME eoM \in Nat, NEW at \in Int, NEW z, NEW p \in Int, NEW m \in Int, NEW n \in Nat,
           Ahead(at, z, p, m)
    PROVE  Ahead(at + n, z, p + n, m)
  <1>1. ASSUME NEW k \in p + n .. m PROVE Comes((at + n) + (k - (p + n)), z[k])
    <2>1. k \in p..m /\ (at + n) + (k - (p + n)) = at + (k - p)
      OBVIOUS
    <2>2. Comes(at + (k - p), z[k])
      BY <2>1, AheadComes DEF Near
    <2>. QED
      BY <2>1, <2>2
  <1>2. at + n \in Int /\ p + n \in Int
    OBVIOUS
  <1>3. Near(at + n, z, p + n, m)
    BY <1>1 DEF Near
  <1>. QED
    BY <1>2, <1>3, AheadComes

(* The handler goes n bytes on and touches nothing. *)
LEMMA AheadThen ==
    ASSUME eoM \in Nat, NEW at \in Int, NEW z, NEW p \in Int, NEW m \in Int, NEW n \in Nat,
           Ahead(at, z, p, m), UNCHANGED <<buf, eoM, unread>>, itr' = at + n
    PROVE  Ahead(itr, z, p + n, m)'
  <1>1. Ahead(at + n, z, p + n, m)
    BY AheadGoes
  <1>. QED
    BY <1>1 DEF Ahead

(* The bytes z, as far as the message goes. *)
Same(at, z, p, m) ==
    \A n \in Nat : p + n <= m /\ at + n < eoM => buf[at + n] = z[p + n]

(* What is ahead is in the block as far as the message goes. *)
LEMMA AheadIs ==
    ASSUME NEW at \in Int, NEW z, NEW p \in Int, NEW m \in Int, Ahead(at, z, p, m)
    PROVE  Same(at, z, p, m)
  <1>. SUFFICES ASSUME NEW n \in Nat, p + n <= m, at + n < eoM
                PROVE  buf[at + n] = z[p + n]
    BY DEF Same
  <1>1. p + n \in p..m /\ at + ((p + n) - p) = at + n
    OBVIOUS
  <1>. QED
    BY <1>1 DEF Ahead

(* getCommand() at at takes n bytes more of the word from i to j. *)
Takes(n, at, z, i, p, j) ==
    /\ WordEnd(at) = at + n /\ at + n <= eoM
    /\ Name(at) = Spelt(z, i, p + n)
    /\ at + n < eoM => n = j - p

(* getCommand() with the word from i to j, of which p - i bytes are read. *)
LEMMA WordIs ==
    ASSUME Inv, NEW at \in Nat, at <= eoM,
           NEW z, NEW i \in Nat, NEW p \in Nat, NEW j \in Nat, NEW m \in Nat,
           i <= p, p <= j, j <= m,
           BytesTo(z, m),
           Ahead(at, z, p, m), Letters(z, i, j), z[j] \in Ends, cmdBuffer = Spelt(z, i, p)
    PROVE  \E n \in 0 .. j - p : Takes(n, at, z, i, p, j)
  <1>0. Same(at, z, p, m)
    BY AheadIs
  <1>1. eoM \in Nat
    BY Places
  <1>2. \A k \in 0 .. (j - p) - 1 : at + k < eoM => buf[at + k] \notin Ends
    <2>. SUFFICES ASSUME NEW k \in 0 .. (j - p) - 1, at + k < eoM
                  PROVE  buf[at + k] \notin Ends
      OBVIOUS
    <2>1. buf[at + k] = z[p + k]
      BY <1>0 DEF Same
    <2>2. p + k \in i .. j - 1
      OBVIOUS
    <2>. QED
      BY <2>1, <2>2 DEF Letters
  <1>3. at + (j - p) < eoM => buf[at + (j - p)] \in Ends
    <2>. SUFFICES ASSUME at + (j - p) < eoM PROVE buf[at + (j - p)] \in Ends
      OBVIOUS
    <2>1. j - p \in Nat /\ p + (j - p) = j
      OBVIOUS
    <2>2. buf[at + (j - p)] = z[p + (j - p)]
      BY <1>0, <2>1 DEF Same
    <2>. QED
      BY <2>1, <2>2
  <1>. DEFINE n == IF at + (j - p) < eoM THEN j - p ELSE eoM - at
  <1>4. WordEnd(at) = IF at + (j - p) < eoM THEN at + (j - p) ELSE eoM
    <2>1. WordEnd(at) = Find(at, Ends)
      BY DEF WordEnd, Ends
    <2>2. j - p \in Nat
      OBVIOUS
    <2>. QED
      BY <1>1, <1>2, <1>3, <2>1, <2>2, FindIs
  <1>5. /\ n \in 0 .. j - p /\ at + n <= eoM /\ (at + n < eoM => n = j - p)
        /\ WordEnd(at) = at + n
    BY <1>1, <1>4
  <1>. HIDE DEF n
  <1>6. [k \in 1 .. WordEnd(at) - at |-> Lower[buf[at + k - 1]]] = Lowered(z, p, p + n)
    <2>1. WordEnd(at) - at = n /\ (p + n) - p = n
      BY <1>5
    <2>2. \A k \in 1..n : buf[at + k - 1] = z[p + k - 1]
      <3>. SUFFICES ASSUME NEW k \in 1..n PROVE buf[at + k - 1] = z[p + k - 1]
        OBVIOUS
      <3>1. /\ k - 1 \in Nat /\ p + (k - 1) <= m /\ at + (k - 1) < eoM
            /\ at + (k - 1) = at + k - 1 /\ p + (k - 1) = p + k - 1
        BY <1>1, <1>5
      <3>2. buf[at + (k - 1)] = z[p + (k - 1)]
        BY <1>0, <3>1 DEF Same
      <3>. QED
        BY <3>1, <3>2
    <2>. QED
      BY <2>1, <2>2 DEF Lowered
  <1>7. Spelt(z, i, p + n) = CmdValue(Spelt(z, i, p) \o Lowered(z, p, p + n))
    <2>1. p + n \in Nat /\ p <= p + n /\ Bytes(z, i, p + n)
      BY <1>5 DEF Bytes, BytesTo
    <2>. QED
      BY <2>1, SpeltOn
  <1>8. Name(at) = Spelt(z, i, p + n)
    BY <1>6, <1>7 DEF Name
  <1>. QED
    BY <1>5, <1>8 DEF Takes
-------------------------------------------------------------------------------
(* No word of the protocol is taken for another. *)
LEMMA WordsAre ==
    ASSUME Different
    PROVE  /\ Word["echo"] \notin {<<>>, Word["caps"], Word["quit"]}
           /\ Word["quit"] \notin {<<>>, Word["caps"], Word["echo"]}
           /\ Word["tolower"] # <<>> /\ Word["toupper"] # <<>>
           /\ Word["tolower"] # Word["toupper"] /\ Word["caps"] # <<>>
  <1>1. DOMAIN Word = {"caps", "echo", "quit", "tolower", "toupper"}
    BY PechoAssumption
  <1>2. \A w \in DOMAIN Word : Word[w] # <<>>
    BY PechoAssumption
  <1>. QED
    BY <1>1, <1>2 DEF Different

(* What can happen next. *)
LEMMA Turns ==
    ASSUME Next
    PROVE  /\ op = "read" => SignalTerminate \/ \E m \in 1..size : NetworkInput(m)
           /\ op = "write" => SignalTerminate \/ Written
           /\ op = "closed" => FALSE
           /\ op = "run" /\ state \in State \ {"Processing", "ProcessingAfterWrite"} =>
                 \/ state = "Init" /\ Greet
                 \/ state = "EnterCommand" /\ EnterCommand
                 \/ state = "EmptyLine" /\ EmptyLine
                 \/ state = "EnterMode" /\ EnterMode
                 \/ state = "StartProcessing" /\ StartProcessing
                 \/ state = "HandleError" /\ HandleError
                 \/ state = "Terminate" /\ Close
  <1>1. CASE ScanBlock \/ ScanEnds
    <2>1. op \in {"scanInput", "scanRest"}
      BY <1>1 DEF ScanBlock, ScanEnds
    <2>. QED
      BY <2>1
  <1>2. CASE SignalTerminate
    BY <1>2 DEF SignalTerminate
  <1>3. CASE Written \/ \E m \in 1..size : NetworkInput(m)
    BY <1>3 DEF Written, NetworkInput
  <1>4. CASE Release \/ Processing
    BY <1>4 DEF Release, Processing, Runs
  <1>5. CASE \/ Greet \/ EnterCommand \/ EmptyLine \/ EnterMode
             \/ StartProcessing \/ HandleError \/ Close
    BY <1>5 DEF Greet, EnterCommand, EmptyLine, EnterMode, StartProcessing,
                HandleError, Close, Runs
  <1>. QED
    BY <1>1, <1>2, <1>3, <1>4, <1>5 DEF Next, Serve

(* A turn of the case EnterCommand takes n bytes of the word from i to j,  *)
(* of which p - i were read before.                                        *)
CommandRead(z, i, p, j, m) ==
    \E n \in 0 .. j - p :
       /\ itr' = itr + n /\ Ahead(itr, z, p + n, m)'
       /\ \/ /\ itr' = eoM /\ op' = "read" /\ state' = "EnterCommand"
             /\ cmdBuffer' = Spelt(z, i, p + n) /\ sent' = sent
          \/ /\ n = j - p /\ cmdBuffer' = <<>>
             /\ Spelt(z, i, j) = <<>> => state' = "EmptyLine" /\ op' = "run" /\ sent' = sent
             /\ Spelt(z, i, j) = Word["echo"] =>
                   state' = "EnterMode" /\ op' = "run" /\ sent' = sent
             /\ Spelt(z, i, j) = Word["quit"] =>
                   state' = "Terminate" /\ op' = "write" /\ sent' = Append(sent, "bye")

(* The case EnterCommand reads the word: all that is left of it, or as     *)
(* much as the block has.                                                  *)
LEMMA CommandIsRead ==
    ASSUME Inv, EnterCommand, Different,
           NEW z, NEW i \in Nat, NEW p \in Nat, NEW j \in Nat, NEW m \in Nat,
           i <= p, p <= j, j <= m,
           BytesTo(z, m),
           Ahead(itr, z, p, m), Letters(z, i, j), z[j] \in Ends, cmdBuffer = Spelt(z, i, p)
    PROVE  CommandRead(z, i, p, j, m)
  <1>1. itr \in Nat /\ eoM \in Nat /\ itr <= eoM /\ state = "EnterCommand"
    BY Places DEF Inv, Placed, EnterCommand, Runs
  <1>2. PICK n \in 0 .. j - p :
           /\ WordEnd(itr) = itr + n /\ itr + n <= eoM
           /\ Name(itr) = Spelt(z, i, p + n)
           /\ itr + n < eoM => n = j - p
    <2>1. \E n \in 0 .. j - p : Takes(n, itr, z, i, p, j)
      BY <1>1, WordIs
    <2>. QED
      BY <2>1 DEF Takes
  <1>3. itr' = itr + n /\ UNCHANGED <<buf, eoM, unread>>
    BY <1>2 DEF EnterCommand
  <1>4. Ahead(itr, z, p + n, m)'
    BY <1>1, <1>3, AheadThen
  <1>5. CASE itr' = eoM
    <2>1. /\ op' = "read" /\ state' = "EnterCommand" /\ sent' = sent
          /\ cmdBuffer' = Name(itr)
      BY <1>1, <1>3, <1>5 DEF EnterCommand, ReadData
    <2>. QED
      BY <1>2, <1>3, <1>4, <1>5, <2>1 DEF CommandRead
  <1>6. CASE itr' # eoM
    <2>1. n = j - p /\ p + n = j /\ Name(itr) = Spelt(z, i, j)
      BY <1>1, <1>2, <1>3, <1>6
    <2>2. /\ cmdBuffer' = <<>>
          /\ \/ Name(itr) = <<>> /\ state' = "EmptyLine" /\ Continue
             \/ Name(itr) = Word["caps"] /\ Say("caps") /\ UNCHANGED state
             \/ Name(itr) = Word["echo"] /\ state' = "EnterMode" /\ Continue
             \/ Name(itr) = Word["quit"] /\ state' = "Terminate" /\ Say("bye")
             \/ /\ Name(itr) \notin {<<>>, Word["caps"], Word["echo"], Word["quit"]}
                /\ state' = "HandleError" /\ Say("bad")
      BY <1>6 DEF EnterCommand
    <2>3. op = "run"
      BY DEF EnterCommand, Runs
    <2>4. /\ Spelt(z, i, j) = <<>> => state' = "EmptyLine" /\ op' = "run" /\ sent' = sent
          /\ Spelt(z, i, j) = Word["echo"] =>
                state' = "EnterMode" /\ op' = "run" /\ sent' = sent
          /\ Spelt(z, i, j) = Word["quit"] =>
                state' = "Terminate" /\ op' = "write" /\ sent' = Append(sent, "bye")
      BY <2>1, <2>2, <2>3, WordsAre DEF Continue, Say
    <2>. QED
      BY <1>2, <1>3, <1>4, <2>1, <2>2, <2>4 DEF CommandRead
  <1>. QED
    BY <1>5, <1>6

(* The block is filled, as far as there is something to fill it with. *)
Full == eoM = itr \/ eoM = size \/ unread = <<>>

(* A block for the commands. *)
LEMMA Fed ==
    ASSUME Inv, FullReads, NEW n \in 1..size, NetworkInput(n),
           state \notin {"Processing", "StartProcessing"}, itr = eoM,
           NEW z, NEW p \in Nat, NEW m \in Nat, Ahead(itr, z, p, m)
    PROVE  /\ Ahead(itr, z, p, m)' /\ Full' /\ op' = "run"
           /\ UNCHANGED <<state, mode, cmdBuffer, output, sent, expected>>
  <1>1. /\ itr' = 0 /\ eoM' = n /\ unread' = SubSeq(unread, n + 1, Len(unread))
        /\ buf' = [i \in DOMAIN buf |-> IF i < n THEN unread[i + 1] ELSE buf[i]]
        /\ op' = "run" /\ n <= Len(unread) /\ (n = size \/ n = Len(unread))
        /\ UNCHANGED <<size, state, mode, cmdBuffer, output, sent, expected>>
    BY DEF NetworkInput
  <1>2. /\ size \in Nat /\ itr \in Nat /\ eoM \in Nat /\ n \in Nat
        /\ unread \in Seq(Byte) /\ Len(unread) \in Nat /\ DOMAIN buf = 0 .. size - 1
    BY Places, LenProperties DEF Inv, TypeOK, BlockType
  <1>3. n = Len(unread) => unread' = <<>>
    <2>. SUFFICES ASSUME n = Len(unread) PROVE unread' = <<>>
      OBVIOUS
    <2>1. Len(unread) \in Int /\ n + 1 \in Int /\ Len(unread) < n + 1
      BY <1>2
    <2>2. SubSeq(unread, n + 1, Len(unread)) = <<>>
      BY <2>1, SubSeqEmpty
    <2>. QED
      BY <1>1, <2>2
  <1>4. n + 1 <= Len(unread) =>
           /\ Len(unread') = Len(unread) - n
           /\ \A i \in 1 .. Len(unread) - n : unread'[i] = unread[n + i]
    <2>. SUFFICES ASSUME n + 1 <= Len(unread)
                  PROVE  /\ Len(unread') = Len(unread) - n
                         /\ \A i \in 1 .. Len(unread) - n : unread'[i] = unread[n + i]
      OBVIOUS
    <2>1. \A i \in n + 1 .. Len(unread) : unread[i] \in Byte
      BY <1>2, ElementOfSeq
    <2>2. /\ Len(unread') = Len(unread) - (n + 1) + 1
          /\ \A i \in 1 .. Len(unread) - (n + 1) + 1 : unread'[i] = unread[(n + 1) + i - 1]
      BY <1>1, <1>2, <2>1, SubSeqProperties
    <2>3. /\ Len(unread) - (n + 1) + 1 = Len(unread) - n
          /\ \A i \in 1 .. Len(unread) - n : (n + 1) + i - 1 = n + i
      BY <1>2
    <2>. QED
      BY <2>2, <2>3
  <1>5. Ahead(itr, z, p, m)'
    <2>. SUFFICES ASSUME NEW k \in p..m
                  PROVE  IF 0 + (k - p) < n
                         THEN buf'[0 + (k - p)] = z[k]
                         ELSE /\ 0 + (k - p) - n + 1 \in 1 .. Len(unread')
                              /\ unread'[0 + (k - p) - n + 1] = z[k]
      BY <1>1, Zenon DEF Ahead
    <2>1. k - p + 1 \in 1 .. Len(unread) /\ unread[k - p + 1] = z[k]
      <3>1. Comes(itr + (k - p), z[k])
        BY <1>2, AheadComes DEF Near
      <3>2. ~ (itr + (k - p) < eoM) /\ (itr + (k - p)) - eoM + 1 = k - p + 1
        BY <1>2
      <3>. QED
        BY <3>1, <3>2 DEF Comes
    <2>2. CASE k - p < n
      <3>1. k - p \in DOMAIN buf /\ 0 + (k - p) = k - p
        BY <1>2, <2>2
      <3>2. buf'[k - p] = unread[k - p + 1]
        BY <1>1, <2>2, <3>1
      <3>. QED
        BY <2>1, <2>2, <3>1, <3>2
    <2>3. CASE ~ (k - p < n)
      <3>. DEFINE i == 0 + (k - p) - n + 1
      <3>1. n + 1 <= Len(unread) /\ i \in 1 .. Len(unread) - n /\ n + i = k - p + 1
        BY <1>2, <2>1, <2>3
      <3>2. i \in 1 .. Len(unread') /\ unread'[i] = z[k]
        BY <1>4, <2>1, <3>1
      <3>3. ~ (0 + (k - p) < n)
        BY <1>2, <2>3
      <3>. QED
        BY <3>2, <3>3
    <2>. QED
      BY <2>2, <2>3
  <1>6. Full'
    BY <1>1, <1>3 DEF Full
  <1>. QED
    BY <1>1, <1>5, <1>6
-------------------------------------------------------------------------------
(* The places of a session. *)
SessionIs(r) ==
    /\ r.e \in Nat /\ r.s \in Nat /\ r.K \in Nat /\ r.N \in Nat /\ r.h \in Nat /\ r.M \in Nat
    /\ r.e <= r.s /\ r.s <= r.K /\ (r.e = r.s => r.s = r.K)
    /\ r.N + 2 <= r.h /\ r.h <= r.M
    /\ r.e <= r.K + r.M /\ r.K <= r.K + r.M /\ r.K + r.M \in Nat
    /\ r.z[r.e] \in Ends /\ r.z[r.K] \in Ends

(* The places of a session are in order, and a word ends where the next    *)
(* begins.                                                                 *)
LEMMA SessionHas ==
    ASSUME NEW r, Session(r)
    PROVE  SessionIs(r)
  <1>1. /\ r.e \in Nat /\ r.s \in Nat /\ r.K \in Nat /\ r.N \in Nat /\ r.h \in Nat /\ r.M \in Nat
        /\ r.e <= r.s /\ r.s <= r.K /\ (r.e = r.s => r.s = r.K)
        /\ r.N + 2 <= r.h /\ r.h <= r.M
    BY DEF Session
  <1>2. r.z[r.K] \in {CR, LF}
    BY DEF Session
  <1>3. r.e < r.s => r.z[r.e] = Space
    BY <1>1 DEF Session
  <1>4. r.z[r.e] \in Ends /\ r.z[r.K] \in Ends
    BY <1>1, <1>2, <1>3 DEF Ends
  <1>. QED
    BY <1>1, <1>4 DEF SessionIs

(* What holds until the data is asked for. *)
Waiting ==
    /\ output = <<>> /\ Full
    /\ op \in {"run", "read", "write"} /\ (op = "read" => itr = eoM)

(* Before the greeting ... *)
NotYet(r) ==
    /\ Waiting /\ op = "run" /\ state = "Init" /\ cmdBuffer = <<>> /\ sent = <<>>
    /\ Ahead(itr, r.z, 0, r.K + r.M)

(* ... the word "echo" is awaited, p bytes of it are read ... *)
Commanding(r) ==
    /\ Waiting /\ state = "EnterCommand" /\ sent = Told
    /\ \E p \in 0..r.e : Ahead(itr, r.z, p, r.K + r.M) /\ cmdBuffer = Spelt(r.z, 0, p)

(* ... the argument is awaited, with the blanks before it ... *)
Arguing(r) ==
    /\ Waiting /\ state = "EnterMode" /\ sent = Told
    /\ \E p \in r.e .. r.K :
          /\ Ahead(itr, r.z, p, r.K + r.M)
          /\ cmdBuffer = Spelt(r.z, r.s, IF p <= r.s THEN r.s ELSE p)

(* ... and it is read, and names the filter. *)
Beginning(r) ==
    /\ Waiting /\ op = "run" /\ state = "StartProcessing" /\ sent = Told
    /\ itr < eoM /\ Filters(r.f) /\ Ahead(itr, r.z, r.K, r.K + r.M)

(* The session is over, or the client is thrown out. *)
Over(whole) ==
    /\ state = "Terminate" /\ op \in {"run", "write", "closed"} /\ PrefixOf(sent, whole)

(* Once it is over it stays over. *)
LEMMA OverStays ==
    ASSUME NEW whole, Over(whole), [Next]_vars
    PROVE  Over(whole)'
  <1>1. CASE UNCHANGED vars
    BY <1>1 DEF Over, PrefixOf, vars
  <1>2. CASE Next
    <2>1. SignalTerminate \/ Written \/ Close
      BY <1>2, Turns DEF Over, State
    <2>2. sent' = sent /\ state' = "Terminate" /\ op' \in {"run", "closed"}
      BY <2>1 DEF Over, SignalTerminate, Written, Close, Runs
    <2>. QED
      BY <2>2 DEF Over, PrefixOf
  <1>. QED
    BY <1>1, <1>2

(* A timeout, a signal or an error at any time. *)
LEMMA Ended ==
    ASSUME NEW whole, SignalTerminate, PrefixOf(sent, whole)
    PROVE  Over(whole)'
  BY DEF SignalTerminate, Over, PrefixOf

(* While the client is served between two requests, only these move.  *)
LEMMA WaitingStays ==
    ASSUME Inv, Waiting, UNCHANGED <<output, eoM, size, unread>>,
           itr' \in itr..eoM, op' \in {"run", "read", "write"}, op' = "read" => itr' = eoM
    PROVE  Waiting'
  <1>1. itr \in Nat /\ eoM \in Nat
    BY Places
  <1>. QED
    BY <1>1 DEF Waiting, Full

(* A read while a command is waited for. *)
LEMMA WaitingFed ==
    ASSUME Inv, Waiting, FullReads, op = "read", NEW n \in 1..size, NetworkInput(n),
           state \notin {"Processing", "StartProcessing"},
           NEW z, NEW p \in Nat, NEW m \in Nat, Ahead(itr, z, p, m)
    PROVE  /\ Waiting' /\ Ahead(itr, z, p, m)'
           /\ UNCHANGED <<state, mode, cmdBuffer, output, sent, expected>>
  <1>1. itr = eoM
    BY DEF Waiting
  <1>2. /\ Ahead(itr, z, p, m)' /\ Full' /\ op' = "run"
        /\ UNCHANGED <<state, mode, cmdBuffer, output, sent, expected>>
    BY <1>1, Fed
  <1>. QED
    BY <1>2 DEF Waiting

(* The reply is written. *)
LEMMA WaitingWritten ==
    ASSUME Inv, Waiting, Written, NEW z, NEW p, NEW m, Ahead(itr, z, p, m)
    PROVE  /\ Waiting' /\ Ahead(itr, z, p, m)'
           /\ UNCHANGED <<state, mode, cmdBuffer, output, sent, expected>>
  <1>1. /\ op' = "run"
        /\ UNCHANGED <<size, buf, itr, eoM, unread, state, mode, cmdBuffer, output, sent, expected>>
    BY DEF Written, block
  <1>. QED
    BY <1>1 DEF Waiting, Full, Ahead

(* The greeting. *)
LEMMA NotYetLeads ==
    ASSUME Inv, Next, NEW r, Session(r), NotYet(r)
    PROVE  Commanding(r)'
  <1>1. Greet
    BY Turns DEF NotYet, State
  <1>2. /\ state' = "EnterCommand" /\ op' = "write" /\ sent' = Append(sent, "expecting command")
        /\ UNCHANGED <<size, buf, itr, eoM, unread, cmdBuffer, output>>
    BY <1>1 DEF Greet, Say
  <1>3. itr \in Nat /\ eoM \in Nat /\ itr \in itr..eoM
    BY Places DEF Inv, Placed, NotYet
  <1>4. Waiting'
    BY <1>2, <1>3, WaitingStays DEF NotYet
  <1>5. Ahead(itr, r.z, 0, r.K + r.M)'
    BY <1>2 DEF NotYet, Ahead
  <1>6. cmdBuffer' = Spelt(r.z, 0, 0) /\ 0 \in 0..r.e
    <2>1. Spelt(r.z, 0, 0) = <<>>
      BY SpeltNothing
    <2>2. r.e \in Nat
      BY SessionHas DEF SessionIs
    <2>3. 0 \in 0..r.e
      BY <2>2
    <2>4. cmdBuffer' = <<>>
      BY <1>2 DEF NotYet
    <2>. QED
      BY <2>1, <2>3, <2>4
  <1>7. sent' = Told
    <2>1. sent' = Append(<<>>, "expecting command")
      BY <1>2 DEF NotYet
    <2>2. Append(<<>>, "expecting command") = <<"expecting command">>
      OBVIOUS
    <2>. QED
      BY <2>1, <2>2 DEF Told
  <1>. QED
    BY <1>2, <1>4, <1>5, <1>6, <1>7 DEF Commanding, Spelt, Lowered

(* The first word is read until it is "echo". *)
LEMMA CommandingLeads ==
    ASSUME Inv, Next, FullReads, Different, LineEnds, NEW r, Session(r), Commanding(r),
           NEW whole, PrefixOf(sent, whole)
    PROVE  Commanding(r)' \/ Arguing(r)' \/ Over(whole)'
  <1>1. PICK p \in 0..r.e : Ahead(itr, r.z, p, r.K + r.M) /\ cmdBuffer = Spelt(r.z, 0, p)
    BY DEF Commanding
  <1>2. SessionIs(r) /\ p \in Nat /\ r.K + r.M \in Nat
    BY SessionHas DEF SessionIs
  <1>3. Waiting /\ state = "EnterCommand" /\ sent = Told
    BY DEF Commanding
  <1>4. ASSUME Waiting', Ahead(itr, r.z, p, r.K + r.M)',
               UNCHANGED <<state, cmdBuffer, sent>>
        PROVE  Commanding(r)'
    BY <1>1, <1>3, <1>4 DEF Commanding, Spelt, Lowered
  <1>5. CASE op = "read"
    <2>1. CASE SignalTerminate
      BY <2>1, Ended
    <2>2. ASSUME NEW n \in 1..size, NetworkInput(n) PROVE Commanding(r)'
      BY <1>1, <1>2, <1>3, <1>4, <1>5, <2>2, WaitingFed
    <2>. QED
      BY <1>5, <2>1, <2>2, Turns
  <1>6. CASE op = "write"
    <2>1. CASE SignalTerminate
      BY <2>1, Ended
    <2>2. CASE Written
      BY <1>1, <1>3, <1>4, <2>2, WaitingWritten
    <2>. QED
      BY <1>6, <2>1, <2>2, Turns
  <1>7. CASE op = "run"
    <2>1. EnterCommand
      BY <1>3, <1>7, Turns DEF State
    <2>2. CommandRead(r.z, 0, p, r.e, r.K + r.M)
      <3>1. /\ 0 \in Nat /\ 0 <= p /\ p <= r.e /\ r.e <= r.K + r.M /\ r.e \in Nat
            /\ BytesTo(r.z, r.K + r.M) /\ Letters(r.z, 0, r.e) /\ r.z[r.e] \in Ends
        BY <1>2 DEF Session, SessionIs
      <3>. QED
        BY <1>1, <1>2, <2>1, <3>1, CommandIsRead
    <2>3. PICK n \in 0 .. r.e - p :
             /\ itr' = itr + n /\ Ahead(itr, r.z, p + n, r.K + r.M)'
             /\ \/ /\ itr' = eoM /\ op' = "read" /\ state' = "EnterCommand"
                   /\ cmdBuffer' = Spelt(r.z, 0, p + n) /\ sent' = sent
                \/ /\ n = r.e - p /\ cmdBuffer' = <<>>
                   /\ state' = "EnterMode" /\ op' = "run" /\ sent' = sent
      BY <2>2 DEF CommandRead, Session
    <2>4. Waiting'
      <3>1. UNCHANGED <<output, eoM, size, unread>>
        BY <2>1 DEF EnterCommand
      <3>2. itr' \in itr..eoM /\ op' \in {"run", "read", "write"} /\ (op' = "read" => itr' = eoM)
        <4>1. itr \in Nat /\ eoM \in Nat /\ itr <= eoM
          BY <1>3, <1>7, Places DEF Inv, Placed
        <4>2. WordEnd(itr) \in itr..eoM
          BY <4>1, FindStops DEF WordEnd
        <4>. QED
          BY <2>1, <2>3, <4>2 DEF EnterCommand
      <3>. QED
        BY <1>3, <3>1, <3>2, WaitingStays
    <2>5. CASE state' = "EnterCommand"
      <3>1. p + n \in 0..r.e
        BY <1>2, <2>3 DEF SessionIs
      <3>. QED
        BY <1>3, <2>3, <2>4, <2>5, <3>1 DEF Commanding, Spelt, Lowered
    <2>6. CASE state' = "EnterMode"
      <3>1. p + n = r.e /\ r.e \in r.e .. r.K /\ r.e <= r.s /\ r.s \in Nat
        BY <1>2, <2>3, <2>6 DEF SessionIs
      <3>2. cmdBuffer' = Spelt(r.z, r.s, r.s)
        BY <2>3, <2>6, <3>1, SpeltNothing
      <3>. QED
        BY <1>3, <2>3, <2>4, <2>6, <3>1, <3>2 DEF Arguing, Spelt, Lowered
    <2>. QED
      BY <2>3, <2>5, <2>6
  <1>. QED
    BY <1>3, <1>5, <1>6, <1>7 DEF Waiting

(* The argument names a mode. *)
LEMMA NamesAre ==
    ASSUME Different, NEW word, NEW f, Names(word, f),
           \/ word = <<>> /\ mode' = "Ident"
           \/ word = Word["tolower"] /\ mode' = "Lowercase"
           \/ word = Word["toupper"] /\ mode' = "Uppercase"
    PROVE  Filters(f)'
  <1>1. /\ Word["tolower"] # <<>> /\ Word["toupper"] # <<>>
        /\ Word["tolower"] # Word["toupper"]
    BY WordsAre
  <1>2. CASE word = <<>>
    BY <1>1, <1>2 DEF Names, Filters, Filter
  <1>3. CASE word = Word["tolower"]
    BY <1>1, <1>3 DEF Names, Filters, Filter
  <1>4. CASE word = Word["toupper"]
    BY <1>1, <1>4 DEF Names, Filters, Filter
  <1>. QED
    BY <1>2, <1>3, <1>4 DEF Names

(* skipSpaces() skips the d blanks that are ahead, or all of the block. *)
LEMMA SkipsTo ==
    ASSUME itr \in Nat, eoM \in Nat, itr <= eoM,
           NEW z, NEW p \in Nat, NEW d \in Nat, NEW m \in Nat, p + d <= m, BytesTo(z, m),
           Ahead(itr, z, p, m), \A k \in p .. (p + d) - 1 : z[k] = Space, z[p + d] # Space
    PROVE  SkipSpaces = IF itr + d < eoM THEN itr + d ELSE eoM
  <1>1. Same(itr, z, p, m)
    BY AheadIs
  <1>2. \A k \in 0 .. d - 1 : itr + k < eoM => buf[itr + k] \notin Byte \ {Space}
    <2>. SUFFICES ASSUME NEW k \in 0 .. d - 1, itr + k < eoM
                  PROVE  buf[itr + k] \notin Byte \ {Space}
      OBVIOUS
    <2>1. p + k \in p .. (p + d) - 1
      OBVIOUS
    <2>2. buf[itr + k] = z[p + k]
      BY <1>1 DEF Same
    <2>. QED
      BY <2>1, <2>2
  <1>3. itr + d < eoM => buf[itr + d] \in Byte \ {Space}
    <2>. SUFFICES ASSUME itr + d < eoM PROVE buf[itr + d] \in Byte \ {Space}
      OBVIOUS
    <2>1. buf[itr + d] = z[p + d]
      BY <1>1 DEF Same
    <2>2. z[p + d] \in Byte
      BY DEF BytesTo
    <2>. QED
      BY <2>1, <2>2
  <1>4. Find(itr, Byte \ {Space}) = IF itr + d < eoM THEN itr + d ELSE eoM
    BY <1>2, <1>3, FindIs
  <1>. QED
    BY <1>4 DEF SkipSpaces

(* The case EnterMode: the blanks are skipped and the argument is read,    *)
(* block by block.                                                         *)
LEMMA EnterModeLeads ==
    ASSUME Inv, EnterMode, Different, LineEnds, NEW r, Session(r), Arguing(r)
    PROVE  Arguing(r)' \/ Beginning(r)'
  <1>1. PICK p \in r.e .. r.K :
           /\ Ahead(itr, r.z, p, r.K + r.M)
           /\ cmdBuffer = Spelt(r.z, r.s, IF p <= r.s THEN r.s ELSE p)
    BY DEF Arguing
  <1>. DEFINE m == r.K + r.M
              d == IF p <= r.s THEN r.s - p ELSE 0
              u == IF p <= r.s THEN r.s ELSE p
  <1>2. /\ SessionIs(r) /\ p \in Nat /\ m \in Nat /\ r.K \in Nat /\ r.s \in Nat /\ r.s <= r.K
        /\ d \in Nat /\ u \in Nat /\ p + d = u /\ r.s <= u /\ u <= r.K /\ r.K <= m
        /\ r.e \in Nat
    BY SessionHas DEF SessionIs
  <1>3. /\ itr \in Nat /\ eoM \in Nat /\ itr <= eoM /\ eoM <= size
        /\ Waiting /\ sent = Told /\ state = "EnterMode" /\ op = "run"
    BY Places DEF Arguing, Inv, Placed, EnterMode, Runs
  <1>4. UNCHANGED <<buf, eoM, unread, output, size>>
    BY DEF EnterMode
  <1>5. r.z[u] # Space /\ \A k \in p .. (p + d) - 1 : r.z[k] = Space
    <2>1. \A k \in p .. (p + d) - 1 : k \in r.e .. r.s - 1
      BY <1>2
    <2>2. \A k \in r.e .. r.s - 1 : r.z[k] = Space
      BY DEF Session
    <2>3. u # r.K => u \in r.s .. r.K - 1
      BY <1>2
    <2>4. Letters(r.z, r.s, r.K) /\ r.z[r.K] \in {CR, LF}
      BY DEF Session
    <2>5. r.z[r.K] # Space
      BY <2>4 DEF LineEnds
    <2>6. r.z[u] # Space
      BY <2>3, <2>4, <2>5 DEF Letters, Ends
    <2>. QED
      BY <2>1, <2>2, <2>6
  <1>6. SkipSpaces = IF itr + d < eoM THEN itr + d ELSE eoM
    <2>1. BytesTo(r.z, m) /\ Ahead(itr, r.z, p, m) /\ p + d <= m /\ r.z[p + d] # Space
      <3>1. BytesTo(r.z, m)
        BY DEF Session
      <3>2. p + d <= m
        BY <1>2
      <3>3. r.z[p + d] # Space
        BY <1>2, <1>5
      <3>. QED
        BY <1>1, <3>1, <3>2, <3>3
    <2>. HIDE DEF m, d, u
    <2>. QED
      BY <1>2, <1>3, <1>5, <2>1, SkipsTo
  <1>7. CASE ~ (itr + d < eoM)
    <2>1. SkipSpaces = eoM
      BY <1>6, <1>7
    <2>2. WordEnd(SkipSpaces) = eoM
      <3>1. WordEnd(eoM) \in eoM..eoM
        BY <1>3, FindStops DEF WordEnd
      <3>. QED
        BY <1>3, <2>1, <3>1
    <2>3. itr' = eoM /\ op' = "read" /\ UNCHANGED <<sent, state, cmdBuffer>>
      BY <1>3, <2>1, <2>2 DEF EnterMode, ReadData
    <2>0. PICK n : n = eoM - itr
      OBVIOUS
    <2>4. n \in Nat /\ itr' = itr + n /\ n <= d
      BY <1>2, <1>3, <1>7, <2>0, <2>3
    <2>5. Ahead(itr, r.z, p + n, m)'
      <3>1. Ahead(itr, r.z, p, m) /\ m \in Nat
        BY <1>1, <1>2
      <3>. HIDE DEF m
      <3>. QED
        BY <1>2, <1>3, <1>4, <2>4, <3>1, AheadThen
    <2>6. /\ p + n \in r.e .. r.K
          /\ (IF p <= r.s THEN r.s ELSE p) = (IF p + n <= r.s THEN r.s ELSE p + n)
      BY <1>2, <2>4
    <2>7. Waiting'
      BY <1>3, <1>4, <2>3, WaitingStays
    <2>8. cmdBuffer' = Spelt(r.z, r.s, IF p + n <= r.s THEN r.s ELSE p + n)
      BY <1>1, <2>3, <2>6
    <2>9. state' = "EnterMode" /\ sent' = Told
      BY <1>3, <2>3
    <2>10. \E t \in r.e .. r.K :
              /\ Ahead(itr, r.z, t, r.K + r.M)'
              /\ cmdBuffer' = Spelt(r.z, r.s, IF t <= r.s THEN r.s ELSE t)
      BY <2>5, <2>6, <2>8
    <2>. QED
      BY <2>7, <2>9, <2>10 DEF Arguing, Spelt, Lowered
  <1>8. CASE itr + d < eoM
    <2>. DEFINE at == itr + d
    <2>1. SkipSpaces = at /\ at \in Nat /\ at < eoM
      BY <1>2, <1>3, <1>6, <1>8
    <2>2. Ahead(at, r.z, u, m)
      <3>1. Ahead(itr + d, r.z, p + d, m)
        <4>1. /\ Ahead(itr, r.z, p, m) /\ m \in Int /\ d \in Nat /\ p \in Int
              /\ itr \in Int /\ eoM \in Nat
          BY <1>1, <1>2, <1>3
        <4>. HIDE DEF d, m
        <4>. QED
          BY <4>1, AheadGoes
      <3>. QED
        BY <1>2, <3>1
    <2>3. PICK n \in 0 .. r.K - u : Takes(n, at, r.z, r.s, u, r.K)
      <3>1. /\ BytesTo(r.z, m) /\ Letters(r.z, r.s, r.K) /\ r.z[r.K] \in Ends
            /\ cmdBuffer = Spelt(r.z, r.s, u) /\ at <= eoM
        BY <1>1, <1>2, <1>3, <2>1 DEF Session, SessionIs
      <3>. HIDE DEF m, at, u
      <3>2. \E n \in 0 .. r.K - u : Takes(n, at, r.z, r.s, u, r.K)
        BY <1>2, <2>1, <2>2, <3>1, WordIs
      <3>. QED
        BY <3>2
    <2>4. /\ WordEnd(SkipSpaces) = at + n /\ at + n <= eoM
          /\ Name(SkipSpaces) = Spelt(r.z, r.s, u + n)
          /\ at + n < eoM => u + n = r.K
      <3>. HIDE DEF at, u
      <3>1. at + n < eoM => n = r.K - u
        BY <2>3 DEF Takes
      <3>2. n = r.K - u => u + n = r.K
        BY <1>2
      <3>. QED
        BY <2>1, <2>3, <3>1, <3>2 DEF Takes
    <2>5. itr' = at + n
      BY <2>1, <2>4 DEF EnterMode
    <2>6. Ahead(itr, r.z, u + n, m)'
      <3>. HIDE DEF at, u, m
      <3>. QED
        BY <1>2, <1>3, <1>4, <2>1, <2>2, <2>5, AheadThen
    <2>7. itr' \in itr..eoM
      BY <1>2, <1>3, <2>1, <2>4, <2>5
    <2>. HIDE DEF at
    <2>8. CASE at + n = eoM
      <3>1. /\ op' = "read" /\ cmdBuffer' = Name(SkipSpaces)
            /\ UNCHANGED <<sent, state>>
        BY <1>3, <2>1, <2>4, <2>8 DEF EnterMode, ReadData
      <3>2. Waiting'
        BY <1>3, <1>4, <2>5, <2>7, <2>8, <3>1, WaitingStays
      <3>3. u + n \in r.e .. r.K /\ u + n = IF u + n <= r.s THEN r.s ELSE u + n
        BY <1>2 DEF SessionIs
      <3>4. cmdBuffer' = Spelt(r.z, r.s, u + n)
        BY <2>4, <3>1
      <3>5. state' = "EnterMode" /\ sent' = Told
        BY <1>3, <3>1
      <3>. HIDE DEF u
      <3>. QED
        BY <2>6, <3>2, <3>3, <3>4, <3>5 DEF Arguing, Spelt, Lowered
    <2>9. CASE at + n # eoM
      <3>1. at + n < eoM /\ u + n = r.K
        BY <1>3, <2>1, <2>4, <2>9
      <3>2. Names(Name(SkipSpaces), r.f)
        BY <2>4, <3>1 DEF Session
      <3>3. Name(SkipSpaces) \in {<<>>, Word["tolower"], Word["toupper"]}
        BY <3>2 DEF Names
      <3>4. /\ \/ Name(SkipSpaces) = <<>> /\ mode' = "Ident"
               \/ Name(SkipSpaces) = Word["tolower"] /\ mode' = "Lowercase"
               \/ Name(SkipSpaces) = Word["toupper"] /\ mode' = "Uppercase"
            /\ state' = "StartProcessing" /\ op' = op /\ sent' = sent
        BY <2>1, <2>4, <3>1, <3>3 DEF EnterMode, Continue
      <3>5. Filters(r.f)'
        BY <3>2, <3>4, NamesAre
      <3>6. Waiting'
        BY <1>3, <1>4, <2>7, <3>4, WaitingStays
      <3>7. Ahead(itr, r.z, r.K, r.K + r.M)'
        BY <2>6, <3>1
      <3>8. /\ op' = "run" /\ state' = "StartProcessing" /\ sent' = Told
            /\ itr' < eoM'
        BY <1>3, <1>4, <2>5, <3>1, <3>4
      <3>. QED
        BY <3>5, <3>6, <3>7, <3>8 DEF Beginning
    <2>. QED
      BY <2>8, <2>9
  <1>. QED
    BY <1>7, <1>8

(* The same with the reads, the writes and the timeouts in between. *)
LEMMA ArguingLeads ==
    ASSUME Inv, Next, FullReads, Different, LineEnds, NEW r, Session(r), Arguing(r),
           NEW whole, PrefixOf(sent, whole)
    PROVE  Arguing(r)' \/ Beginning(r)' \/ Over(whole)'
  <1>1. PICK p \in r.e .. r.K :
           /\ Ahead(itr, r.z, p, r.K + r.M)
           /\ cmdBuffer = Spelt(r.z, r.s, IF p <= r.s THEN r.s ELSE p)
    BY DEF Arguing
  <1>2. p \in Nat /\ r.K + r.M \in Nat
    BY SessionHas DEF SessionIs
  <1>3. Waiting /\ state = "EnterMode" /\ sent = Told
    BY DEF Arguing
  <1>4. ASSUME Waiting', Ahead(itr, r.z, p, r.K + r.M)',
               UNCHANGED <<state, cmdBuffer, sent>>
        PROVE  Arguing(r)'
    BY <1>1, <1>3, <1>4 DEF Arguing, Spelt, Lowered
  <1>5. CASE SignalTerminate
    BY <1>5, Ended
  <1>6. CASE op = "read"
    <2>1. ASSUME NEW n \in 1..size, NetworkInput(n) PROVE Arguing(r)'
      BY <1>1, <1>2, <1>3, <1>4, <1>6, <2>1, WaitingFed
    <2>. QED
      BY <1>5, <1>6, <2>1, Turns
  <1>7. CASE op = "write"
    <2>1. CASE Written
      BY <1>1, <1>3, <1>4, <2>1, WaitingWritten
    <2>. QED
      BY <1>5, <1>7, <2>1, Turns
  <1>8. CASE op = "run"
    <2>1. EnterMode
      BY <1>3, <1>8, Turns DEF State
    <2>. QED
      BY <2>1, EnterModeLeads
  <1>. QED
    BY <1>3, <1>6, <1>7, <1>8 DEF Waiting

(* The case StartProcessing hands getEoD the data, all of it. *)
LEMMA BeginningLeads ==
    ASSUME Inv, Next, LineEnds, NEW r, Session(r), Beginning(r)
    PROVE  DataBegins(r.M, r.b, r.f, Before)'
  <1>1. StartProcessing
    BY Turns DEF Beginning, State
  <1>2. /\ r.K \in Nat /\ r.M \in Nat /\ r.z[r.K] \in {CR, LF} /\ r.z[r.K] \in Byte
        /\ \A k \in 0..r.M : r.b[k] = r.z[r.K + k]
    <2>1. /\ r.K \in Nat /\ r.M \in Nat
      BY SessionHas DEF SessionIs
    <2>2. r.z[r.K] \in {CR, LF} /\ \A k \in 0..r.M : r.b[k] = r.z[r.K + k]
      BY DEF Session
    <2>3. r.z[r.K] \in Byte
      BY <2>2, BlockAssumption
    <2>. QED
      BY <2>1, <2>2, <2>3
  <1>3. /\ itr \in Nat /\ eoM \in Nat /\ size \in Nat /\ itr < eoM /\ eoM <= size
        /\ Waiting /\ sent = Told /\ op = "run"
        /\ Ahead(itr, r.z, r.K, r.K + r.M)
    BY Places DEF Beginning
  <1>4. Same(itr, r.z, r.K, r.K + r.M)
    BY <1>2, <1>3, AheadIs
  <1>5. buf[itr] = r.z[r.K]
    <2>1. 0 \in Nat /\ r.K + 0 = r.K /\ itr + 0 = itr /\ r.K + 0 <= r.K + r.M
      BY <1>2, <1>3
    <2>2. buf[itr + 0] = r.z[r.K + 0]
      BY <1>3, <1>4, <2>1 DEF Same
    <2>. QED
      BY <2>1, <2>2
  <1>6. SkipSpaces = itr
    <2>1. buf[itr] \in Byte \ {Space}
      BY <1>2, <1>5 DEF LineEnds
    <2>. QED
      BY <1>3, <2>1, FindFinds DEF SkipSpaces
  <1>7. /\ state' = "Processing" /\ op' = "scanRest" /\ eodState' = "SRC"
        /\ GetEoD(itr) /\ UNCHANGED <<size, buf, mode, output, unread, sent>>
    <2>1. itr' = itr /\ itr' < eoM /\ itr' # eoM /\ buf[itr'] \in {CR, LF}
      BY <1>1, <1>2, <1>3, <1>5, <1>6 DEF StartProcessing
    <2>. QED
      BY <1>1, <2>1 DEF StartProcessing
  <1>8. scan'.start = itr /\ scan'.bufpos = 0
    BY <1>7 DEF GetEoD
  <1>9. BufSize' = size - itr
    BY <1>7, <1>8 DEF BufSize
  <1>10. Full /\ output = <<>> /\ ~ (eoM = itr)
    BY <1>3 DEF Waiting
  <1>11. \A k \in r.K .. r.K + r.M : Comes(itr + (k - r.K), r.z[k])
    <2>1. r.K \in Int /\ r.K + r.M \in Int /\ itr \in Int
      BY <1>2, <1>3
    <2>2. Near(itr, r.z, r.K, r.K + r.M)
      BY <1>3, <2>1, AheadComes
    <2>. QED
      BY <2>2 DEF Near
  <1>12. ASSUME NEW k \in 0..r.M PROVE Comes(itr + k, r.b[k])
    <2>1. r.K + k \in r.K .. r.K + r.M /\ itr + ((r.K + k) - r.K) = itr + k
      BY <1>2
    <2>2. Comes(itr + ((r.K + k) - r.K), r.z[r.K + k])
      BY <1>11, <2>1
    <2>. QED
      BY <1>2, <2>1, <2>2
  <1>13. ASSUME NEW k \in 0..r.M, ~ (itr + k < eoM)
         PROVE  /\ eoM = size /\ (itr + k) - size + 1 \in 1 .. Len(unread)
                /\ unread[(itr + k) - size + 1] = r.b[k]
    <2>1. /\ (itr + k) - eoM + 1 \in 1 .. Len(unread)
          /\ unread[(itr + k) - eoM + 1] = r.b[k]
      BY <1>12, <1>13 DEF Comes
    <2>2. unread # <<>>
      <3>1. Len(<<>>) = 0
        BY EmptySeq
      <3>. QED
        BY <1>3, <2>1, <3>1
    <2>3. eoM = size
      BY <1>10, <2>2 DEF Full
    <2>. QED
      BY <1>3, <2>1, <2>3
  <1>14. \A k \in 0..r.M : k < BufSize' => buf'[scan'.start + k] = r.b[k]
    <2>. SUFFICES ASSUME NEW k \in 0..r.M, k < size - itr PROVE buf[itr + k] = r.b[k]
      BY <1>7, <1>8, <1>9
    <2>1. itr + k < eoM
      BY <1>3, <1>13
    <2>. QED
      BY <1>12, <2>1 DEF Comes
  <1>15. Coming(r.M, r.b, BufSize)'
    <2>. SUFFICES ASSUME NEW k \in size - itr .. r.M
                  PROVE  /\ k - (size - itr) + 1 \in 1 .. Len(unread)
                         /\ unread[k - (size - itr) + 1] = r.b[k]
      BY <1>7, <1>9 DEF Coming
    <2>1. /\ k \in 0..r.M /\ ~ (itr + k < eoM)
          /\ (itr + k) - size + 1 = k - (size - itr) + 1
      BY <1>3
    <2>. QED
      BY <1>13, <2>1
  <1>16. Before = Append(sent', "enter data") \o output'
    <2>1. sent' = <<"expecting command">> /\ output' = <<>>
      BY <1>3, <1>7, <1>10 DEF Told
    <2>2. Append(sent', "enter data") \in Seq(U)
      BY <1>3, <1>7, SeqTypes
    <2>3. Append(sent', "enter data") \o <<>> = Append(sent', "enter data")
      <3>. HIDE DEF U
      <3>. QED
        BY <2>2, ConcatEmptySeq
    <2>. QED
      BY <2>1, <2>3 DEF Before, Told
  <1>17. Filters(r.f)'
    BY <1>7, FiltersStay DEF Beginning
  <1>. QED
    BY <1>7, <1>8, <1>14, <1>15, <1>16, <1>17 DEF DataBegins, At
-------------------------------------------------------------------------------
(* What is ahead behind the end of data, where the byte k of the data lies *)
(* in the place that was given up.                                         *)
Gap(r, k) == Following(r.N, r.M, r.b, r.b[k])

(* What is left of the line that ends the data is taken for an empty line. *)
Leaving(r) ==
    /\ op \in {"run", "read", "write"} /\ (op = "read" => itr = eoM)
    /\ state \in {"EnterCommand", "EmptyLine"}
    /\ cmdBuffer = <<>> /\ sent = ToldAgain(r)
    /\ \E k \in r.dst[r.N] .. r.N, p \in {0, 1} :
          /\ Ahead(itr, Gap(r, k), p, r.M - r.N)
          /\ p = 0 /\ state = "EmptyLine" => r.b[k] \in Ends

(* The word "quit" is awaited, p bytes of the data and what follows are    *)
(* read.                                                                   *)
Quitting(r) ==
    /\ op \in {"run", "read", "write"} /\ (op = "read" => itr = eoM)
    /\ state = "EnterCommand" /\ sent = ToldAgain(r)
    /\ \E p \in r.N + 2 .. r.h :
          Ahead(itr, r.b, p, r.M) /\ cmdBuffer = Spelt(r.b, r.N + 2, p)

(* What is known of that gap w. *)
GapIs(r, w, k) ==
    /\ r.N \in Nat /\ r.M \in Nat /\ r.M - r.N \in Nat /\ 2 <= r.M - r.N
    /\ BytesTo(w, r.M - r.N) /\ w[0] = r.b[k] /\ w[1] = LF
    /\ \A i \in 1 .. r.M - r.N : w[i] = r.b[r.N + i]
    /\ w[0] \in Ends \/ Spelt(w, 0, 1) = <<>>

(* The data, and what follows it, are bytes. *)
LEMMA BytesOfData ==
    ASSUME NEW r, Session(r)
    PROVE  BytesTo(r.b, r.M)
  <1>1. r.K \in Nat /\ r.M \in Nat
    BY SessionHas DEF SessionIs
  <1>2. BytesTo(r.z, r.K + r.M) /\ \A k \in 0..r.M : r.b[k] = r.z[r.K + k]
    BY DEF Session
  <1>3. \A k \in 0..r.M : r.K + k \in 0 .. r.K + r.M
    BY <1>1
  <1>. QED
    BY <1>2, <1>3 DEF BytesTo

(* Behind the end of data: the byte in the place that was given up, the    *)
(* line feed, and the next command.                                        *)
LEMMA GapHas ==
    ASSUME NEW r, Session(r), NEW k \in r.dst[r.N] .. r.N
    PROVE  GapIs(r, Gap(r, k), k)
  <1>. DEFINE w == Gap(r, k)
  <1>1. /\ r.N \in Nat /\ r.M \in Nat /\ r.M - r.N \in Nat /\ 2 <= r.M - r.N
    BY SessionHas DEF SessionIs
  <1>2. \A i \in 0 .. r.M - r.N : w[i] = IF i = 0 THEN r.b[k] ELSE r.b[r.N + i]
    BY DEF Gap, Following
  <1>3. r.b[k] \in Byte /\ (r.b[k] \in Ends \/ CmdValue(<<Lower[r.b[k]]>>) = <<>>)
    <2>1. r.dst[r.N] \in Nat
      <3>1. Requested(r.N, r.b, r.q, r.dst, r.f, r.text)
        BY DEF Session
      <3>2. \A i \in 0 .. r.N + 1 : r.dst[i] \in Nat
        BY <3>1 DEF Requested, ByteByByte
      <3>. QED
        BY <1>1, <3>2
    <2>2. k \in 0..r.N
      BY <1>1, <2>1
    <2>. QED
      BY <2>2 DEF Session, Requested
  <1>. HIDE DEF w
  <1>4. BytesTo(w, r.M - r.N)
    <2>. SUFFICES ASSUME NEW i \in 0 .. r.M - r.N PROVE w[i] \in Byte
      BY DEF BytesTo
    <2>1. i # 0 => r.N + i \in 0..r.M
      BY <1>1
    <2>2. \A j \in 0..r.M : r.b[j] \in Byte
      BY BytesOfData DEF BytesTo
    <2>. QED
      BY <1>2, <1>3, <2>1, <2>2
  <1>5. w[0] = r.b[k] /\ w[1] = r.b[r.N + 1]
    BY <1>1, <1>2
  <1>6. r.b[r.N + 1] = LF
    BY DEF Session
  <1>7. \A i \in 1 .. r.M - r.N : w[i] = r.b[r.N + i]
    BY <1>1, <1>2
  <1>8. Spelt(w, 0, 1) = CmdValue(<<Lower[w[0]]>>)
    <2>1. Lowered(w, 0, 1) = <<Lower[w[0]]>>
      BY DEF Lowered
    <2>. QED
      BY <2>1 DEF Spelt
  <1>9. GapIs(r, w, k)
    BY <1>1, <1>3, <1>4, <1>5, <1>6, <1>7, <1>8 DEF GapIs
  <1>. QED
    BY <1>9 DEF w

(* Past the gap is the word "quit". *)
LEMMA PastTheGap ==
    ASSUME eoM \in Nat, NEW at \in Int, NEW r, NEW w, NEW k, GapIs(r, w, k),
           Ahead(at, w, 2, r.M - r.N)
    PROVE  Ahead(at, r.b, r.N + 2, r.M)
  <1>1. r.N \in Nat /\ r.M \in Nat /\ r.M - r.N \in Int /\ 2 \in Int /\ r.N + 2 \in Int
    BY DEF GapIs
  <1>2. Near(at, w, 2, r.M - r.N)
    BY <1>1, AheadComes
  <1>3. ASSUME NEW i \in r.N + 2 .. r.M PROVE Comes(at + (i - (r.N + 2)), r.b[i])
    <2>. DEFINE j == i - r.N
    <2>1. /\ j \in 2 .. r.M - r.N /\ j \in 1 .. r.M - r.N /\ r.N + j = i
          /\ at + (j - 2) = at + (i - (r.N + 2))
      BY <1>1
    <2>2. Comes(at + (j - 2), w[j])
      <3>. HIDE DEF j
      <3>. QED
        BY <1>2, <2>1 DEF Near
    <2>3. w[j] = r.b[i]
      <3>. HIDE DEF j
      <3>. QED
        BY <2>1 DEF GapIs
    <2>. HIDE DEF j
    <2>. QED
      BY <2>1, <2>2, <2>3
  <1>4. Near(at, r.b, r.N + 2, r.M)
    BY <1>3 DEF Near
  <1>. QED
    BY <1>1, <1>4, AheadComes

(* The handler asks for the next command. *)
LEMMA DoneLeads ==
    ASSUME Inv, Next, NEW r, Session(r), cmdBuffer = <<>>,
           DataDone(r.N, r.M, r.b, r.dst, r.text, Before), NEW whole, PrefixOf(sent, whole)
    PROVE  \/ DataDone(r.N, r.M, r.b, r.dst, r.text, Before)' \/ Leaving(r)' \/ Over(whole)'
  <1>1. /\ op \in {"run", "write"} /\ state = "Init" /\ sent = Before \o r.text[r.N]
    BY DEF DataDone
  <1>2. PICK k \in r.dst[r.N] .. r.N : Ahead(itr, Gap(r, k), 0, r.M - r.N)
    BY DEF DataDone, Gap
  <1>3. CASE op = "run"
    <2>1. Greet
      BY <1>1, <1>3, Turns DEF State
    <2>2. /\ state' = "EnterCommand" /\ op' = "write"
          /\ sent' = Append(sent, "expecting command")
          /\ UNCHANGED <<buf, itr, eoM, unread, cmdBuffer>>
      BY <2>1 DEF Greet, Say
    <2>3. Ahead(itr, Gap(r, k), 0, r.M - r.N)'
      BY <1>2, <2>2 DEF Ahead, Gap, Following
    <2>4. sent' = ToldAgain(r)
      BY <1>1, <2>2 DEF ToldAgain
    <2>. QED
      BY <1>2, <2>2, <2>3, <2>4 DEF Leaving, ToldAgain, Gap, Following, Before, Told
  <1>4. CASE op = "write"
    <2>1. CASE SignalTerminate
      BY <2>1, Ended
    <2>2. CASE Written
      <3>1. op' = "run" /\ UNCHANGED <<state, sent, buf, itr, eoM, unread>>
        BY <2>2 DEF Written, block
      <3>. QED
        BY <1>1, <3>1 DEF DataDone, Ahead, Following
    <2>. QED
      BY <1>4, <2>1, <2>2, Turns
  <1>. QED
    BY <1>1, <1>3, <1>4

(* The last word is read until it is "quit". *)
LEMMA QuittingLeads ==
    ASSUME Inv, Next, FullReads, Different, NEW r, Session(r), Quitting(r),
           PrefixOf(sent, Whole(r)), PrefixOf(Whole(r), Whole(r))
    PROVE  Quitting(r)' \/ Over(Whole(r))'
  <1>1. PICK p \in r.N + 2 .. r.h :
           Ahead(itr, r.b, p, r.M) /\ cmdBuffer = Spelt(r.b, r.N + 2, p)
    BY DEF Quitting
  <1>2. /\ r.N \in Nat /\ r.M \in Nat /\ r.h \in Nat /\ r.h <= r.M /\ p \in Nat
        /\ r.N + 2 \in Nat /\ r.N + 2 <= p /\ p <= r.h
    BY SessionHas DEF SessionIs
  <1>3. /\ op \in {"run", "read", "write"} /\ (op = "read" => itr = eoM)
        /\ state = "EnterCommand" /\ sent = ToldAgain(r)
    BY DEF Quitting
  <1>4. ASSUME NEW t \in r.N + 2 .. r.h, Ahead(itr, r.b, t, r.M)',
               cmdBuffer' = Spelt(r.b, r.N + 2, t), sent' = sent, state' = "EnterCommand",
               op' \in {"run", "read", "write"}, op' = "read" => itr' = eoM'
        PROVE  Quitting(r)'
    BY <1>3, <1>4 DEF Quitting, Spelt, Lowered, ToldAgain, Before, Told
  <1>5. CASE SignalTerminate
    BY <1>5, Ended DEF Over, Whole, ToldAgain, Before, Told
  <1>6. CASE op = "read"
    <2>1. ASSUME NEW n \in 1..size, NetworkInput(n) PROVE Quitting(r)'
      <3>1. /\ Ahead(itr, r.b, p, r.M)' /\ op' = "run"
            /\ UNCHANGED <<state, cmdBuffer, sent>>
        BY <1>1, <1>2, <1>3, <1>6, <2>1, Fed
      <3>. QED
        BY <1>1, <1>3, <1>4, <3>1
    <2>. QED
      BY <1>5, <1>6, <2>1, Turns
  <1>7. CASE op = "write"
    <2>1. CASE Written
      <3>1. op' = "run" /\ UNCHANGED <<state, sent, buf, itr, eoM, unread, cmdBuffer>>
        BY <2>1 DEF Written, block
      <3>2. Ahead(itr, r.b, p, r.M)'
        BY <1>1, <3>1 DEF Ahead
      <3>. QED
        BY <1>1, <1>3, <1>4, <3>1, <3>2
    <2>. QED
      BY <1>5, <1>7, <2>1, Turns
  <1>8. CASE op = "run"
    <2>1. EnterCommand
      BY <1>3, <1>8, Turns DEF State
    <2>2. CommandRead(r.b, r.N + 2, p, r.h, r.M)
      <3>1. BytesTo(r.b, r.M) /\ Letters(r.b, r.N + 2, r.h) /\ r.b[r.h] \in Ends
        BY BytesOfData DEF Session
      <3>. QED
        BY <1>1, <1>2, <2>1, <3>1, CommandIsRead
    <2>3. PICK n \in 0 .. r.h - p :
             /\ itr' = itr + n /\ Ahead(itr, r.b, p + n, r.M)'
             /\ \/ /\ itr' = eoM /\ op' = "read" /\ state' = "EnterCommand"
                   /\ cmdBuffer' = Spelt(r.b, r.N + 2, p + n) /\ sent' = sent
                \/ state' = "Terminate" /\ op' = "write" /\ sent' = Append(sent, "bye")
      BY <2>2 DEF CommandRead, Session
    <2>4. CASE state' = "EnterCommand"
      <3>1. p + n \in r.N + 2 .. r.h /\ eoM' = eoM
        BY <1>2, <2>1 DEF EnterCommand
      <3>. QED
        BY <1>4, <2>3, <2>4, <3>1
    <2>5. CASE state' = "Terminate"
      <3>1. sent' = Whole(r) /\ op' = "write"
        BY <1>3, <2>3, <2>5 DEF Whole
      <3>. QED
        BY <2>5, <3>1 DEF Over, Whole, ToldAgain, Before, Told, PrefixOf
    <2>. QED
      BY <2>3, <2>4, <2>5
  <1>. QED
    BY <1>3, <1>6, <1>7, <1>8

(* The gap, byte by byte: after an empty line or blanks the next command.  *)
LEMMA LeavingCommand ==
    ASSUME Inv, EnterCommand, Different, NEW r, Session(r), Leaving(r)
    PROVE  Leaving(r)'
  <1>1. PICK k \in r.dst[r.N] .. r.N, p \in {0, 1} : Ahead(itr, Gap(r, k), p, r.M - r.N)
    BY DEF Leaving
  <1>2. PICK w : w = Gap(r, k)
    OBVIOUS
  <1>3. GapIs(r, w, k) /\ Ahead(itr, w, p, r.M - r.N)
    BY <1>1, <1>2, GapHas
  <1>4. PICK m : m = r.M - r.N
    OBVIOUS
  <1>5. PICK j : j = IF p = 0 /\ w[0] \notin Ends THEN 1 ELSE p
    OBVIOUS
  <1>6. /\ m \in Nat /\ p \in Nat /\ j \in Nat /\ p <= j /\ j <= m /\ j \in {0, 1}
        /\ BytesTo(w, m) /\ w[1] = LF /\ w[0] = r.b[k]
    BY <1>3, <1>4, <1>5 DEF GapIs
  <1>7. Letters(w, p, j) /\ w[j] \in Ends
    <2>1. w[j] \in Ends
      BY <1>5, <1>6 DEF Ends
    <2>2. Letters(w, p, j)
      BY <1>5, <1>6 DEF Letters
    <2>. QED
      BY <2>1, <2>2
  <1>8. \A n \in 0 .. j - p : Spelt(w, p, p + n) = <<>>
    <2>. SUFFICES ASSUME NEW n \in 0 .. j - p PROVE Spelt(w, p, p + n) = <<>>
      OBVIOUS
    <2>1. CASE n = 0
      <3>1. p + n = p
        BY <1>6, <2>1
      <3>2. Spelt(w, p, p) = <<>>
        BY <1>6, SpeltNothing
      <3>. QED
        BY <3>1, <3>2
    <2>2. CASE n # 0
      <3>1. p = 0 /\ j = 1 /\ p + n = 1
        BY <1>6, <2>2
      <3>2. w[0] \notin Ends
        BY <1>5, <3>1
      <3>. QED
        BY <1>3, <3>1, <3>2 DEF GapIs
    <2>. QED
      BY <2>1, <2>2
  <1>9. cmdBuffer = Spelt(w, p, p) /\ sent = ToldAgain(r)
    <2>1. cmdBuffer = <<>> /\ sent = ToldAgain(r)
      BY DEF Leaving
    <2>2. Spelt(w, p, p) = <<>>
      BY <1>6, SpeltNothing
    <2>. QED
      BY <2>1, <2>2
  <1>10. Ahead(itr, w, p, m)
    BY <1>3, <1>4
  <1>11. CommandRead(w, p, p, j, m)
    <2>1. p <= p
      BY <1>6
    <2>. QED
      BY <1>6, <1>7, <1>9, <1>10, <2>1, CommandIsRead
  <1>12. PICK n \in 0 .. j - p :
            /\ itr' = itr + n /\ Ahead(itr, w, p + n, m)'
            /\ \/ /\ itr' = eoM /\ op' = "read" /\ state' = "EnterCommand"
                  /\ cmdBuffer' = Spelt(w, p, p + n) /\ sent' = sent
               \/ /\ n = j - p /\ cmdBuffer' = <<>>
                  /\ Spelt(w, p, j) = <<>> =>
                        state' = "EmptyLine" /\ op' = "run" /\ sent' = sent
    BY <1>11 DEF CommandRead
  <1>13. Spelt(w, p, j) = <<>>
    <2>1. j - p \in 0 .. j - p /\ p + (j - p) = j
      BY <1>6
    <2>. QED
      BY <1>8, <2>1
  <1>14. p + n \in {0, 1}
    BY <1>6
  <1>15. PICK t \in {0, 1} : t = p + n
    BY <1>14
  <1>16. Ahead(itr, Gap(r, k), t, r.M - r.N)'
    <2>1. Ahead(itr, w, t, m)'
      BY <1>12, <1>15
    <2>. QED
      BY <1>2, <1>4, <2>1 DEF Gap, Following
  <1>17. /\ cmdBuffer' = <<>> /\ state' \in {"EnterCommand", "EmptyLine"} /\ sent' = ToldAgain(r)
         /\ op' \in {"run", "read"} /\ (op' = "read" => itr' = eoM')
    <2>1. eoM' = eoM
      BY DEF EnterCommand
    <2>. QED
      BY <1>8, <1>9, <1>12, <1>13, <2>1
  <1>18. t = 0 /\ state' = "EmptyLine" => r.b[k] \in Ends
    <2>. SUFFICES ASSUME t = 0, state' = "EmptyLine" PROVE r.b[k] \in Ends
      OBVIOUS
    <2>1. n = j - p
      BY <1>12
    <2>2. j = 0 /\ p = 0
      BY <1>6, <1>15, <2>1
    <2>. QED
      BY <1>5, <1>6, <2>2
  <1>. QED
    BY <1>16, <1>17, <1>18 DEF Leaving, ToldAgain, Gap, Following, Before, Told

(* consumeEOLN(), a byte at a time. *)
LEMMA EOLNIs ==
    ASSUME NEW i \in Nat, eoM \in Nat, i < eoM, CR # LF
    PROVE  /\ buf[i] = LF => ConsumesEOLN(i) /\ AfterEOLN(i) = i + 1
           /\ buf[i] = CR /\ i + 1 = eoM => ~ ConsumesEOLN(i) /\ AfterEOLN(i) = i + 1
           /\ buf[i] = CR /\ i + 1 < eoM /\ buf[i + 1] = LF =>
                 ConsumesEOLN(i) /\ AfterEOLN(i) = i + 2
  BY DEF ConsumesEOLN, AfterEOLN, SkipCR

(* The case EmptyLine passes the rest of the line, wherever a block ends   *)
(* in it.                                                                  *)
LEMMA LeavingEmpty ==
    ASSUME Inv, EmptyLine, LineEnds, NEW r, Session(r), Leaving(r)
    PROVE  Leaving(r)' \/ Quitting(r)'
  <1>1. PICK k \in r.dst[r.N] .. r.N, p \in {0, 1} :
           Ahead(itr, Gap(r, k), p, r.M - r.N) /\ (p = 0 => r.b[k] \in Ends)
    BY DEF Leaving, EmptyLine, Runs
  <1>2. PICK w, m : w = Gap(r, k) /\ m = r.M - r.N
    OBVIOUS
  <1>3. GapIs(r, w, k) /\ Ahead(itr, w, p, m)
    BY <1>1, <1>2, GapHas
  <1>4. /\ m \in Nat /\ 2 <= m /\ p \in Nat
        /\ BytesTo(w, m) /\ w[1] = LF /\ (p = 0 => w[0] \in Ends)
    BY <1>1, <1>2, <1>3 DEF GapIs
  <1>5. /\ itr \in Nat /\ eoM \in Nat /\ itr <= eoM /\ op = "run"
        /\ state = "EmptyLine" /\ sent = ToldAgain(r) /\ cmdBuffer = <<>>
    BY Places DEF Inv, Placed, EmptyLine, Runs, Leaving
  <1>6. UNCHANGED <<buf, eoM, unread, cmdBuffer>>
    BY DEF EmptyLine
  <1>7. PICK d : d = IF p = 0 /\ w[0] = Space THEN 1 ELSE 0
    OBVIOUS
  <1>8. /\ d \in {0, 1} /\ d \in Nat /\ p + d \in {0, 1} /\ p + d <= m
        /\ w[p + d] \in {CR, LF} /\ (p + d = 1 => w[p + d] = LF)
        /\ \A i \in p .. (p + d) - 1 : w[i] = Space
    BY <1>4, <1>7 DEF Ends
  <1>9. SkipSpaces = IF itr + d < eoM THEN itr + d ELSE eoM
    <2>1. w[p + d] # Space
      BY <1>8 DEF LineEnds
    <2>. QED
      BY <1>3, <1>4, <1>5, <1>8, <2>1, SkipsTo
  <1>10. ASSUME NEW t \in {0, 1}, Ahead(itr, w, t, m)', t = 0 => state' = "EnterCommand",
                op' \in {"run", "read"}, op' = "read" => itr' = eoM, sent' = sent,
                state' \in {"EnterCommand", "EmptyLine"}
         PROVE  Leaving(r)'
    <2>1. Ahead(itr, Gap(r, k), t, r.M - r.N)'
      BY <1>2, <1>10 DEF Gap, Following
    <2>2. /\ op' \in {"run", "read", "write"} /\ (op' = "read" => itr' = eoM')
          /\ cmdBuffer' = <<>> /\ sent' = ToldAgain(r)
          /\ (t = 0 /\ state' = "EmptyLine" => r.b[k] \in Ends)
      BY <1>5, <1>6, <1>10
    <2>. QED
      BY <1>10, <2>1, <2>2 DEF Leaving, ToldAgain, Gap, Following, Before, Told
  <1>11. ASSUME NEW at \in Nat, Ahead(at, w, 2, m), itr' = at, op' = "run",
                sent' = sent, state' = "EnterCommand"
         PROVE  Quitting(r)'
    <2>1. Ahead(at, r.b, r.N + 2, r.M)
      <3>1. at \in Int /\ Ahead(at, w, 2, r.M - r.N)
        BY <1>2, <1>11
      <3>. QED
        BY <1>3, <1>5, <3>1, PastTheGap
    <2>2. Ahead(itr, r.b, r.N + 2, r.M)'
      BY <1>6, <1>11, <2>1 DEF Ahead
    <2>3. r.N + 2 \in r.N + 2 .. r.h /\ r.N + 2 \in Nat
      BY SessionHas DEF SessionIs
    <2>4. Spelt(r.b, r.N + 2, r.N + 2) = <<>>
      BY <2>3, SpeltNothing
    <2>5. cmdBuffer' = Spelt(r.b, r.N + 2, r.N + 2) /\ sent' = ToldAgain(r)
      BY <1>5, <1>6, <1>11, <2>4
    <2>. QED
      BY <1>11, <2>2, <2>3, <2>5 DEF Quitting, Spelt, Lowered, ToldAgain, Before, Told
  <1>12. CASE ~ (itr + d < eoM)
    <2>1. SkipSpaces = eoM
      BY <1>9, <1>12
    <2>2. itr' = eoM /\ op' = "read" /\ state' = "EmptyLine" /\ sent' = sent
      BY <1>5, <2>1 DEF EmptyLine, ReadData
    <2>3. PICK n : n = eoM - itr
      OBVIOUS
    <2>4. n \in Nat /\ itr' = itr + n /\ n <= d
      BY <1>5, <1>8, <1>12, <2>2, <2>3
    <2>5. Ahead(itr, w, p + n, m)'
      <3>1. itr \in Int /\ p \in Int /\ m \in Int
        BY <1>4, <1>5
      <3>. QED
        BY <1>3, <1>5, <1>6, <2>4, <3>1, AheadThen
    <2>6. p + n \in {0, 1}
      BY <1>4, <1>8, <2>4
    <2>7. CASE p + n = 1
      BY <1>10, <2>2, <2>5, <2>7
    <2>8. CASE p + n = 0
      <3>1. p = 0
        BY <1>4, <2>4, <2>8
      <3>2. Ahead(itr, Gap(r, k), 0, r.M - r.N)'
        BY <1>2, <2>5, <2>8 DEF Gap, Following
      <3>3. /\ op' \in {"run", "read", "write"} /\ (op' = "read" => itr' = eoM')
            /\ cmdBuffer' = <<>> /\ sent' = ToldAgain(r) /\ r.b[k] \in Ends
        BY <1>1, <1>5, <1>6, <2>2, <3>1
      <3>. QED
        BY <2>2, <3>2, <3>3 DEF Leaving, ToldAgain, Gap, Following, Before, Told
    <2>. QED
      BY <2>6, <2>7, <2>8
  <1>13. CASE itr + d < eoM
    <2>1. PICK at, i : at = itr + d /\ i = p + d
      OBVIOUS
    <2>2. /\ at \in Nat /\ at < eoM /\ i \in {0, 1} /\ i \in Nat /\ i <= m
          /\ at + 1 \in Nat /\ at + 2 \in Nat /\ at + 1 <= eoM
          /\ w[i] \in {CR, LF} /\ (i = 1 => w[i] = LF) /\ SkipSpaces = at
      BY <1>5, <1>8, <1>9, <1>13, <2>1
    <2>3. Ahead(at, w, i, m)
      <3>1. itr \in Int /\ p \in Int /\ m \in Int
        BY <1>4, <1>5
      <3>2. Ahead(itr + d, w, p + d, m)
        BY <1>3, <1>5, <1>8, <3>1, AheadGoes
      <3>. QED
        BY <2>1, <3>2
    <2>4. \A n \in Nat : Ahead(at + n, w, i + n, m)
      <3>1. at \in Int /\ i \in Int /\ m \in Int
        BY <1>4, <2>2
      <3>. QED
        BY <1>5, <2>3, <3>1, AheadGoes
    <2>5. \A n \in Nat : i + n <= m /\ at + n < eoM => buf[at + n] = w[i + n]
      <3>1. at \in Int /\ i \in Int /\ m \in Int
        BY <1>4, <2>2
      <3>. QED
        BY <2>3, <3>1, AheadIs DEF Same
    <2>6. buf[at] = w[i]
      <3>1. 0 \in Nat /\ at + 0 = at /\ i + 0 = i
        BY <2>2
      <3>2. buf[at + 0] = w[i + 0]
        BY <2>2, <2>5, <3>1
      <3>. QED
        BY <3>1, <3>2
    <2>7. /\ itr' = AfterEOLN(at)
          /\ ConsumesEOLN(at) => state' = "EnterCommand" /\ op' = "run" /\ sent' = sent
          /\ ~ ConsumesEOLN(at) /\ itr' = eoM =>
                op' = "read" /\ state' = "EmptyLine" /\ sent' = sent
      <3>1. SkipSpaces < eoM /\ SkipSpaces # eoM
        BY <1>5, <2>2
      <3>2. itr' = AfterEOLN(SkipSpaces)
        BY <3>1 DEF EmptyLine
      <3>3. ConsumesEOLN(SkipSpaces) => state' = "EnterCommand" /\ Continue
        BY <3>1 DEF EmptyLine
      <3>4. ~ ConsumesEOLN(SkipSpaces) /\ itr' = eoM => ReadData /\ UNCHANGED state
        BY <3>1 DEF EmptyLine
      <3>. QED
        BY <1>5, <2>2, <3>2, <3>3, <3>4 DEF Continue, ReadData
    <2>8. CR # LF
      BY DEF LineEnds
    <2>9. ASSUME i = 0, itr' = at + 1 PROVE Ahead(itr, w, 1, m)'
      <3>1. Ahead(at + 1, w, i + 1, m) /\ i + 1 = 1
        BY <2>4, <2>9
      <3>2. Ahead(at + 1, w, 1, m)
        BY <3>1
      <3>. QED
        BY <1>6, <2>9, <3>2 DEF Ahead
    <2>10. CASE w[i] = LF
      <3>1. itr' = at + 1 /\ state' = "EnterCommand" /\ op' = "run" /\ sent' = sent
        BY <1>5, <2>2, <2>6, <2>7, <2>8, <2>10, EOLNIs
      <3>2. CASE i = 0
        BY <1>10, <2>9, <3>1, <3>2
      <3>3. CASE i = 1
        <4>1. Ahead(at + 1, w, i + 1, m) /\ i + 1 = 2
          BY <2>4, <3>3
        <4>2. Ahead(at + 1, w, 2, m)
          BY <4>1
        <4>. QED
          BY <1>11, <2>2, <3>1, <4>2
      <3>. QED
        BY <2>2, <3>2, <3>3
    <2>11. CASE w[i] = CR
      <3>1. i = 0
        BY <2>2, <2>8, <2>11
      <3>2. CASE at + 1 = eoM
        <4>1. /\ itr' = at + 1 /\ itr' = eoM /\ op' = "read" /\ state' = "EmptyLine"
              /\ sent' = sent
          BY <1>5, <2>2, <2>6, <2>7, <2>8, <2>11, <3>2, EOLNIs
        <4>2. Ahead(itr, w, 1, m)'
          BY <2>9, <3>1, <4>1
        <4>. QED
          BY <1>10, <4>1, <4>2
      <3>3. CASE at + 1 < eoM
        <4>1. buf[at + 1] = LF
          <5>1. buf[at + 1] = w[i + 1] /\ i + 1 = 1
            BY <1>4, <2>5, <3>1, <3>3
          <5>. QED
            BY <1>4, <5>1
        <4>2. itr' = at + 2 /\ state' = "EnterCommand" /\ op' = "run" /\ sent' = sent
          BY <1>5, <2>2, <2>6, <2>7, <2>8, <2>11, <3>3, <4>1, EOLNIs
        <4>3. Ahead(at + 2, w, 2, m)
          <5>1. Ahead(at + 2, w, i + 2, m) /\ i + 2 = 2
            BY <2>4, <3>1
          <5>. QED
            BY <5>1
        <4>. QED
          BY <1>11, <2>2, <4>2, <4>3
      <3>. QED
        BY <1>5, <2>2, <3>2, <3>3
    <2>. QED
      BY <2>2, <2>10, <2>11
  <1>. QED
    BY <1>12, <1>13

(* The same with the reads, the writes and the timeouts in between. *)
LEMMA LeavingLeads ==
    ASSUME Inv, Next, FullReads, Different, LineEnds, NEW r, Session(r), Leaving(r),
           NEW whole, PrefixOf(sent, whole)
    PROVE  Leaving(r)' \/ Quitting(r)' \/ Over(whole)'
  <1>1. PICK k \in r.dst[r.N] .. r.N, p \in {0, 1} :
           /\ Ahead(itr, Gap(r, k), p, r.M - r.N)
           /\ p = 0 /\ state = "EmptyLine" => r.b[k] \in Ends
    BY DEF Leaving
  <1>2. /\ op \in {"run", "read", "write"} /\ (op = "read" => itr = eoM)
        /\ state \in {"EnterCommand", "EmptyLine"}
        /\ cmdBuffer = <<>> /\ sent = ToldAgain(r)
    BY DEF Leaving
  <1>3. ASSUME Ahead(itr, Gap(r, k), p, r.M - r.N)', op' = "run",
               UNCHANGED <<state, cmdBuffer, sent>>
        PROVE  Leaving(r)'
    BY <1>1, <1>2, <1>3 DEF Leaving, ToldAgain, Gap, Following, Before, Told
  <1>4. CASE SignalTerminate
    BY <1>4, Ended
  <1>5. CASE op = "read"
    <2>1. ASSUME NEW n \in 1..size, NetworkInput(n) PROVE Leaving(r)'
      <3>1. p \in Nat /\ r.M - r.N \in Nat
        BY GapHas DEF GapIs
      <3>2. /\ Ahead(itr, Gap(r, k), p, r.M - r.N)' /\ op' = "run"
            /\ UNCHANGED <<state, cmdBuffer, sent>>
        BY <1>1, <1>2, <1>5, <2>1, <3>1, Fed
      <3>. QED
        BY <1>3, <3>2
    <2>. QED
      BY <1>4, <1>5, <2>1, Turns
  <1>6. CASE op = "write"
    <2>1. CASE Written
      <3>1. op' = "run" /\ UNCHANGED <<state, sent, buf, itr, eoM, unread, cmdBuffer>>
        BY <2>1 DEF Written, block
      <3>2. Ahead(itr, Gap(r, k), p, r.M - r.N)'
        BY <1>1, <3>1 DEF Ahead, Gap, Following
      <3>. QED
        BY <1>3, <3>1, <3>2
    <2>. QED
      BY <1>4, <1>6, <2>1, Turns
  <1>7. CASE op = "run"
    <2>1. EnterCommand \/ EmptyLine
      BY <1>2, <1>7, Turns DEF State
    <2>. QED
      BY <2>1, LeavingCommand, LeavingEmpty
  <1>. QED
    BY <1>2, <1>5, <1>6, <1>7
-------------------------------------------------------------------------------
(* The command buffer is empty when no word is read. *)
Spent == state \in {"EnterCommand", "EnterMode", "Terminate"} \/ cmdBuffer = <<>>

(* Only the cases that read a word leave something in the command buffer:  *)
(* no word begins with the rest of an earlier one.                         *)
LEMMA SpentHolds == Spec => []Spent
  <1>1. Init => Spent
    BY DEF Init, Spent
  <1>2. Spent /\ [Next]_vars => Spent'
    <2>. SUFFICES ASSUME Spent, [Next]_vars PROVE Spent'
      OBVIOUS
    <2>1. CASE EnterCommand
      BY <2>1 DEF EnterCommand, Spent, Runs
    <2>2. CASE EnterMode
      BY <2>2 DEF EnterMode, Spent, Runs
    <2>3. CASE Greet \/ EmptyLine \/ HandleError \/ StartProcessing
      BY <2>3 DEF Greet, EmptyLine, HandleError, StartProcessing, Spent, Runs
    <2>4. CASE Release \/ Processing \/ Close
      BY <2>4 DEF Release, Processing, Close, Spent, Runs
    <2>5. CASE \/ ScanBlock \/ ScanEnds \/ Written \/ SignalTerminate \/ UNCHANGED vars
               \/ \E n \in 1..size : NetworkInput(n)
      BY <2>5 DEF ScanBlock, ScanEnds, Written, SignalTerminate, NetworkInput, vars, Spent
    <2>. QED
      BY <2>1, <2>2, <2>3, <2>4, <2>5 DEF Next, Serve
  <1>. QED
    BY <1>1, <1>2, PTL DEF Spec

(* No step changes what the client expects. *)
LEMMA ExpectedStays ==
    ASSUME [Next]_vars
    PROVE  expected' = expected
  <1>1. CASE \/ Greet \/ EnterCommand \/ EmptyLine \/ EnterMode \/ StartProcessing
             \/ HandleError \/ Close \/ Release \/ Processing
    BY <1>1 DEF Greet, EnterCommand, EmptyLine, EnterMode, StartProcessing, HandleError,
                Close, Release, Processing
  <1>2. CASE \/ ScanBlock \/ ScanEnds \/ Written \/ SignalTerminate \/ UNCHANGED vars
             \/ \E n \in 1..size : NetworkInput(n)
    BY <1>2 DEF ScanBlock, ScanEnds, Written, SignalTerminate, NetworkInput, vars
  <1>. QED
    BY <1>1, <1>2 DEF Next, Serve

(* The data is echoed ... *)
Underway(r) == DataUnderWay(r.N, r.M, r.b, r.q, r.dst, r.f, r.text, Before)

(* ... and has been. *)
Done(r) == DataDone(r.N, r.M, r.b, r.dst, r.text, Before)

(* How far the session is. *)
Stage(r) ==
    \/ NotYet(r) \/ Commanding(r) \/ Arguing(r) \/ Beginning(r)
    \/ Underway(r) \/ Done(r)
    \/ Leaving(r) \/ Quitting(r) \/ Over(Whole(r))

(* What is sent are replies. *)
LEMMA Replies == Told \in Seq(U) /\ Before \in Seq(U)
  <1>1. /\ "expecting command" \in U /\ "enter data" \in U
    BY DEF U, Reply
  <1>. HIDE DEF U
  <1>2. Told \in Seq(U)
    <2>1. \A m \in U : <<m>> \in Seq(U)
      OBVIOUS
    <2>. QED
      BY <1>1, <2>1 DEF Told
  <1>. QED
    BY <1>1, <1>2, AppendProperties DEF Before

(* The data of a session is that of a request. *)
LEMMA DataOfSession ==
    ASSUME NEW r, Session(r)
    PROVE  /\ Requested(r.N, r.b, r.q, r.dst, r.f, r.text)
           /\ r.N <= r.M /\ r.M \in Nat /\ Before \in Seq(U)
  <1>1. Requested(r.N, r.b, r.q, r.dst, r.f, r.text)
    BY DEF Session
  <1>2. r.N \in Nat /\ r.M \in Nat /\ r.h \in Nat /\ r.N + 2 <= r.h /\ r.h <= r.M
    BY SessionHas DEF SessionIs
  <1>3. r.N <= r.M
    BY <1>2
  <1>. QED
    BY <1>1, <1>2, <1>3, Replies

(* What may have been sent. *)
Beginnings(r) ==
    /\ PrefixOf(<<>>, Whole(r)) /\ PrefixOf(Told, Whole(r))
    /\ \A s \in Seq(U) : PrefixOf(s, Before \o r.text[r.N]) => PrefixOf(s, Whole(r))
    /\ PrefixOf(Before \o r.text[r.N], Whole(r))
    /\ PrefixOf(ToldAgain(r), Whole(r)) /\ PrefixOf(Whole(r), Whole(r))
    /\ Whole(r) \in Seq(U)

(* A sequence is the beginning of itself with one more. *)
LEMMA AppendGoesOn ==
    ASSUME NEW s \in Seq(U), NEW m \in U
    PROVE  Append(s, m) \in Seq(U) /\ PrefixOf(s, Append(s, m))
  <1>. HIDE DEF U
  <1>1. <<m>> \in Seq(U)
    OBVIOUS
  <1>2. Append(s, m) = s \o <<m>>
    BY AppendIsConcat
  <1>. QED
    BY <1>1, <1>2, AppendProperties DEF PrefixOf

(* What has been sent at each stage is a beginning of the answer. *)
LEMMA AnswerBegins ==
    ASSUME NEW r, Session(r)
    PROVE  Beginnings(r)
  <1>. DEFINE D == Before \o r.text[r.N]
              T == ToldAgain(r)
              W == Whole(r)
  <1>1. r.text[r.N] \in Seq(U)
    <2>1. Requested(r.N, r.b, r.q, r.dst, r.f, r.text) /\ r.N \in 0..r.N
      BY SessionHas DEF SessionIs, Session
    <2>. QED
      BY <2>1, TextGrows
  <1>2. "expecting command" \in U /\ "enter data" \in U /\ "bye" \in U
    BY DEF U, Reply
  <1>. HIDE DEF U
  <1>3. D \in Seq(U) /\ PrefixOf(Before, D) /\ Before \in Seq(U) /\ Told \in Seq(U)
    BY <1>1, Replies, PrefixIs
  <1>4. T \in Seq(U) /\ PrefixOf(D, T)
    <2>1. T = Append(D, "expecting command")
      BY DEF ToldAgain
    <2>. HIDE DEF D, T
    <2>. QED
      BY <1>2, <1>3, <2>1, AppendGoesOn
  <1>5. W \in Seq(U) /\ PrefixOf(T, W)
    <2>1. W = Append(T, "bye")
      BY DEF Whole
    <2>. HIDE DEF T, W
    <2>. QED
      BY <1>2, <1>4, <2>1, AppendGoesOn
  <1>6. PrefixOf(Told, Before)
    BY <1>2, <1>3, AppendGoesOn DEF Before
  <1>7. <<>> \in Seq(U) /\ PrefixOf(<<>>, W)
    <2>1. <<>> \o W = W /\ <<>> \in Seq(U)
      <3>. HIDE DEF W
      <3>. QED
        BY <1>5, ConcatEmptySeq, EmptySeq
    <2>. QED
      BY <1>5, <2>1 DEF PrefixOf
  <1>. HIDE DEF D, T, W
  <1>8. PrefixOf(D, W)
    BY <1>3, <1>4, <1>5, PrefixGoesOn
  <1>9. \A s \in Seq(U) : PrefixOf(s, D) => PrefixOf(s, W)
    BY <1>3, <1>5, <1>8, PrefixGoesOn
  <1>10. PrefixOf(Told, D)
    BY <1>3, <1>6, PrefixGoesOn
  <1>11. PrefixOf(Told, W) /\ PrefixOf(W, W)
    BY <1>3, <1>5, <1>7, <1>9, <1>10, PrefixIs
  <1>. QED
    BY <1>5, <1>7, <1>8, <1>9, <1>11 DEF Beginnings, D, T, W

(* So at every stage the client has a beginning of its answer. *)
LEMMA StageBegins ==
    ASSUME Inv, NEW r, Session(r), Stage(r)
    PROVE  PrefixOf(sent, Whole(r))
  <1>1. Beginnings(r) /\ sent \in Seq(U)
    BY AnswerBegins, SeqTypes
  <1>2. CASE NotYet(r) \/ Commanding(r) \/ Arguing(r) \/ Beginning(r)
    BY <1>1, <1>2 DEF NotYet, Commanding, Arguing, Beginning, Beginnings
  <1>3. CASE Underway(r)
    <2>1. /\ Requested(r.N, r.b, r.q, r.dst, r.f, r.text) /\ r.N <= r.M /\ r.M \in Nat
          /\ Before \in Seq(U)
      BY DataOfSession
    <2>2. PrefixOf(sent, Before \o r.text[r.N])
      BY <1>3, <2>1, UnderWayBegins DEF Underway
    <2>. QED
      BY <1>1, <2>2 DEF Beginnings
  <1>4. CASE Done(r)
    BY <1>1, <1>4 DEF Done, DataDone, Beginnings
  <1>5. CASE Leaving(r) \/ Quitting(r)
    BY <1>1, <1>5 DEF Leaving, Quitting, Beginnings
  <1>6. CASE Over(Whole(r))
    BY <1>6 DEF Over
  <1>. QED
    BY <1>2, <1>3, <1>4, <1>5, <1>6 DEF Stage

(* Nothing happens and the stage is the same. *)
LEMMA StageStays ==
    ASSUME NEW r, Session(r), Stage(r), UNCHANGED vars
    PROVE  Stage(r)'
  <1>1. UNCHANGED <<size, buf, pos, eodState, scan, state, mode, cmdBuffer, itr, eoM, eoD,
                    output, outSize, op, unread, sent>>
    BY DEF vars, block
  <1>2. \A f : Filters(f)' = Filters(f)
    BY <1>1 DEF Filters, Filter
  <1>3. \A at, z, p, m : Ahead(at, z, p, m)' = Ahead(at, z, p, m)
    BY <1>1 DEF Ahead
  <1>4. CASE NotYet(r) \/ Commanding(r) \/ Arguing(r) \/ Beginning(r)
    BY <1>1, <1>2, <1>4
    DEF NotYet, Commanding, Arguing, Beginning, Stage, Waiting, Full, Ahead, Spelt, Lowered
  <1>5. CASE Underway(r)
    BY <1>5, SessionHas, UnderWayStays DEF Underway, Stage, SessionIs
  <1>6. CASE Done(r)
    BY <1>1, <1>6 DEF Done, DataDone, Stage, Ahead, Following
  <1>7. CASE Leaving(r) \/ Quitting(r)
    BY <1>1, <1>7 DEF Leaving, Quitting, Stage, Ahead, Gap, Following, Spelt, Lowered
  <1>8. CASE Over(Whole(r))
    BY <1>1, <1>8 DEF Over, PrefixOf, Stage
  <1>. QED
    BY <1>4, <1>5, <1>6, <1>7, <1>8 DEF Stage

(* Every step leaves the session where it is, or takes it to a later       *)
(* stage; three of them are where getEoD takes over.                       *)
LEMMA StageLeads ==
    ASSUME Inv, Inv', Spent, Next, FullReads, Different, LineEnds,
           NEW r, Session(r), Stage(r)
    PROVE  \/ Stage(r)'
           \/ DataBegins(r.M, r.b, r.f, Before)'
           \/ DataBegun(r.N, r.M, r.b, r.q, r.dst, r.f, r.text, Before)'
           \/ DataThere(r.N, r.M, r.b, r.q, r.dst, r.f, r.text, Before)'
  <1>1. PrefixOf(sent, Whole(r)) /\ Beginnings(r)
    BY StageBegins, AnswerBegins
  <1>2. CASE NotYet(r)
    BY <1>2, NotYetLeads DEF Stage
  <1>3. CASE Commanding(r)
    BY <1>1, <1>3, CommandingLeads DEF Stage
  <1>4. CASE Arguing(r)
    BY <1>1, <1>4, ArguingLeads DEF Stage
  <1>5. CASE Beginning(r)
    BY <1>5, BeginningLeads
  <1>6. CASE Underway(r)
    <2>1. /\ Requested(r.N, r.b, r.q, r.dst, r.f, r.text) /\ r.N <= r.M /\ r.M \in Nat
          /\ Before \in Seq(U) /\ Filters(r.f)
      BY <1>6, DataOfSession DEF Underway, DataUnderWay
    <2>2. CASE DataScanned(r.N, r.M, r.b, r.q, r.dst, r.text, Before)
      BY <2>1, <2>2, ScanStepLeads DEF Stage, Underway
    <2>3. ThrownOut(r.N, r.text, Before)' => Over(Whole(r))'
      <3>1. sent' \in Seq(U)
        BY SentTypes
      <3>2. \A s \in Seq(U) : PrefixOf(s, Before \o r.text[r.N]) => PrefixOf(s, Whole(r))
        BY <1>1 DEF Beginnings
      <3>. QED
        BY <3>1, <3>2 DEF ThrownOut, Over, PrefixOf, Before, Told, Whole, ToldAgain
    <2>4. CASE DataEchoed(r.N, r.M, r.b, r.q, r.dst, r.text, Before)
      BY <2>1, <2>3, <2>4, EchoStepLeads DEF Stage, Underway, Done
    <2>5. CASE DataAwaited(r.N, r.M, r.b, r.q, r.dst, r.text, Before)
      BY <2>1, <2>3, <2>5, AwaitStepLeads DEF Stage
    <2>. QED
      BY <1>6, <2>2, <2>4, <2>5 DEF Underway, DataUnderWay
  <1>7. CASE Done(r)
    <2>1. cmdBuffer = <<>>
      BY <1>7 DEF Spent, Done, DataDone
    <2>. QED
      BY <1>1, <1>7, <2>1, DoneLeads DEF Stage, Done
  <1>8. CASE Leaving(r)
    BY <1>1, <1>8, LeavingLeads DEF Stage
  <1>9. CASE Quitting(r)
    BY <1>1, <1>9, QuittingLeads DEF Stage, Beginnings
  <1>10. CASE Over(Whole(r))
    BY <1>10, OverStays DEF Stage
  <1>. QED
    BY <1>2, <1>3, <1>4, <1>5, <1>6, <1>7, <1>8, <1>9, <1>10 DEF Stage

(* At first nothing is read and nothing is sent. *)
LEMMA StageAtFirst ==
    ASSUME Init, NEW c, unread = c.ask, expected = c.answer, NEW r, OneEcho(c, r)
    PROVE  Session(r) /\ expected = Whole(r) /\ Stage(r)
  <1>1. r.K + r.M \in Nat
    BY SessionHas DEF OneEcho, SessionIs
  <1>2. Ahead(itr, r.z, 0, r.K + r.M)
    <2>1. eoM = 0 /\ itr = 0
      BY DEF Init
    <2>2. Near(0, r.z, 0, r.K + r.M)
      <3>. SUFFICES ASSUME NEW k \in 0 .. r.K + r.M PROVE Comes(0 + (k - 0), r.z[k])
        BY DEF Near
      <3>1. /\ 0 + (k - 0) = k /\ ~ (k < eoM) /\ k - eoM + 1 = k + 1
            /\ k + 1 \in 1 .. Len(unread)
        BY <1>1, <2>1 DEF OneEcho
      <3>2. unread[k + 1] = r.z[k]
        BY DEF OneEcho
      <3>. QED
        BY <3>1, <3>2 DEF Comes
    <2>3. 0 \in Int /\ r.K + r.M \in Int /\ 0 \in Nat
      BY <1>1
    <2>. QED
      BY <2>1, <2>2, <2>3, AheadComes
  <1>3. NotYet(r)
    BY <1>2 DEF Init, NotYet, Waiting, Full
  <1>. QED
    BY <1>3 DEF OneEcho, Stage

(* What a client has of its answer is the beginning of it. *)
LEMMA BeginningIsExpected ==
    ASSUME Inv, PrefixOf(sent, expected)
    PROVE  ExpectedResult
  <1>1. PICK u \in Seq(U) : expected = sent \o u
    BY DEF PrefixOf
  <1>2. sent \in Seq(U)
    BY SeqTypes
  <1>. HIDE DEF U
  <1>3. /\ Len(sent) \in Nat /\ Len(u) \in Nat
        /\ expected \in Seq(U) /\ Len(expected) = Len(sent) + Len(u)
        /\ \A i \in 1 .. Len(sent) + Len(u) :
              expected[i] = IF i <= Len(sent) THEN sent[i] ELSE u[i - Len(sent)]
    BY <1>1, <1>2, LenProperties, ConcatProperties
  <1>4. Len(sent) <= Len(expected)
    BY <1>3
  <1>. DEFINE s == SubSeq(expected, 1, Len(sent))
  <1>5. /\ s \in Seq(U) /\ Len(s) = Len(sent)
        /\ \A i \in 1 .. Len(sent) : s[i] = expected[i]
    <2>1. \A i \in 1 .. Len(sent) : expected[i] \in U
      BY <1>3, ElementOfSeq
    <2>2. /\ s \in Seq(U) /\ Len(s) = IF 1 <= Len(sent) THEN Len(sent) - 1 + 1 ELSE 0
          /\ \A i \in 1 .. Len(sent) - 1 + 1 : s[i] = expected[1 + i - 1]
      BY <1>3, <2>1, SubSeqProperties
    <2>. HIDE DEF s
    <2>3. /\ Len(sent) - 1 + 1 = Len(sent)
          /\ \A i \in 1 .. Len(sent) : 1 + i - 1 = i
      BY <1>3
    <2>. QED
      BY <1>3, <2>2, <2>3
  <1>. HIDE DEF s
  <1>6. \A i \in 1 .. Len(sent) : s[i] = sent[i]
    BY <1>3, <1>5
  <1>7. s = sent
    BY <1>2, <1>5, <1>6, SeqEqual
  <1>. QED
    BY <1>4, <1>7 DEF ExpectedResult, s

(* Every client that makes one request, in blocks that are filled, is sent *)
(* what tests/pechoHandler-gTest.cpp expects, whatever the sizes of the    *)
(* blocks, the data, and the mode: each reply in its turn, the data        *)
(* through the filter it named, and nothing else; the words of the         *)
(* commands, the blanks and the line ends may be cut anywhere.             *)
THEOREM OneRequestIsAnswered ==
    ASSUME FullReads, Different, LineEnds, \A c \in Client : \E r : OneEcho(c, r)
    PROVE  Spec => []ExpectedResult
  <1>. DEFINE For(r) == Session(r) /\ expected = Whole(r)
              On == \E r : For(r) /\ Stage(r)
              Asked == \E r : For(r) /\ DataBegins(r.M, r.b, r.f, Before)
              Begun == \E r : For(r)
                          /\ DataBegun(r.N, r.M, r.b, r.q, r.dst, r.f, r.text, Before)
              There == \E r : For(r)
                          /\ DataThere(r.N, r.M, r.b, r.q, r.dst, r.f, r.text, Before)
  <1>0. \A r : Session(r) => /\ Requested(r.N, r.b, r.q, r.dst, r.f, r.text)
                             /\ r.N <= r.M /\ r.M \in Nat /\ Before \in Seq(U)
    BY DataOfSession
  <1>1. Init => On
    <2>. SUFFICES ASSUME Init PROVE On
      OBVIOUS
    <2>1. PICK c \in Client : unread = c.ask /\ expected = c.answer
      BY DEF Init
    <2>2. PICK r : OneEcho(c, r)
      OBVIOUS
    <2>. QED
      BY <2>1, <2>2, StageAtFirst
  <1>2. Inv /\ Asked => Begun
    BY <1>0, BeginsBegun
  <1>3. Begun => On
    BY <1>0, BegunIsScanned DEF Stage, Underway
  <1>4. Inv /\ There => On
    BY <1>0, ThereIsEchoed DEF Stage, Underway
  <1>5. Inv /\ Inv' /\ Spent /\ On /\ [Next]_vars => On' \/ Asked' \/ Begun' \/ There'
    <2>. SUFFICES ASSUME Inv, Inv', Spent, On, [Next]_vars
                  PROVE  On' \/ Asked' \/ Begun' \/ There'
      OBVIOUS
    <2>1. PICK r : For(r) /\ Stage(r)
      OBVIOUS
    <2>2. Whole(r)' = Whole(r) /\ (Session(r) <=> Session(r)')
      OBVIOUS
    <2>3. For(r)'
      BY <2>1, <2>2, ExpectedStays
    <2>4. CASE UNCHANGED vars
      BY <2>1, <2>3, <2>4, StageStays
    <2>5. CASE Next
      BY <2>1, <2>3, <2>5, StageLeads
    <2>. QED
      BY <2>4, <2>5
  <1>6. Inv /\ On => ExpectedResult
    BY StageBegins, BeginningIsExpected
  <1>. HIDE DEF On, Asked, Begun, There
  <1>. QED
    BY <1>1, <1>2, <1>3, <1>4, <1>5, <1>6, Inductive, SpentHolds, PTL DEF Spec
===============================================================================
