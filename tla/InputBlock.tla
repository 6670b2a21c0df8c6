------------------------------ MODULE InputBlock ------------------------------
(***************************************************************************)
(* InputBlock::getEoD (src/src/protocol_ioblocks.cpp), which looks for the *)
(* end of data, a line with a single dot, in the block of memory the       *)
(* network reads into.  The dot that begins any other line is removed and  *)
(* what follows is moved down.  The end may be cut anywhere by the end of  *)
(* the block: m_eodState remembers what was seen of it.                    *)
(*                                                                         *)
(* One turn of getEoD's loop is one action; the variable scan holds its    *)
(* local variables.  The places bufpos, eatsize and dstsize are counted    *)
(* from start, as in the code.                                             *)
(***************************************************************************)
EXTENDS Integers, Sequences, FiniteSetsExt

CONSTANTS
    Byte,           \* the bytes of a run
    LF, CR, Dot,    \* those that matter to getEoD
    BlockSizes      \* sizes an input block may be constructed with

ASSUME BlockAssumption ==
    /\ {LF, CR, Dot} \subseteq Byte
    /\ BlockSizes \subseteq Nat \ {0}

VARIABLES
    size,           \* m_size: of the memory, not of what was read into it
    buf,            \* the memory, m_ptr
    pos,            \* m_pos: the end of the bytes that count
    eodState,       \* m_eodState
    scan            \* the locals of getEoD

block == <<size, buf, pos, eodState, scan>>

EodState == {"SRC", "LF", "LF_DOT", "LF_DOT_CR", "LF_DOT_CR_LF"}

NotFound == -1

(* getEoD( start) begins ... *)
GetEoD(start) ==
    scan' = [start |-> start, bufpos |-> 0, eatsize |-> 0, dstsize |-> 0,
             eodpos |-> NotFound]

BufSize == size - scan.start

(* ... its loop runs ... *)
Scanning == scan.bufpos < BufSize

(* ... and then the block ends here, and this is the place it returns.     *)
End == scan.start + scan.dstsize

EoD == IF scan.eodpos = NotFound THEN End ELSE scan.start + scan.eodpos

-------------------------------------------------------------------------------
At(k) == buf[scan.start + k]

Here == At(scan.bufpos)

(* moveInput( buf, dstsize, eatsize, bufpos): the memory after it, bufpos  *)
(* being to.                                                               *)
MoveInput(to) ==
    LET dst == scan.start + scan.dstsize
        gap == scan.eatsize - scan.dstsize IN
    [i \in DOMAIN buf |-> IF i \in dst .. dst + (to - scan.eatsize) - 1
                          THEN buf[i + gap] ELSE buf[i]]

(* bufpos goes on, over bytes that are kept; they are moved down when they *)
(* are the last ones.                                                      *)
Keep(to) ==
    IF to = BufSize
    THEN /\ buf' = MoveInput(to)
         /\ scan' = [scan EXCEPT !.bufpos = to, !.eatsize = to,
                                 !.dstsize = @ + (to - scan.eatsize)]
    ELSE /\ scan' = [scan EXCEPT !.bufpos = to]
         /\ UNCHANGED buf

LineFeeds == {k \in scan.bufpos .. BufSize - 1 : At(k) = LF}

SkipToLF ==
    /\ eodState = "SRC"
    /\ IF LineFeeds = {}
       THEN Keep(BufSize) /\ UNCHANGED eodState
       ELSE Keep(Min(LineFeeds) + 1) /\ eodState' = "LF"

(* The dot is eaten. *)
EatDot ==
    /\ eodState = "LF" /\ Here = Dot
    /\ eodState' = "LF_DOT"
    /\ buf' = MoveInput(scan.bufpos)
    /\ scan' = [scan EXCEPT !.bufpos = @ + 1, !.eatsize = scan.bufpos + 1,
                            !.dstsize = @ + (scan.bufpos - scan.eatsize)]

(* A byte that does not go on with the end of data. *)
NotEoD ==
    /\ \/ eodState = "LF" /\ Here # Dot
       \/ eodState = "LF_DOT" /\ Here \notin {CR, LF}
    /\ eodState' = "SRC"
    /\ Keep(scan.bufpos + 1)

(* Bug: the end of data is not given a byte of its own. *)
DefineEoDOnLast ==
    /\ eodState = "LF_DOT" /\ Here \in {CR, LF}
    /\ eodState' = IF Here = CR THEN "LF_DOT_CR" ELSE "LF_DOT_CR_LF"
    /\ scan' = [scan EXCEPT !.eodpos = scan.dstsize,
                            !.bufpos = @ + 1, !.eatsize = scan.bufpos + 1]
    /\ UNCHANGED buf

(* The end of data is the place where the line end was; the byte there is  *)
(* given up.                                                               *)
DefineEoD ==
    /\ eodState = "LF_DOT" /\ Here \in {CR, LF}
    /\ eodState' = IF Here = CR THEN "LF_DOT_CR" ELSE "LF_DOT_CR_LF"
    /\ scan' = [scan EXCEPT !.eodpos = scan.dstsize, !.dstsize = @ + 1,
                            !.bufpos = @ + 1, !.eatsize = scan.bufpos + 1]
    /\ UNCHANGED buf

EndLine ==
    /\ eodState = "LF_DOT_CR"
    /\ eodState' = "LF_DOT_CR_LF"
    /\ Keep(IF Here = LF THEN scan.bufpos + 1 ELSE scan.bufpos)

(* What follows the end of data is kept as it is. *)
SkipRest ==
    /\ eodState = "LF_DOT_CR_LF"
    /\ Keep(BufSize)
    /\ UNCHANGED eodState

ScanStep ==
    /\ Scanning
    /\ SkipToLF \/ EatDot \/ NotEoD \/ DefineEoD \/ EndLine \/ SkipRest
    /\ UNCHANGED <<size, pos>>

-------------------------------------------------------------------------------
ScanType == [start : 0 .. size - 1, bufpos : 0..size, eatsize : 0..size,
             dstsize : 0..size, eodpos : {NotFound} \cup 0 .. size - 1]

BlockType ==
    /\ size \in BlockSizes
    /\ buf \in [0 .. size - 1 -> Byte]
    /\ pos \in 0..size
    /\ eodState \in EodState
    /\ scan \in ScanType

(* The moves of getEoD stay in the block and go downwards only: no byte is *)
(* read or written beyond the memory, none is read after it was            *)
(* overwritten, and the end of data lies before the end of the block.      *)
MovesDown ==
    /\ scan.dstsize <= scan.eatsize
    /\ scan.eatsize <= scan.bufpos
    /\ scan.bufpos <= BufSize
    /\ scan.eodpos < scan.dstsize \/ scan.eodpos = NotFound
===============================================================================
