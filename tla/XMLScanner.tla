------------------------------- MODULE XMLScanner -------------------------------
(***************************************************************************)
(* The XML scanner of textwolf (src/examples/xmlselect/textwolf.hpp):      *)
(* nextItem() runs a table of states over the characters of a document     *)
(* and returns the next item.  The document comes in blocks.  At the end   *)
(* of a block the input iterator throws, nextItem() and all it called are  *)
(* left, and a later call starts again from what the members hold: the     *)
(* state, tokstate and the output so far.                                  *)
(*                                                                         *)
(* A step below handles one character.  A character is named by itself;    *)
(* one that takes two bytes is a "lead" followed by a "trail".             *)
(***************************************************************************)
EXTENDS Integers, Sequences, SequencesExt, TLC

CONSTANTS
    Document,       \* documents: their bytes and the items written in them
    OutSize         \* the size of the output buffer

(* A document is its bytes; the output buffer has room for one character. *)
ASSUME ScannerAssumption ==
    /\ \A d \in DOMAIN Document : Document[d].src \in Seq(STRING)
    /\ OutSize \in Nat /\ OutSize >= 8

VARIABLES
    doc,            \* the index of the document that is read
    fed,            \* bytes of it that were fed
    pos,            \* bytes of it that were skipped
    place,          \* where nextItem() is, "ready" outside of it
    state,          \* the state of the table
    tokstate,       \* how far a token was parsed
    out,            \* the output buffer
    item            \* what nextItem() returned

input == <<doc, fed>>
scan  == <<pos, place, state, tokstate, out, item>>

Bytes == Document[doc].src

NoItem == [type |-> "None", text |-> <<>>]

-------------------------------------------------------------------------------
(* The table.                                                              *)

Blank == {"EndOfLine", "Cntrl", "Space"}

Control(c) ==
    CASE c = "0" -> "EndOfText"     [] c = "\n" -> "EndOfLine"
      [] c = " " -> "Space"         [] c = "&" -> "Amp"
      [] c = "<" -> "Lt"            [] c = "=" -> "Equal"
      [] c = ">" -> "Gt"            [] c = "/" -> "Slash"
      [] c = "!" -> "Exclam"        [] c = "?" -> "Questm"
      [] c = "'" -> "Sq"            [] c = "\"" -> "Dq"
      [] c \in {"[", "]"} -> "Osb"
      [] c \in {"lead", "trail"} -> "Undef"
      [] OTHER -> "Any"

All(classes, s) == [c \in classes |-> s]

(* A state's operation and its argument, its transitions, and the state to *)
(* fall back to; without one a character it does not expect is an error.   *)
Row(op, arg, next, fallback) ==
    [op |-> op, arg |-> arg, next |-> next, fallback |-> fallback]

Skips(s, next, fallback) == Row("none", "", All(Blank, s) @@ next, fallback)

Anything == Blank \cup {"Undef", "EndOfText", "Amp", "Lt", "Equal", "Gt", "Slash",
                        "Exclam", "Questm", "Sq", "Dq", "Osb", "Csb", "Any"}

Statemachine(s) ==
    CASE s = "START"    -> Skips(s, "Lt" :> "STARTTAG", "")
      [] s = "STARTTAG" -> Skips(s, "Questm" :> "XTAG" @@ "Exclam" :> "ENTITYSL", "OPENTAG")
      [] s = "XTAG"     -> Row("Expect", "xml", All(Blank, "XTAGAISK") @@ "Questm" :> "XTAGEND", "")
      [] s = "XTAGEND"  -> Row("Return", "HeaderEnd", "Gt" :> "CONTENT" @@ All(Blank, s), "")
      [] s = "XTAGAISK" -> Skips(s, "Questm" :> "XTAGEND", "XTAGANAM")
      [] s = "XTAGANAM" -> Row("Identifier", "HeaderAttribName", All(Blank, "XTAGAESK") @@ "Equal" :> "XTAGAVSK", "")
      [] s = "XTAGAESK" -> Skips(s, "Equal" :> "XTAGAVSK", "")
      [] s = "XTAGAVSK" -> Skips(s, "Sq" :> "XTAGAVSQ" @@ "Dq" :> "XTAGAVDQ", "XTAGAVID")
      [] s = "XTAGAVID" -> Row("Identifier", "HeaderAttribValue", All(Blank, "XTAGAISK") @@ "Questm" :> "XTAGEND", "")
      [] s = "XTAGAVSQ" -> Row("SQString", "HeaderAttribValue", "Sq" :> "XTAGAVQE", "")
      [] s = "XTAGAVDQ" -> Row("DQString", "HeaderAttribValue", "Dq" :> "XTAGAVQE", "")
      [] s = "XTAGAVQE" -> Row("none", "", All(Blank, "XTAGAISK") @@ "Questm" :> "XTAGEND", "")
      [] s = "CONTENT"  -> Skips(s, "EndOfText" :> "EXIT" @@ "Lt" :> "XMLTAG", "TOKEN")
      [] s = "TOKEN"    -> Row("Token", "Content", All(Blank, "CONTENT") @@ "EndOfText" :> "EXIT" @@ "Lt" :> "XMLTAG", "CONTENT")
      [] s = "XMLTAG"   -> Skips(s, "Questm" :> "XTAG" @@ "Slash" :> "CLOSETAG", "OPENTAG")
      [] s = "OPENTAG"  -> Row("Identifier", "OpenTag", All(Blank, "TAGAISK") @@ "Slash" :> "TAGCLIM" @@ "Gt" :> "CONTENT", "")
      [] s = "CLOSETAG" -> Row("Identifier", "CloseTag", All(Blank, "TAGCLSK") @@ "Gt" :> "CONTENT", "")
      [] s = "TAGCLSK"  -> Skips(s, "Gt" :> "CONTENT", "")
      [] s = "TAGAISK"  -> Skips(s, "Gt" :> "CONTENT" @@ "Slash" :> "TAGCLIM", "TAGANAM")
      [] s = "TAGANAM"  -> Row("Identifier", "TagAttribName", All(Blank, "TAGAESK") @@ "Equal" :> "TAGAVSK", "")
      [] s = "TAGAESK"  -> Skips(s, "Equal" :> "TAGAVSK", "")
      [] s = "TAGAVSK"  -> Skips(s, "Sq" :> "TAGAVSQ" @@ "Dq" :> "TAGAVDQ", "TAGAVID")
      [] s = "TAGAVID"  -> Row("Identifier", "TagAttribValue", All(Blank, "TAGAISK") @@ "Slash" :> "TAGCLIM" @@ "Gt" :> "CONTENT", "")
      [] s = "TAGAVSQ"  -> Row("SQString", "TagAttribValue", "Sq" :> "TAGAVQE", "")
      [] s = "TAGAVDQ"  -> Row("DQString", "TagAttribValue", "Dq" :> "TAGAVQE", "")
      [] s = "TAGAVQE"  -> Row("none", "", All(Blank, "TAGAISK") @@ "Slash" :> "TAGCLIM" @@ "Gt" :> "CONTENT", "")
      [] s = "TAGCLIM"  -> Row("Return", "CloseTagIm", "Gt" :> "CONTENT" @@ All(Blank, s), "")
      [] s = "ENTITYSL" -> Row("none", "", "Osb" :> "CDATA", "ENTITY")
      [] s = "ENTITY"   -> Row("none", "", "Exclam" :> "TAGCLSK" @@ All(Anything, s), "")
      [] s = "CDATA"    -> Row("Expect", "CDATA", "Osb" :> "CDATA1", "")
      [] s = "CDATA1"   -> Row("none", "", "Csb" :> "CDATA2" @@ All(Anything, s), "")
      [] s = "CDATA2"   -> Row("none", "", "Csb" :> "CDATA3" @@ All(Anything, "CDATA1"), "")
      [] s = "CDATA3"   -> Row("none", "", "Gt" :> "CONTENT" @@ All(Anything, "CDATA1"), "")
      [] s = "EXIT"     -> Row("Return", "Exit", <<>>, "")

Keyword(name) == IF name = "xml" THEN <<"x", "m", "l">>
                 ELSE <<"C", "D", "A", "T", "A">>

InContent == Anything \ (Blank \cup {"EndOfText", "Amp", "Lt"})

(* The characters that belong to a token. *)
Belongs(op) ==
    CASE op = "Token"      -> InContent
      [] op = "Identifier" -> {"Undef", "Any"}
      [] op = "SQString"   -> (InContent \ {"Sq"}) \cup {"Space"}
      [] op = "DQString"   -> (InContent \ {"Dq"}) \cup {"Space"}
      [] OTHER -> {}

-------------------------------------------------------------------------------
NoToken == [id |-> "Start", pos |-> 0, base |-> 0, value |-> 0, buf |-> <<>>]

InToken == [NoToken EXCEPT !.id = "ParsingToken"]

ScannerInit ==
    /\ doc \in DOMAIN Document /\ fed \in 0 .. Len(Bytes)
    /\ pos = 0 /\ place = "ready" /\ state = "START"
    /\ tokstate = NoToken
    /\ out = <<>> /\ item = NoItem

Sd == Statemachine(state)

(* The next byte, which ascii() and control() read. *)
Here == Bytes[pos + 1]

Size(c) == IF c = "lead" THEN 2 ELSE 1

Fed(n) == pos + n <= fed

Parsing(ids) == place = "parse" /\ tokstate.id \in ids /\ Fed(1)

(* UTF8::print() wants eight bytes of room for any character. *)
Fits(o) == Len(o) + 8 <= OutSize

(* The operations that parse a token, or skip it. *)
TokenDefs == {"Token", "Identifier", "SQString", "DQString"}

Begin(s, mask) ==
    LET row == Statemachine(s) IN
    CASE row.op = "Expect" -> "expect"
      [] row.op \in TokenDefs /\ row.arg \in mask -> "parse"
      [] row.op \in TokenDefs /\ row.arg \notin mask -> "pass"
      [] OTHER -> "next"

(* A state is entered, and its operation begun. *)
Enters(s, mask) ==
    /\ state' = s
    /\ place' = Begin(s, mask)
    /\ tokstate' =
         CASE Begin(s, mask) = "expect" -> [tokstate EXCEPT !.id = "ParsingKey"]
           [] Begin(s, mask) = "parse" /\ tokstate.id = "Start" -> InToken
           [] OTHER -> tokstate

Returns(type, text) == place' = "ready" /\ item' = [type |-> type, text |-> text]

Fails(error) ==
    /\ Returns("ErrorOccurred", <<error>>)
    /\ UNCHANGED <<pos, state, out>>

(* nextItem() is called. *)
Call(mask) ==
    /\ place = "ready"
    /\ out' = IF tokstate.id = "Start" THEN <<>> ELSE out
    /\ IF state = "EXIT"
       THEN Returns("Exit", <<>>) /\ UNCHANGED <<state, tokstate>>
       ELSE Enters(state, mask) /\ item' = NoItem
    /\ UNCHANGED <<pos, input>>

(* Bug: the operation is over, and forgotten at the end of a block. *)
EndOfBlockForgetting ==
    /\ place # "ready" /\ ~Fed(1)
    /\ Returns("EndOfBuffer", <<>>)
    /\ tokstate' = NoToken
    /\ UNCHANGED <<pos, state, out, input>>

(* What is read is not there, and the input iterator throws.  In a         *)
(* numeric entity pos++ may have come before. *)
EndOfBlock ==
    /\ place # "ready"
    /\ \/ ~Fed(1)
       \/ Parsing({"ParsingToken"}) /\ ~Fed(Size(Here))
    /\ Returns("EndOfBuffer", <<>>)
    /\ \/ UNCHANGED tokstate
       \/ /\ tokstate.id = "ParsingNumericBaseEntity" /\ tokstate.pos < 16
          /\ tokstate' = [tokstate EXCEPT !.pos = @ + 1, !.buf = Append(@, "old")]
    /\ UNCHANGED <<pos, state, out, input>>

-------------------------------------------------------------------------------
(* parseToken() and what it calls.                                         *)

(* Characters are pushed, and tokstate becomes t, n bytes further on. *)
Pushes(chars, t, n) ==
    IF Fits(Front(out \o chars))
    THEN /\ out' = out \o chars /\ pos' = pos + n /\ tokstate' = t
         /\ UNCHANGED <<place, state, item>>
    ELSE Fails("OutputBufferTooSmall") /\ tokstate' = NoToken

Goes(t, n) ==
    /\ tokstate' = t /\ pos' = pos + n
    /\ UNCHANGED <<place, state, out, item>>

(* A character of the token, an entity, or the end of the token. *)
ParseToken ==
    /\ Parsing({"ParsingToken"})
    /\ IF Control(Here) \in Belongs(Sd.op)
       THEN /\ Fed(Size(Here))
            /\ IF Fits(out)
               THEN /\ out' = out \o SubSeq(Bytes, pos + 1, pos + Size(Here))
                    /\ pos' = pos + Size(Here)
                    /\ UNCHANGED <<place, state, tokstate, item>>
               ELSE Fails("OutputBufferTooSmall") /\ UNCHANGED tokstate
       ELSE IF Control(Here) = "Amp"
       THEN Goes([tokstate EXCEPT !.id = "ParsingEntity"], 1)
       ELSE IF Fits(out)
       THEN /\ tokstate' = NoToken /\ place' = "next"
            /\ UNCHANGED <<pos, state, out, item>>
       ELSE Fails("OutputBufferTooSmall") /\ tokstate' = NoToken
    /\ UNCHANGED input

ParseEntity ==
    /\ Parsing({"ParsingEntity"})
    /\ IF Here = "#" THEN Goes([tokstate EXCEPT !.id = "ParsingNumericEntity"], 1)
       ELSE Goes([tokstate EXCEPT !.id = "ParsingNamedEntity"], 0)
    /\ UNCHANGED input

ParseNumericEntity ==
    /\ Parsing({"ParsingNumericEntity"})
    /\ LET hex == Here = "x" IN
       Goes([tokstate EXCEPT !.id = "ParsingNumericBaseEntity",
                             !.base = IF hex THEN 16 ELSE 10],
            IF hex THEN 1 ELSE 0)
    /\ UNCHANGED input

Digit == <<"1", "2", "3", "4", "5", "6", "7", "8", "9", "A", "B", "C", "D", "E", "F">>

Hex(c) == IF c = "zero" THEN 0
          ELSE IF Contains(Digit, c) THEN CHOOSE i \in DOMAIN Digit : Digit[i] = c
          ELSE 255

(* The characters of an entity that is not understood. *)
Fallback(t) == IF t.id = "ParsingNumericBaseEntity" THEN <<"&", "#">> \o t.buf
               ELSE <<"&">> \o t.buf

(* What a character reference of some value prints. *)
Character(value) ==
    <<CASE value \in 49 .. 57 -> Digit[value - 48]
        [] value \in 65 .. 70 -> Digit[value - 55]
        [] OTHER -> "another">>

(* A third digit is taken for too many, because the value so far is        *)
(* compared with the base.                                                 *)
ParseNumericBaseEntity ==
    /\ Parsing({"ParsingNumericBaseEntity"})
    /\ LET t == [tokstate EXCEPT !.pos = @ + 1, !.buf = Append(@, Here)] IN
       IF tokstate.pos >= 16 THEN Pushes(Fallback(tokstate), InToken, 0)
       ELSE IF Here = ";" THEN
            IF t.value < 32
            THEN Fails("EntityEncodesCntrlChar") /\ tokstate' = NoToken
            ELSE Pushes(Character(t.value), InToken, 1)
       ELSE IF t.value >= t.base THEN Pushes(Fallback(t), InToken, 0)
       ELSE Goes([t EXCEPT !.value = @ * t.base + Hex(Here)], 1)
    /\ UNCHANGED input

Predefined ==
    (<<"l", "t">> :> "<") @@ (<<"g", "t">> :> ">") @@ (<<"a", "m", "p">> :> "&")
    @@ (<<"q", "u", "o", "t">> :> "\"") @@ (<<"a", "p", "o", "s">> :> "'")
    @@ (<<"n", "b", "s", "p">> :> " ")

(* There is no entity map.  An entity that is known and does not fit is    *)
(* told from one that is not known no more: pushEntity() sets the error.   *)
ParseNamedEntity ==
    /\ Parsing({"ParsingNamedEntity"})
    /\ IF tokstate.pos < 15 /\ Here # ";" /\ Control(Here) = "Any"
       THEN Goes([tokstate EXCEPT !.pos = @ + 1, !.buf = Append(@, Here)], 1)
       ELSE IF Here # ";" THEN Pushes(Fallback(tokstate), InToken, 0)
       ELSE IF tokstate.buf \in DOMAIN Predefined /\ Fits(out)
       THEN Pushes(<<Predefined[tokstate.buf]>>, InToken, 1)
       ELSE Fails("UndefinedCharacterEntity") /\ tokstate' = NoToken
    /\ UNCHANGED input

(* skipToken(), byte by byte. *)
SkipToken ==
    /\ place = "pass" /\ Fed(1)
    /\ IF Control(Here) \in Belongs(Sd.op) \cup {"Amp"}
       THEN pos' = pos + 1 /\ UNCHANGED place
       ELSE place' = "next" /\ UNCHANGED pos
    /\ UNCHANGED <<state, tokstate, out, item, input>>

(* expectStr(): pos counts what was found. *)
ExpectStr ==
    /\ place = "expect" /\ Fed(1)
    /\ LET key == Keyword(Sd.arg) IN
       IF Here = key[tokstate.pos + 1]
       THEN /\ IF tokstate.pos + 1 = Len(key)
               THEN tokstate' = NoToken /\ place' = "next"
               ELSE tokstate' = [tokstate EXCEPT !.pos = @ + 1] /\ UNCHANGED place
            /\ pos' = pos + 1
            /\ UNCHANGED <<state, out, item>>
       ELSE Fails("SyntaxToken") /\ tokstate' = NoToken
    /\ UNCHANGED input

(* The rest of the loop in nextItem(): the transition that the next        *)
(* character asks for.  Without an operation that returns, it goes on.     *)
Transition(mask) ==
    /\ place = "next" /\ Fed(1)
    /\ LET c    == Control(Here)
           step == c \in DOMAIN Sd.next
           s    == IF step THEN Sd.next[c] ELSE Sd.fallback
           ends == Sd.op \notin {"none", "Expect"}
       IN IF s = "" THEN Fails("Unexpected") /\ UNCHANGED tokstate
          ELSE /\ pos' = IF step THEN pos + 1 ELSE pos
               /\ UNCHANGED out
               /\ IF ends THEN state' = s /\ Returns(Sd.arg, out) /\ UNCHANGED tokstate
                  ELSE IF s = "EXIT"
                  THEN state' = s /\ Returns("Exit", <<>>) /\ UNCHANGED tokstate
                  ELSE Enters(s, mask) /\ UNCHANGED item
    /\ UNCHANGED input

(* What nextItem() does when it is called with a mask. *)
Runs(mask) ==
    \/ ParseToken \/ ParseEntity \/ ParseNumericEntity \/ ParseNumericBaseEntity
    \/ ParseNamedEntity \/ SkipToken \/ ExpectStr
    \/ Transition(mask) \/ EndOfBlock
===============================================================================
