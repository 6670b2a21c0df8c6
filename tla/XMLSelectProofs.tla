----------------------------- MODULE XMLSelectProofs -----------------------------
(***************************************************************************)
(* What holds of the scanner for every document, every table of states,    *)
(* every mask and every place at which a block may end: it stays in its    *)
(* buffers, and a call finds again what the end of a block interrupted.    *)
(* Nothing there looks into the table: an operation is known by what       *)
(* nextItem() makes of it when it is begun.                                *)
(*                                                                         *)
(* Then what holds of the selection for all paths that a caller may        *)
(* define: the automaton is one that expand() can walk through, and the    *)
(* scopes, follows and tokens that fetch() goes through are there.  An     *)
(* index is kept in a scope while the lists behind it are cut, so each is  *)
(* known by where it lies: the scopes that are open lie within each other, *)
(* and what belongs to one lies before its end.                            *)
(***************************************************************************)
EXTENDS XMLSelect, SequenceTheorems, WellFoundedInduction, TLAPS

Mask == lists.scope.mask

ParseIds == {"ParsingToken", "ParsingEntity", "ParsingNumericEntity",
             "ParsingNumericBaseEntity", "ParsingNamedEntity"}

(* A byte of a document, or one from before the end of a block. *)
Byte == STRING \cup {"old"}

TokState == [id : {"Start", "ParsingKey"} \cup ParseIds,
             pos : 0..16, base : Int, value : Int, buf : Seq(Byte)]

(* tokstate.buf has 16 bytes; what is in it is what fallbackEntity() reads *)
(* back.  A keyword is read up to its end.                                 *)
TokenFits ==
    /\ tokstate.id # "ParsingKey" => Len(tokstate.buf) = tokstate.pos
    /\ tokstate.id \notin {"ParsingKey", "ParsingNamedEntity", "ParsingNumericBaseEntity"}
          => tokstate.pos = 0
    /\ tokstate.id = "ParsingNamedEntity" => tokstate.pos <= 15
    /\ tokstate.id = "ParsingKey" => tokstate.pos < Len(Keyword(Sd.arg))

OutputFits == (\E S : out \in Seq(S)) /\ Len(out) <= OutSize

InputFits == pos \in Nat /\ fed \in Nat /\ pos <= fed /\ fed <= Len(Bytes)

InBounds == doc \in DOMAIN Document /\ tokstate \in TokState /\ TokenFits /\ OutputFits /\ InputFits

(* While nextItem() runs: what it does is what the state asks for, or it   *)
(* is done with that.                                                      *)
Inside ==
    place # "ready" =>
        /\ context.key = NoKey
        /\ state # "EXIT"
        /\ place \in {Begin(state, Mask), "next"}
        /\ place = "expect" <=> tokstate.id = "ParsingKey"
        /\ place = "parse" <=> tokstate.id \in ParseIds
        /\ place = "next" /\ Begin(state, Mask) \in {"parse", "pass"} => Fed(1)
        /\ Begin(state, Mask) # "parse" => out = <<>>

(* Between two calls: a token was left for the operation it belongs to, or *)
(* there is none, and only then can the mask change.                       *)
Outside ==
    /\ place = "ready" /\ item.type \in {"None", "EndOfBuffer"} =>
        /\ tokstate.id = "ParsingKey" => Begin(state, Mask) = "expect" /\ out = <<>>
        /\ tokstate.id \in ParseIds => Begin(state, Mask) = "parse"
    /\ place = "ready" /\ item.type \notin {"None", "EndOfBuffer", "Exit", "ErrorOccurred"} =>
          tokstate.id = "Start"
    /\ context.key # NoKey => place = "ready" /\ tokstate.id = "Start"

ScannerInv == InBounds /\ Inside /\ Outside

-------------------------------------------------------------------------------
LEMMA BeginIs ==
    ASSUME NEW s, NEW m
    PROVE  /\ Begin(s, m) \in {"next", "expect", "parse", "pass"}
           /\ Begin(s, m) = "expect" <=> Statemachine(s).op = "Expect"
           /\ Begin(s, m) \in {"parse", "pass"} <=> Statemachine(s).op \in TokenDefs
  BY DEF Begin, TokenDefs

LEMMA KeywordLength == ASSUME NEW k PROVE Len(Keyword(k)) \in {3, 5}
  BY DEF Keyword

LEMMA HexType == ASSUME NEW c PROVE Hex(c) \in Int
  <1>1. CASE Contains(Digit, c)
    <2>. DEFINE i == CHOOSE i \in DOMAIN Digit : Digit[i] = c
    <2>1. \E j \in DOMAIN Digit : Digit[j] = c
      BY <1>1 DEF Contains, Digit
    <2>2. i \in DOMAIN Digit
      BY <2>1
    <2>3. DOMAIN Digit = 1..15
      BY DEF Digit
    <2>. HIDE DEF i
    <2>4. i \in Int
      BY <2>2, <2>3
    <2>5. Hex(c) = 0 \/ Hex(c) = i
      BY <1>1 DEF Hex, i
    <2>. QED
      BY <2>4, <2>5
  <1>2. CASE ~ Contains(Digit, c)
    BY <1>2 DEF Hex
  <1>. QED
    BY <1>1, <1>2

(* Characters of whatever kind, joined. *)
LEMMA Longer ==
    ASSUME NEW s, NEW t, \E S : s \in Seq(S), \E T : t \in Seq(T)
    PROVE  /\ \E S : s \o t \in Seq(S)
           /\ Len(s \o t) = Len(s) + Len(t)
           /\ Len(s) \in Nat /\ Len(t) \in Nat
           /\ t # <<>> => Len(Front(s \o t)) = Len(s) + Len(t) - 1
  <1>1. PICK S : s \in Seq(S)
    OBVIOUS
  <1>2. PICK T : t \in Seq(T)
    OBVIOUS
  <1>. DEFINE V == S \cup T
  <1>3. s \in Seq(V) /\ t \in Seq(V)
    BY <1>1, <1>2
  <1>. HIDE DEF V
  <1>4. s \o t \in Seq(V) /\ Len(s \o t) = Len(s) + Len(t)
    BY <1>3, ConcatProperties
  <1>5. Len(s) \in Nat /\ Len(t) \in Nat /\ (t # <<>> => Len(t) > 0)
    BY <1>3, EmptySeq, LenProperties
  <1>6. t # <<>> => Len(Front(s \o t)) = Len(s) + Len(t) - 1
    <2>. DEFINE u == s \o t
    <2>1. u \in Seq(V) /\ Len(u) \in Nat
      BY <1>4, LenProperties
    <2>. HIDE DEF u
    <2>2. Front(u) = SubSeq(u, 1, Len(u) - 1)
      BY DEF Front
    <2>. DEFINE n == Len(u) - 1
    <2>3. /\ 1 \in Int /\ n \in Int
          /\ \A i \in 1 .. n : u[i] \in V
      BY <2>1, LenProperties
    <2>. HIDE DEF n
    <2>4. Len(SubSeq(u, 1, n)) = IF 1 <= n THEN n - 1 + 1 ELSE 0
      BY <2>3, SubSeqProperties
    <2>. DEFINE k == Len(SubSeq(u, 1, n))
    <2>5. n \in Nat => k = n
      <3>. HIDE DEF k
      <3>1. k = IF 1 <= n THEN n - 1 + 1 ELSE 0
        BY <2>4 DEF k
      <3>. QED
        BY <3>1
    <2>6. Len(Front(u)) = k
      BY <2>2 DEF n
    <2>. HIDE DEF k
    <2>7. Len(u) > 0 => Len(Front(u)) = Len(u) - 1
      <3>1. Len(u) > 0 => n \in Nat /\ n = Len(u) - 1
        BY <2>1 DEF n
      <3>. QED
        BY <2>5, <2>6, <3>1
    <2>. QED
      BY <1>4, <1>5, <2>7 DEF u
  <1>. QED
    BY <1>4, <1>5, <1>6

LEMMA HereIsThere ==
    ASSUME InBounds, Fed(1)
    PROVE  Here \in STRING /\ pos + 1 <= fed
  <1>1. Bytes \in Seq(STRING) /\ Len(Bytes) \in Nat
    BY ScannerAssumption, LenProperties DEF InBounds, Bytes
  <1>2. pos + 1 \in 1 .. Len(Bytes) /\ pos + 1 <= fed
    BY <1>1 DEF InBounds, InputFits, Fed
  <1>. QED
    BY <1>1, <1>2, ElementOfSeq DEF Here

-------------------------------------------------------------------------------
(* Nothing but the scanner moves. *)
Scanning == UNCHANGED <<doc, fed, select>>

(* A step inside of a token: it goes on ... *)
GoesOn ==
    /\ place' = "parse" /\ UNCHANGED state
    /\ tokstate' \in TokState /\ tokstate'.id \in ParseIds /\ TokenFits'
    /\ OutputFits' /\ pos' \in pos .. fed

(* ... or it is over, or there is an error. *)
IsOver ==
    /\ place' = "next" /\ UNCHANGED <<state, pos, out>>
    /\ tokstate' = NoToken /\ Fed(1)

IsWrong ==
    /\ place' = "ready" /\ item'.type = "ErrorOccurred" /\ UNCHANGED <<state, pos, out>>
    /\ tokstate' \in {tokstate, NoToken}

LEMMA NoTokenFits ==
    /\ NoToken \in TokState /\ NoToken.id = "Start"
    /\ NoToken.pos = 0 /\ Len(NoToken.buf) = 0
    /\ InToken \in TokState /\ InToken.id = "ParsingToken"
    /\ InToken.pos = 0 /\ Len(InToken.buf) = 0
  <1>1. <<>> \in Seq(Byte) /\ Len(<<>>) = 0
    BY EmptySeq
  <1>2. InToken = [id |-> "ParsingToken", pos |-> 0, base |-> 0, value |-> 0, buf |-> <<>>]
    BY DEF NoToken, InToken
  <1>. QED
    BY <1>1, <1>2 DEF NoToken, TokState, ParseIds

LEMMA TokenStep ==
    ASSUME ScannerInv, place = "parse", Scanning, GoesOn \/ IsOver \/ IsWrong
    PROVE  ScannerInv'
  <1>1. /\ InBounds /\ context.key = NoKey /\ state # "EXIT"
        /\ tokstate.id \in ParseIds /\ Begin(state, Mask) \in {"parse"}
    BY DEF ScannerInv, Inside
  <1>2. UNCHANGED <<doc, fed, lists, context>>
    BY DEF Scanning, select
  <1>3. CASE GoesOn
    <2>1. InBounds'
      BY <1>1, <1>2, <1>3 DEF InBounds, InputFits, GoesOn, Bytes
    <2>2. Inside' /\ Outside'
      BY <1>1, <1>2, <1>3 DEF GoesOn, Inside, Outside, Mask, ParseIds
    <2>. QED
      BY <2>1, <2>2 DEF ScannerInv
  <1>4. CASE IsOver
    <2>1. InBounds'
      BY <1>1, <1>2, <1>4, NoTokenFits
      DEF InBounds, InputFits, OutputFits, TokenFits, IsOver, Bytes, Sd
    <2>2. Inside' /\ Outside'
      BY <1>1, <1>2, <1>4, NoTokenFits DEF IsOver, Inside, Outside, Mask, ParseIds, Fed
    <2>. QED
      BY <2>1, <2>2 DEF ScannerInv
  <1>5. CASE IsWrong
    <2>1. InBounds'
      BY <1>1, <1>2, <1>5, NoTokenFits
      DEF InBounds, InputFits, OutputFits, TokenFits, IsWrong, Bytes, Sd
    <2>2. Inside' /\ Outside'
      BY <1>1, <1>2, <1>5 DEF IsWrong, Inside, Outside, Mask
    <2>. QED
      BY <2>1, <2>2 DEF ScannerInv
  <1>. QED
    BY <1>3, <1>4, <1>5

(* print() has eight bytes for each character. *)
LEMMA PushesFit ==
    ASSUME ScannerInv, place = "parse", NEW chars, NEW n \in {0, 1}, Pushes(chars, InToken, n),
           \E T : chars \in Seq(T), chars # <<>>, Fed(1)
    PROVE  GoesOn \/ IsWrong
  <1>1. InBounds /\ OutSize \in Nat
    BY ScannerAssumption DEF ScannerInv
  <1>2. CASE Fits(Front(out \o chars))
    <2>1. /\ out' = out \o chars /\ pos' = pos + n /\ tokstate' = InToken
          /\ UNCHANGED <<place, state, item>>
      BY <1>2 DEF Pushes
    <2>2. /\ \E S : out \o chars \in Seq(S)
          /\ Len(out \o chars) = Len(out) + Len(chars)
          /\ Len(Front(out \o chars)) = Len(out) + Len(chars) - 1
          /\ Len(out) \in Nat /\ Len(chars) \in Nat
      BY <1>1, Longer DEF InBounds, OutputFits
    <2>3. Len(out) + Len(chars) <= OutSize
      BY <1>1, <1>2, <2>2 DEF Fits
    <2>4. OutputFits'
      BY <2>1, <2>2, <2>3 DEF OutputFits
    <2>5. pos' \in pos .. fed
      BY <1>1, <2>1 DEF InBounds, InputFits, Fed
    <2>6. tokstate' \in TokState /\ tokstate'.id \in ParseIds /\ TokenFits'
      BY <2>1, NoTokenFits DEF TokenFits, ParseIds
    <2>. QED
      BY <2>1, <2>4, <2>5, <2>6 DEF GoesOn
  <1>3. CASE ~ Fits(Front(out \o chars))
    BY <1>3 DEF Pushes, Fails, Returns, IsWrong
  <1>. QED
    BY <1>2, <1>3

(* What an operation on a token finds. *)
LEMMA InParse ==
    ASSUME ScannerInv, NEW ids \in SUBSET ParseIds, Parsing(ids)
    PROVE  /\ place = "parse" /\ tokstate \in TokState /\ tokstate.id \in ids
           /\ tokstate.pos \in 0 .. 16 /\ tokstate.buf \in Seq(Byte)
           /\ Len(tokstate.buf) = tokstate.pos
           /\ tokstate.base \in Int /\ tokstate.value \in Int
           /\ OutputFits /\ Here \in Byte
           /\ pos \in Nat /\ fed \in Nat /\ pos + 1 <= fed
  <1>1. /\ place = "parse" /\ tokstate.id \in ids /\ Fed(1) /\ InBounds
        /\ tokstate.id # "ParsingKey"
    BY DEF Parsing, ScannerInv, ParseIds
  <1>2. tokstate \in TokState /\ Len(tokstate.buf) = tokstate.pos /\ OutputFits
    BY <1>1 DEF InBounds, TokenFits
  <1>3. Here \in Byte /\ pos \in Nat /\ fed \in Nat /\ pos + 1 <= fed
    BY <1>1, HereIsThere DEF InBounds, InputFits, Byte
  <1>. QED
    BY <1>1, <1>2, <1>3 DEF TokState

(* The token is read further, and nothing is pushed. *)
LEMMA GoesOnward ==
    ASSUME ScannerInv, place = "parse", Fed(1), NEW t \in TokState, NEW n \in {0, 1}, Goes(t, n),
           t.id \in ParseIds, Len(t.buf) = t.pos,
           t.id \notin {"ParsingNamedEntity", "ParsingNumericBaseEntity"} => t.pos = 0,
           t.id = "ParsingNamedEntity" => t.pos <= 15
    PROVE  GoesOn
  <1>1. /\ tokstate' = t /\ pos' = pos + n
        /\ UNCHANGED <<place, state, out, item>>
    BY DEF Goes
  <1>2. pos' \in pos .. fed
    BY <1>1 DEF ScannerInv, InBounds, InputFits, Fed
  <1>3. OutputFits'
    BY <1>1 DEF ScannerInv, InBounds, OutputFits
  <1>4. TokenFits'
    BY <1>1 DEF TokenFits, ParseIds
  <1>. QED
    BY <1>1, <1>2, <1>3, <1>4 DEF GoesOn

(* A byte more in tokstate.buf. *)
With(t, c) == [t EXCEPT !.pos = @ + 1, !.buf = Append(@, c)]

LEMMA WithFits ==
    ASSUME NEW t \in TokState, t.pos < 16, Len(t.buf) = t.pos, NEW c \in Byte
    PROVE  /\ With(t, c) \in TokState /\ With(t, c).id = t.id
           /\ With(t, c).pos = t.pos + 1
           /\ Len(With(t, c).buf) = With(t, c).pos
           /\ With(t, c).base = t.base /\ With(t, c).value = t.value
  <1>. DEFINE b == Append(t.buf, c)
  <1>1. t.buf \in Seq(Byte) /\ t.pos \in 0 .. 16
    BY DEF TokState
  <1>2. b \in Seq(Byte) /\ Len(b) = t.pos + 1
    BY <1>1, AppendProperties
  <1>. DEFINE n == t.pos + 1
  <1>3. With(t, c) = [t EXCEPT !.pos = n, !.buf = b]
    BY DEF With
  <1>. HIDE DEF b, n
  <1>4. n = t.pos + 1 /\ n \in 0 .. 16
    <2>1. \A m \in 0 .. 16 : m < 16 => m + 1 \in 0 .. 16
      OBVIOUS
    <2>. QED
      BY <1>1, <2>1, Zenon DEF n
  <1>5. With(t, c) \in TokState
    BY <1>2, <1>3, <1>4 DEF TokState
  <1>6. /\ With(t, c).id = t.id /\ With(t, c).pos = n /\ With(t, c).buf = b
        /\ With(t, c).base = t.base /\ With(t, c).value = t.value
    BY <1>3 DEF TokState
  <1>. QED
    BY <1>2, <1>4, <1>5, <1>6

LEMMA Pair ==
    ASSUME NEW S, NEW x \in S, NEW y \in S
    PROVE  <<x>> \in Seq(S) /\ Len(<<x>>) = 1 /\ <<x, y>> \in Seq(S) /\ Len(<<x, y>>) = 2
  OBVIOUS

LEMMA FallbackPrints ==
    ASSUME NEW t \in TokState
    PROVE  (\E T : Fallback(t) \in Seq(T)) /\ Fallback(t) # <<>>
  <1>1. \E T : t.buf \in Seq(T)
    BY DEF TokState
  <1>2. ASSUME NEW p, \E S : p \in Seq(S), Len(p) > 0
        PROVE  (\E T : p \o t.buf \in Seq(T)) /\ p \o t.buf # <<>>
    <2>1. /\ \E T : p \o t.buf \in Seq(T)
          /\ Len(p \o t.buf) = Len(p) + Len(t.buf) /\ Len(p) \in Nat /\ Len(t.buf) \in Nat
      BY <1>1, <1>2, Longer
    <2>2. Len(<<>>) = 0
      BY EmptySeq
    <2>. QED
      BY <1>2, <2>1, <2>2
  <1>. DEFINE Both == {"&", "#"}
  <1>3. /\ <<"&">> \in Seq(Both) /\ Len(<<"&">>) > 0
        /\ <<"&", "#">> \in Seq(Both) /\ Len(<<"&", "#">>) > 0
    BY Pair
  <1>. HIDE DEF Both
  <1>4. (\E T : <<"&">> \o t.buf \in Seq(T)) /\ <<"&">> \o t.buf # <<>>
    BY <1>2, <1>3
  <1>5. (\E T : <<"&", "#">> \o t.buf \in Seq(T)) /\ <<"&", "#">> \o t.buf # <<>>
    BY <1>2, <1>3
  <1>. QED
    BY <1>4, <1>5 DEF Fallback

(* One character, whichever. *)
LEMMA OnePrints == ASSUME NEW c PROVE (\E T : <<c>> \in Seq(T)) /\ <<c>> # <<>>
  <1>1. <<c>> \in Seq({c})
    OBVIOUS
  <1>. QED
    BY <1>1

LEMMA ParseTokenStep ==
    ASSUME ScannerInv, ParseToken
    PROVE  GoesOn \/ IsOver \/ IsWrong
  <1>. DEFINE c == Control(Here)
  <1>1. /\ place = "parse" /\ tokstate \in TokState /\ tokstate.id = "ParsingToken"
        /\ tokstate.pos = 0 /\ Len(tokstate.buf) = 0
        /\ OutputFits /\ pos \in Nat /\ fed \in Nat /\ pos + 1 <= fed /\ Fed(1)
    <2>1. Parsing({"ParsingToken"}) /\ Fed(1)
      BY DEF ParseToken, Parsing
    <2>2. {"ParsingToken"} \in SUBSET ParseIds
      BY DEF ParseIds
    <2>3. TokenFits
      BY DEF ScannerInv, InBounds
    <2>4. /\ place = "parse" /\ tokstate \in TokState /\ tokstate.id \in {"ParsingToken"}
          /\ tokstate.pos \in 0 .. 16 /\ Len(tokstate.buf) = tokstate.pos
          /\ OutputFits /\ pos \in Nat /\ fed \in Nat /\ pos + 1 <= fed
      BY <2>1, <2>2, InParse
    <2>. QED
      BY <2>1, <2>3, <2>4 DEF TokenFits
  <1>2. CASE c \in Belongs(Sd.op) /\ Fits(out)
    <2>1. /\ Fed(Size(Here))
          /\ out' = out \o SubSeq(Bytes, pos + 1, pos + Size(Here))
          /\ pos' = pos + Size(Here)
          /\ UNCHANGED <<place, state, tokstate, item>>
      BY <1>2 DEF ParseToken
    <2>2. Size(Here) \in {1, 2}
      BY DEF Size
    <2>3. pos + Size(Here) <= fed
      BY <2>1 DEF Fed
    <2>4. pos' \in pos .. fed
      BY <1>1, <2>1, <2>2, <2>3
    <2>5. OutputFits'
      <3>. DEFINE m == pos + 1
                  n == pos + Size(Here)
      <3>1. Bytes \in Seq(STRING) /\ Len(Bytes) \in Nat /\ fed <= Len(Bytes)
        BY ScannerAssumption, LenProperties DEF ScannerInv, InBounds, InputFits, Bytes
      <3>2. m \in Int /\ n \in Int /\ m <= n /\ n - m + 1 = Size(Here) /\ m .. n \subseteq 1 .. Len(Bytes)
        BY <1>1, <2>2, <2>3, <3>1
      <3>. HIDE DEF m, n
      <3>3. \A i \in m .. n : Bytes[i] \in STRING
        BY <3>1, <3>2, ElementOfSeq
      <3>4. SubSeq(Bytes, m, n) \in Seq(STRING) /\ Len(SubSeq(Bytes, m, n)) = n - m + 1
        BY <3>2, <3>3, SubSeqProperties
      <3>. DEFINE w == SubSeq(Bytes, m, n)
      <3>5. w \in Seq(STRING) /\ Len(w) = Size(Here) /\ out' = out \o w
        BY <2>1, <3>2, <3>4 DEF m, n
      <3>. HIDE DEF w
      <3>6. /\ \E S : out \o w \in Seq(S)
            /\ Len(out \o w) = Len(out) + Len(w) /\ Len(out) \in Nat
        BY <1>1, <3>5, Longer DEF OutputFits
      <3>7. Len(out) + 8 <= OutSize
        BY <1>2 DEF Fits
      <3>. QED
        BY <2>2, <3>5, <3>6, <3>7, ScannerAssumption DEF OutputFits
    <2>6. tokstate' \in TokState /\ tokstate'.id \in ParseIds /\ TokenFits'
      BY <1>1, <2>1 DEF TokenFits, ParseIds
    <2>. QED
      BY <1>1, <2>1, <2>4, <2>5, <2>6 DEF GoesOn
  <1>3. CASE c \in Belongs(Sd.op) /\ ~ Fits(out)
    BY <1>3 DEF ParseToken, Fails, Returns, IsWrong
  <1>4. CASE c \notin Belongs(Sd.op) /\ c = "Amp"
    <2>. DEFINE t == [tokstate EXCEPT !.id = "ParsingEntity"]
    <2>1. Goes(t, 1)
      BY <1>4 DEF ParseToken
    <2>2. t \in TokState /\ t.id = "ParsingEntity" /\ t.pos = 0 /\ Len(t.buf) = 0
      BY <1>1 DEF TokState, ParseIds
    <2>. HIDE DEF t
    <2>3. t.id \in ParseIds
      BY <2>2 DEF ParseIds
    <2>. QED
      BY <1>1, <2>1, <2>2, <2>3, GoesOnward
  <1>5. CASE c \notin Belongs(Sd.op) /\ c # "Amp"
    BY <1>1, <1>5 DEF ParseToken, Fails, Returns, IsWrong, IsOver
  <1>. QED
    BY <1>2, <1>3, <1>4, <1>5

LEMMA ParseEntityStep ==
    ASSUME ScannerInv, ParseEntity \/ ParseNumericEntity
    PROVE  GoesOn
  <1>1. PICK ids \in {{"ParsingEntity"}, {"ParsingNumericEntity"}} : Parsing(ids)
    BY DEF ParseEntity, ParseNumericEntity
  <1>2. ids \in SUBSET ParseIds /\ Fed(1) /\ TokenFits
    BY <1>1 DEF ParseIds, Parsing, ScannerInv, InBounds
  <1>3. /\ place = "parse" /\ tokstate \in TokState /\ tokstate.id \in ids
        /\ tokstate.pos \in 0 .. 16 /\ Len(tokstate.buf) = tokstate.pos
    BY <1>1, <1>2, InParse
  <1>4. tokstate.pos = 0
    BY <1>2, <1>3 DEF TokenFits
  <1>. DEFINE Becomes(id, base) == [tokstate EXCEPT !.id = id, !.base = base]
  <1>5. ASSUME NEW id \in {"ParsingNamedEntity", "ParsingNumericEntity", "ParsingNumericBaseEntity"},
               NEW base \in Int, NEW n \in {0, 1}, Goes(Becomes(id, base), n)
        PROVE  GoesOn
    <2>. DEFINE t == Becomes(id, base)
    <2>1. /\ t \in TokState /\ t.id = id /\ t.pos = 0 /\ Len(t.buf) = 0
      BY <1>3, <1>4 DEF TokState, ParseIds
    <2>2. Goes(t, n)
      BY <1>5
    <2>. HIDE DEF t
    <2>3. t.id \in ParseIds
      BY <2>1 DEF ParseIds
    <2>. QED
      BY <1>2, <1>3, <2>1, <2>2, <2>3, GoesOnward
  <1>6. CASE ParseEntity
    <2>1. \A id : [tokstate EXCEPT !.id = id] = Becomes(id, tokstate.base)
      BY <1>3 DEF TokState
    <2>2. tokstate.base \in Int
      BY <1>3 DEF TokState
    <2>. HIDE DEF Becomes
    <2>3. \/ Goes(Becomes("ParsingNumericEntity", tokstate.base), 1)
          \/ Goes(Becomes("ParsingNamedEntity", tokstate.base), 0)
      BY <1>6, <2>1 DEF ParseEntity
    <2>. QED
      BY <1>5, <2>2, <2>3
  <1>7. CASE ParseNumericEntity
    <2>1. \/ Goes(Becomes("ParsingNumericBaseEntity", 16), 1)
          \/ Goes(Becomes("ParsingNumericBaseEntity", 10), 0)
      BY <1>7 DEF ParseNumericEntity
    <2>. HIDE DEF Becomes
    <2>. QED
      BY <1>5, <2>1
  <1>. QED
    BY <1>6, <1>7

LEMMA ParseNumericBaseEntityStep ==
    ASSUME ScannerInv, ParseNumericBaseEntity
    PROVE  GoesOn \/ IsWrong
  <1>. DEFINE t == With(tokstate, Here)
  <1>1. /\ Parsing({"ParsingNumericBaseEntity"}) /\ Fed(1)
        /\ {"ParsingNumericBaseEntity"} \in SUBSET ParseIds
    BY DEF ParseNumericBaseEntity, Parsing, ParseIds
  <1>2. /\ place = "parse" /\ tokstate \in TokState /\ tokstate.id = "ParsingNumericBaseEntity"
        /\ tokstate.pos \in 0 .. 16 /\ Len(tokstate.buf) = tokstate.pos /\ Here \in Byte
    BY <1>1, InParse
  <1>3. tokstate.pos < 16 =>
           /\ t \in TokState /\ t.id = tokstate.id /\ t.pos = tokstate.pos + 1
           /\ Len(t.buf) = t.pos /\ t.base \in Int /\ t.value \in Int
    BY <1>2, WithFits DEF TokState
  <1>4. CASE tokstate.pos >= 16
    <2>1. Pushes(Fallback(tokstate), InToken, 0)
      BY <1>4 DEF ParseNumericBaseEntity
    <2>. QED
      BY <1>1, <1>2, <2>1, FallbackPrints, PushesFit
  <1>5. CASE tokstate.pos < 16
    <2>1. \/ Fails("EntityEncodesCntrlChar") /\ tokstate' = NoToken
          \/ Pushes(Character(t.value), InToken, 1)
          \/ Pushes(Fallback(t), InToken, 0)
          \/ Goes([t EXCEPT !.value = @ * t.base + Hex(Here)], 1)
      <3>1. ~ (tokstate.pos >= 16)
        BY <1>2, <1>5
      <3>. QED
        BY <3>1, Zenon DEF ParseNumericBaseEntity, With
    <2>. HIDE DEF t
    <2>2. CASE Fails("EntityEncodesCntrlChar") /\ tokstate' = NoToken
      BY <2>2 DEF Fails, Returns, IsWrong
    <2>3. CASE Pushes(Character(t.value), InToken, 1)
      <3>1. (\E T : Character(t.value) \in Seq(T)) /\ Character(t.value) # <<>>
        BY OnePrints DEF Character
      <3>. QED
        BY <1>1, <1>2, <2>3, <3>1, PushesFit
    <2>4. CASE Pushes(Fallback(t), InToken, 0)
      BY <1>1, <1>2, <1>3, <1>5, <2>4, FallbackPrints, PushesFit
    <2>5. CASE Goes([t EXCEPT !.value = @ * t.base + Hex(Here)], 1)
      <3>. DEFINE u == [t EXCEPT !.value = @ * t.base + Hex(Here)]
      <3>1. t.value * t.base + Hex(Here) \in Int
        BY <1>3, <1>5, HexType
      <3>2. /\ u \in TokState /\ u.id = t.id /\ u.pos = t.pos /\ u.buf = t.buf
        BY <1>3, <1>5, <3>1 DEF TokState
      <3>3. Goes(u, 1)
        BY <2>5
      <3>. HIDE DEF u
      <3>4. u.id = "ParsingNumericBaseEntity" /\ u.id \in ParseIds /\ Len(u.buf) = u.pos
        BY <1>2, <1>3, <1>5, <3>2 DEF ParseIds
      <3>. QED
        BY <1>1, <1>2, <3>2, <3>3, <3>4, GoesOnward
    <2>. QED
      BY <2>1, <2>2, <2>3, <2>4, <2>5
  <1>. QED
    BY <1>2, <1>4, <1>5

LEMMA ParseNamedEntityStep ==
    ASSUME ScannerInv, ParseNamedEntity
    PROVE  GoesOn \/ IsWrong
  <1>. DEFINE t == With(tokstate, Here)
  <1>1. /\ Parsing({"ParsingNamedEntity"}) /\ Fed(1)
        /\ {"ParsingNamedEntity"} \in SUBSET ParseIds
    BY DEF ParseNamedEntity, Parsing, ParseIds
  <1>2. /\ place = "parse" /\ tokstate \in TokState /\ tokstate.id = "ParsingNamedEntity"
        /\ tokstate.pos \in 0 .. 16 /\ Len(tokstate.buf) = tokstate.pos /\ Here \in Byte
    BY <1>1, InParse
  <1>3. CASE tokstate.pos < 15 /\ Goes(t, 1)
    <2>1. /\ t \in TokState /\ t.id = "ParsingNamedEntity" /\ t.pos = tokstate.pos + 1
          /\ Len(t.buf) = t.pos
      BY <1>2, <1>3, WithFits
    <2>2. Goes(t, 1)
      BY <1>3
    <2>. HIDE DEF t
    <2>3. t.id \in ParseIds /\ t.pos <= 15
      BY <1>2, <1>3, <2>1 DEF ParseIds
    <2>. QED
      BY <1>1, <1>2, <2>1, <2>2, <2>3, GoesOnward
  <1>4. CASE Pushes(Fallback(tokstate), InToken, 0)
    BY <1>1, <1>2, <1>4, FallbackPrints, PushesFit
  <1>5. CASE Pushes(<<Predefined[tokstate.buf]>>, InToken, 1)
    BY <1>1, <1>2, <1>5, OnePrints, PushesFit
  <1>6. CASE Fails("UndefinedCharacterEntity") /\ tokstate' = NoToken
    BY <1>6 DEF Fails, Returns, IsWrong
  <1>. QED
    BY <1>3, <1>4, <1>5, <1>6, Zenon DEF ParseNamedEntity, With

-------------------------------------------------------------------------------
LEMMA SkipTokenStep ==
    ASSUME ScannerInv, SkipToken, UNCHANGED select
    PROVE  ScannerInv'
  <1>1. /\ place = "pass" /\ Fed(1) /\ InBounds
        /\ context.key = NoKey /\ state # "EXIT" /\ out = <<>>
        /\ tokstate.id # "ParsingKey" /\ tokstate.id \notin ParseIds
        /\ Begin(state, Mask) = "pass"
    BY DEF SkipToken, ScannerInv, Inside
  <1>2. /\ UNCHANGED <<state, tokstate, out, item, doc, fed, lists, context>>
        /\ \/ pos' = pos + 1 /\ UNCHANGED place
           \/ place' = "next" /\ UNCHANGED pos
    BY DEF SkipToken, input, select
  <1>3. InBounds'
    BY <1>1, <1>2 DEF InBounds, TokenFits, OutputFits, InputFits, Fed, Bytes, Sd
  <1>4. Inside'
    BY <1>1, <1>2 DEF Inside, Mask, Fed
  <1>5. Outside'
    BY <1>1, <1>2 DEF Outside, Mask
  <1>. QED
    BY <1>3, <1>4, <1>5 DEF ScannerInv

LEMMA ExpectStrStep ==
    ASSUME ScannerInv, ExpectStr, UNCHANGED select
    PROVE  ScannerInv'
  <1>. DEFINE key == Keyword(Sd.arg)
  <1>1. /\ place = "expect" /\ Fed(1) /\ InBounds
        /\ context.key = NoKey /\ state # "EXIT" /\ out = <<>>
        /\ tokstate.id = "ParsingKey"
        /\ Begin(state, Mask) = "expect"
    BY DEF ExpectStr, ScannerInv, Inside
  <1>2. Len(key) \in {3, 5} /\ tokstate \in TokState /\ tokstate.pos \in 0 .. 16
        /\ tokstate.pos < Len(key) /\ pos \in Nat /\ fed \in Nat /\ pos + 1 <= fed
    BY <1>1, KeywordLength DEF InBounds, InputFits, TokenFits, TokState, Fed
  <1>3. UNCHANGED <<state, out, doc, fed, lists, context>>
    BY DEF ExpectStr, Fails, Returns, input, select
  <1>4. CASE /\ tokstate' = NoToken /\ place' = "next" /\ pos' = pos + 1
    <2>1. InBounds'
      BY <1>1, <1>2, <1>3, <1>4, NoTokenFits
      DEF InBounds, TokenFits, OutputFits, InputFits, Bytes, Sd
    <2>2. Inside' /\ Outside'
      BY <1>1, <1>3, <1>4, NoTokenFits DEF Inside, Outside, Mask, ParseIds
    <2>. QED
      BY <2>1, <2>2 DEF ScannerInv
  <1>5. CASE /\ tokstate' = [tokstate EXCEPT !.pos = @ + 1] /\ UNCHANGED place
             /\ tokstate.pos + 1 # Len(key) /\ pos' = pos + 1
    <2>1. /\ tokstate' \in TokState /\ tokstate'.id = "ParsingKey"
          /\ tokstate'.pos < Len(key)
      <3>. HIDE DEF key
      <3>. DEFINE n == Len(key)
                  m == tokstate.pos
      <3>1. m + 1 < n /\ m + 1 \in 0 .. 16
        <4>1. n \in {3, 5} /\ m \in 0 .. 16 /\ m < n /\ m + 1 # n
          BY <1>2, <1>5 DEF key
        <4>. HIDE DEF n, m
        <4>. QED
          BY <4>1
      <3>. QED
        BY <1>1, <1>2, <1>5, <3>1 DEF TokState
    <2>2. key' = key
      BY <1>3 DEF Sd
    <2>. HIDE DEF key
    <2>3. TokenFits'
      BY <2>1, <2>2 DEF TokenFits, key
    <2>4. InBounds'
      BY <1>1, <1>2, <1>3, <1>5, <2>1, <2>3 DEF InBounds, OutputFits, InputFits, Bytes
    <2>5. Inside' /\ Outside'
      BY <1>1, <1>3, <1>5, <2>1 DEF Inside, Outside, Mask, ParseIds
    <2>. QED
      BY <2>4, <2>5 DEF ScannerInv
  <1>6. CASE /\ tokstate' = NoToken /\ place' = "ready" /\ item'.type = "ErrorOccurred"
             /\ UNCHANGED pos
    <2>1. InBounds'
      BY <1>1, <1>2, <1>3, <1>6, NoTokenFits
      DEF InBounds, TokenFits, OutputFits, InputFits, Bytes, Sd
    <2>2. Inside' /\ Outside'
      BY <1>1, <1>3, <1>6, NoTokenFits DEF Inside, Outside, Mask, ParseIds
    <2>. QED
      BY <2>1, <2>2 DEF ScannerInv
  <1>. QED
    BY <1>4, <1>5, <1>6 DEF ExpectStr, Fails, Returns

(* A state is entered with no token, or with the one that was cut. *)
LEMMA EntersFits ==
    ASSUME InBounds, NEW s, s # "EXIT", Enters(s, Mask), UNCHANGED <<doc, fed>>,
           OutputFits', UNCHANGED lists, UNCHANGED context, context.key = NoKey,
           pos' \in pos .. fed,
           tokstate.id = "ParsingKey" => Begin(s, Mask) = "expect" /\ s = state,
           tokstate.id \in ParseIds => Begin(s, Mask) = "parse",
           Begin(s, Mask) # "parse" => out' = <<>>
    PROVE  ScannerInv'
  <1>1. /\ state' = s /\ place' = Begin(s, Mask)
        /\ place' \in {"next", "expect", "parse", "pass"}
    BY BeginIs DEF Enters
  <1>2. /\ tokstate \in TokState /\ TokenFits
        /\ tokstate.id \in {"Start", "ParsingKey"} \cup ParseIds
    BY DEF InBounds, TokState
  <1>3. /\ tokstate' \in TokState /\ TokenFits'
        /\ place' = "expect" <=> tokstate'.id = "ParsingKey"
        /\ place' = "parse" <=> tokstate'.id \in ParseIds
    <2>1. CASE Begin(s, Mask) = "expect"
      <3>1. tokstate' = [tokstate EXCEPT !.id = "ParsingKey"]
        BY <2>1 DEF Enters
      <3>2. tokstate.id \notin ParseIds
        BY <2>1
      <3>3. tokstate'.pos < Len(Keyword(Sd'.arg))
        <4>. DEFINE k == Keyword(Sd'.arg)
        <4>1. Len(k) \in {3, 5}
          BY KeywordLength
        <4>2. tokstate'.pos = tokstate.pos
          BY <1>2, <3>1 DEF TokState
        <4>3. CASE tokstate.id = "ParsingKey"
          <5>1. Sd' = Sd
            BY <1>1, <4>3 DEF Sd
          <5>. QED
            BY <1>2, <4>2, <4>3, <5>1 DEF TokenFits
        <4>4. CASE tokstate.id = "Start"
          <5>. HIDE DEF k
          <5>1. tokstate.pos = 0
            BY <1>2, <4>4 DEF TokenFits
          <5>2. tokstate'.pos < Len(k)
            <6>. DEFINE n == Len(k)
            <6>1. n \in {3, 5} /\ tokstate'.pos = 0
              BY <4>1, <4>2, <5>1
            <6>. HIDE DEF n
            <6>2. tokstate'.pos < n
              BY <6>1
            <6>. QED
              BY <6>2 DEF n
          <5>. QED
            BY <5>2 DEF k
        <4>. QED
          BY <1>2, <3>2, <4>3, <4>4
      <3>4. tokstate' \in TokState /\ tokstate'.id = "ParsingKey"
        BY <1>2, <3>1 DEF TokState
      <3>5. TokenFits'
        BY <3>3, <3>4 DEF TokenFits
      <3>. QED
        BY <1>1, <2>1, <3>4, <3>5 DEF ParseIds
    <2>2. CASE Begin(s, Mask) = "parse" /\ tokstate.id = "Start"
      <3>1. tokstate' = InToken
        BY <2>2 DEF Enters
      <3>2. TokenFits'
        BY <3>1, NoTokenFits DEF TokenFits
      <3>. QED
        BY <1>1, <2>2, <3>1, <3>2, NoTokenFits DEF ParseIds
    <2>3. CASE Begin(s, Mask) # "expect" /\ ~ (Begin(s, Mask) = "parse" /\ tokstate.id = "Start")
      <3>1. tokstate' = tokstate
        BY <2>3 DEF Enters
      <3>2. tokstate.id # "ParsingKey"
        BY <2>3
      <3>3. TokenFits'
        BY <1>2, <3>1, <3>2 DEF TokenFits
      <3>. QED
        BY <1>1, <1>2, <2>3, <3>1, <3>2, <3>3
    <2>. QED
      BY <2>1, <2>2, <2>3
  <1>4. InBounds'
    <2>1. InputFits' /\ doc' \in DOMAIN Document
      BY DEF InBounds, InputFits, Bytes
    <2>. QED
      BY <1>3, <2>1 DEF InBounds
  <1>5. Inside' /\ Outside'
    BY <1>1, <1>3 DEF Inside, Outside, Mask
  <1>. QED
    BY <1>4, <1>5 DEF ScannerInv

LEMMA TransitionStep ==
    ASSUME ScannerInv, Transition(Mask), UNCHANGED select
    PROVE  ScannerInv'
  <1>. DEFINE c == Control(Here)
              step == c \in DOMAIN Sd.next
              s == IF step THEN Sd.next[c] ELSE Sd.fallback
              ends == Sd.op \notin {"none", "Expect"}
  <1>1. /\ place = "next" /\ Fed(1) /\ InBounds
        /\ context.key = NoKey /\ state # "EXIT"
        /\ tokstate.id # "ParsingKey" /\ tokstate.id \notin ParseIds
        /\ Begin(state, Mask) # "parse" => out = <<>>
    BY DEF Transition, ScannerInv, Inside
  <1>2. UNCHANGED <<doc, fed, out, lists, context>>
    <2>1. UNCHANGED out
      BY DEF Transition, Fails
    <2>2. UNCHANGED <<doc, fed>>
      BY DEF Transition, input
    <2>. QED
      BY <2>1, <2>2 DEF select
  <1>3. pos' \in pos .. fed /\ pos \in Nat /\ fed \in Nat
    <2>1. pos' = pos \/ pos' = pos + 1
      BY DEF Transition, Fails
    <2>2. pos \in Nat /\ fed \in Nat /\ pos + 1 <= fed
      BY <1>1 DEF Fed, InBounds, InputFits
    <2>. QED
      BY <2>1, <2>2
  <1>4. CASE s # "" /\ ~ ends /\ s # "EXIT"
    <2>1. Enters(s, Mask)
      BY <1>4 DEF Transition
    <2>2. out' = <<>> /\ OutputFits'
      BY <1>1, <1>2, <1>4, BeginIs DEF TokenDefs, Sd, InBounds, OutputFits
    <2>. HIDE DEF s
    <2>. QED
      BY <1>1, <1>2, <1>3, <1>4, <2>1, <2>2, EntersFits
  <1>5. CASE s = "" \/ ends \/ s = "EXIT"
    <2>1. place' = "ready" /\ UNCHANGED tokstate
      BY <1>5 DEF Transition, Fails, Returns
    <2>2. InBounds'
      BY <1>1, <1>2, <1>3, <2>1 DEF InBounds, TokenFits, OutputFits, InputFits, Bytes
    <2>3. Inside'
      BY <2>1 DEF Inside
    <2>4. tokstate.id = "Start"
      BY <1>1 DEF InBounds, TokState
    <2>5. Outside'
      BY <1>1, <1>2, <2>1, <2>4 DEF Outside, ParseIds
    <2>. QED
      BY <2>2, <2>3, <2>5 DEF ScannerInv
  <1>. QED
    BY <1>4, <1>5

(* Where the next call will go on: where nextItem() is, or what it makes of *)
(* the members when it is called.                                          *)
Resume ==
    IF place = "ready"
    THEN <<pos, Begin(state, Mask), state,
           CASE Begin(state, Mask) = "expect" -> [tokstate EXCEPT !.id = "ParsingKey"]
             [] Begin(state, Mask) = "parse" /\ tokstate.id = "Start" -> InToken
             [] OTHER -> tokstate,
           IF tokstate.id = "Start" THEN <<>> ELSE out>>
    ELSE <<pos, place, state, tokstate, out>>

(* The end of a block behind a keyword, and one in a character reference   *)
(* whose pos++ came before.                                                *)
KeywordIsRead == place = "next" /\ Sd.op = "Expect"
Counts        == /\ tokstate.id = "ParsingNumericBaseEntity"
                 /\ tokstate' = With(tokstate, "old")

LEMMA EndOfBlockStep ==
    ASSUME ScannerInv, EndOfBlock, UNCHANGED select
    PROVE  /\ ScannerInv'
           /\ ~ KeywordIsRead /\ ~ Counts => UNCHANGED Resume
  <1>1. /\ place # "ready" /\ place' = "ready" /\ item'.type = "EndOfBuffer"
        /\ UNCHANGED <<pos, state, out, doc, fed, lists, context>>
    BY DEF EndOfBlock, Returns, input, select
  <1>2. /\ InBounds /\ context.key = NoKey /\ state # "EXIT"
        /\ place \in {Begin(state, Mask), "next"}
        /\ place = "expect" <=> tokstate.id = "ParsingKey"
        /\ place = "parse" <=> tokstate.id \in ParseIds
        /\ place = "next" /\ Begin(state, Mask) \in {"parse", "pass"} => Fed(1)
        /\ Begin(state, Mask) # "parse" => out = <<>>
    BY <1>1 DEF ScannerInv, Inside
  <1>3. tokstate \in TokState /\ TokenFits
    BY <1>2 DEF InBounds
  <1>4. \/ tokstate' = tokstate
        \/ tokstate.id = "ParsingNumericBaseEntity" /\ tokstate.pos < 16
           /\ tokstate' = With(tokstate, "old")
    BY DEF EndOfBlock, With
  <1>5. /\ tokstate' \in TokState /\ TokenFits' /\ tokstate'.id = tokstate.id
    <2>1. CASE tokstate' = tokstate
      BY <1>1, <1>3, <2>1 DEF TokenFits, Sd
    <2>2. CASE tokstate.id = "ParsingNumericBaseEntity" /\ tokstate.pos < 16
               /\ tokstate' = With(tokstate, "old")
      <3>1. Len(tokstate.buf) = tokstate.pos
        BY <1>3, <2>2 DEF TokenFits
      <3>2. "old" \in Byte
        BY DEF Byte
      <3>3. /\ tokstate' \in TokState /\ tokstate'.id = tokstate.id
            /\ Len(tokstate'.buf) = tokstate'.pos
        BY <1>3, <2>2, <3>1, <3>2, WithFits
      <3>. QED
        BY <2>2, <3>3 DEF TokenFits
    <2>. QED
      BY <1>4, <2>1, <2>2
  <1>6. InBounds'
    BY <1>1, <1>2, <1>5 DEF InBounds, OutputFits, InputFits, Bytes
  <1>7. Inside'
    BY <1>1 DEF Inside
  <1>8. Outside'
    BY <1>1, <1>2, <1>5 DEF Outside, Mask, ParseIds
  <1>9. ASSUME ~ KeywordIsRead, ~ Counts
        PROVE  UNCHANGED Resume
    <2>1. tokstate' = tokstate
      BY <1>4, <1>9 DEF Counts
    <2>. DEFINE b == Begin(state, Mask)
    <2>2. b' = b
      BY <1>1 DEF Mask
    <2>3. place = "next" => b = "next" /\ ~ (tokstate.id = "ParsingKey")
      <3>1. place # "parse" => ~ Parsing({"ParsingToken"})
        BY DEF Parsing
      <3>2. place = "next" => ~ Fed(1)
        BY <3>1 DEF EndOfBlock
      <3>. QED
        BY <1>2, <1>9, <3>2, BeginIs DEF KeywordIsRead, Sd
    <2>4. place = b
      BY <1>2, <2>3
    <2>. HIDE DEF b
    <2>5. b = "expect" => [tokstate EXCEPT !.id = "ParsingKey"] = tokstate
      BY <1>2, <1>3, <2>4 DEF TokState
    <2>6. tokstate.id = "Start" => b # "parse" /\ b # "expect"
      BY <1>2, <2>4 DEF ParseIds
    <2>7. tokstate.id = "Start" => out = <<>>
      BY <1>2, <2>6 DEF b
    <2>. QED
      BY <1>1, <2>1, <2>2, <2>4, <2>5, <2>6, <2>7 DEF Resume, b
  <1>. QED
    BY <1>6, <1>7, <1>8, <1>9 DEF ScannerInv

-------------------------------------------------------------------------------
LEMMA ScanStep == ScannerInv /\ Scan => ScannerInv'
  <1>. SUFFICES ASSUME ScannerInv, Scan
                PROVE  ScannerInv'
    OBVIOUS
  <1>1. UNCHANGED select /\ Runs(Mask)
    BY DEF Scan, Mask
  <1>2. CASE \/ ParseToken \/ ParseEntity \/ ParseNumericEntity \/ ParseNumericBaseEntity
             \/ ParseNamedEntity
    <2>1. place = "parse" /\ Scanning
      BY <1>1, <1>2 DEF ParseToken, ParseEntity, ParseNumericEntity,
         ParseNumericBaseEntity, ParseNamedEntity, Parsing, Scanning, input
    <2>2. GoesOn \/ IsOver \/ IsWrong
      BY <1>2, ParseTokenStep, ParseEntityStep, ParseNumericBaseEntityStep, ParseNamedEntityStep
    <2>. QED
      BY <2>1, <2>2, TokenStep
  <1>3. CASE SkipToken
    BY <1>1, <1>3, SkipTokenStep
  <1>4. CASE ExpectStr
    BY <1>1, <1>4, ExpectStrStep
  <1>5. CASE Transition(Mask)
    BY <1>1, <1>5, TransitionStep
  <1>6. CASE EndOfBlock
    BY <1>1, <1>6, EndOfBlockStep
  <1>. QED
    BY <1>1, <1>2, <1>3, <1>4, <1>5, <1>6 DEF Runs

(* nextItem() is called, and takes up what it finds. *)
LEMMA NextItemStep ==
    ASSUME ScannerInv, NextItem
    PROVE  /\ ScannerInv'
           /\ state # "EXIT" => UNCHANGED Resume
  <1>1. /\ place = "ready" /\ item = NoItem /\ context.key = NoKey /\ Call(Mask)
        /\ UNCHANGED <<pos, doc, fed, lists, context>>
    BY DEF NextItem, Call, Mask, select, input
  <1>2. /\ InBounds
        /\ tokstate.id = "ParsingKey" => Begin(state, Mask) = "expect" /\ out = <<>>
        /\ tokstate.id \in ParseIds => Begin(state, Mask) = "parse"
    BY <1>1 DEF ScannerInv, Outside, NoItem
  <1>3. tokstate.id \in {"Start", "ParsingKey"} \cup ParseIds
    BY <1>2 DEF InBounds, TokState
  <1>4. out' = IF tokstate.id = "Start" THEN <<>> ELSE out
    BY <1>1 DEF Call
  <1>5. (\E S : out' \in Seq(S)) /\ OutputFits'
    <2>1. (\E S : <<>> \in Seq(S)) /\ Len(<<>>) = 0
      BY EmptySeq
    <2>. QED
      BY <1>2, <1>4, <2>1, ScannerAssumption DEF InBounds, OutputFits
  <1>6. CASE state = "EXIT"
    <2>1. place' = "ready" /\ item'.type = "Exit" /\ UNCHANGED <<state, tokstate>>
      BY <1>1, <1>6 DEF Call, Returns
    <2>2. InBounds'
      BY <1>1, <1>2, <1>5, <2>1 DEF InBounds, TokenFits, InputFits, Bytes, Sd
    <2>3. Inside' /\ Outside'
      BY <1>1, <2>1 DEF Inside, Outside
    <2>. QED
      BY <1>6, <2>2, <2>3 DEF ScannerInv
  <1>7. CASE state # "EXIT"
    <2>1. Enters(state, Mask)
      BY <1>1, <1>7 DEF Call
    <2>2. place' # "ready"
      BY <2>1, BeginIs DEF Enters
    <2>3. UNCHANGED Resume
      BY <1>1, <1>4, <2>1, <2>2 DEF Resume, Enters
    <2>4. Begin(state, Mask) # "parse" => out' = <<>>
      BY <1>2, <1>3, <1>4
    <2>5. pos' \in pos .. fed
      BY <1>1, <1>2 DEF InBounds, InputFits
    <2>6. ScannerInv'
      BY <1>1, <1>2, <1>5, <1>7, <2>1, <2>4, <2>5, EntersFits
    <2>. QED
      BY <2>3, <2>6
  <1>. QED
    BY <1>6, <1>7

(* A block is fed, and nothing but its end moves. *)
LEMMA FeedStep ==
    ASSUME ScannerInv, Feed
    PROVE  ScannerInv' /\ UNCHANGED Resume
  <1>1. /\ fed' \in fed + 1 .. Len(Bytes) /\ item.type = "EndOfBuffer" /\ item' = NoItem
        /\ UNCHANGED <<doc, pos, place, state, tokstate, out, lists, context>>
    BY DEF Feed, select
  <1>2. InBounds
    BY DEF ScannerInv
  <1>3. Bytes \in Seq(STRING) /\ Len(Bytes) \in Nat
    BY <1>2, ScannerAssumption, LenProperties DEF InBounds, Bytes
  <1>4. fed' \in Nat /\ fed <= fed' /\ fed' <= Len(Bytes)
    BY <1>1, <1>2, <1>3 DEF InBounds, InputFits
  <1>5. InBounds'
    BY <1>1, <1>2, <1>4 DEF InBounds, InputFits, OutputFits, TokenFits, Sd, Bytes
  <1>6. Inside'
    BY <1>1, <1>2, <1>4 DEF ScannerInv, Inside, Mask, Fed, InBounds, InputFits
  <1>7. Outside'
    BY <1>1 DEF ScannerInv, Outside, Mask, NoItem
  <1>8. UNCHANGED Resume
    BY <1>1 DEF Resume, Mask
  <1>. QED
    BY <1>5, <1>6, <1>7, <1>8 DEF ScannerInv

(* What the selection does, it does between two calls that left no token. *)
LEMMA SelectStep ==
    ASSUME ScannerInv,
           \/ Unexpected \/ TakeItem \/ End \/ Process
           \/ MatchToken \/ MatchFollow \/ PopTrigger \/ EndOfCandidates
    PROVE  ScannerInv'
  <1>1. UNCHANGED <<doc, fed, pos, place, state, tokstate, out>>
    <2>1. CASE Process \/ TakeItem
      BY <2>1 DEF Process, InitProcessElement, TakeItem, input
    <2>2. CASE End \/ Unexpected
      BY <2>2 DEF End, Unexpected, input, scan
    <2>3. CASE MatchToken \/ MatchFollow \/ PopTrigger \/ EndOfCandidates
      BY <2>3 DEF MatchToken, MatchFollow, PopTrigger, EndOfCandidates, Fetched, input, scan
    <2>. QED
      BY <2>1, <2>2, <2>3
  <1>2. InBounds'
    BY <1>1 DEF ScannerInv, InBounds, InputFits, OutputFits, TokenFits, Sd, Bytes
  <1>3. CASE End \/ Unexpected
    <2>1. UNCHANGED <<item, lists, context>>
      BY <1>3 DEF End, Unexpected, scan
    <2>. QED
      BY <1>1, <1>2, <2>1 DEF ScannerInv, Inside, Outside, Mask, Fed
  <1>4. CASE ~ End /\ ~ Unexpected
    <2>1. place = "ready" /\ tokstate.id = "Start"
      <3>1. CASE Process \/ TakeItem
        BY <3>1 DEF Process, InitProcessElement, TakeItem, ScannerInv, Outside
      <3>2. CASE MatchToken \/ MatchFollow \/ PopTrigger \/ EndOfCandidates
        <4>1. context.key # NoKey
          BY <3>2 DEF MatchToken, MatchFollow, PopTrigger, EndOfCandidates, Visits, Fetching
        <4>. QED
          BY <4>1 DEF ScannerInv, Outside
      <3>. QED
        BY <1>4, <3>1, <3>2
    <2>2. Inside' /\ Outside'
      BY <1>1, <2>1 DEF Inside, Outside, ParseIds
    <2>. QED
      BY <1>2, <2>2 DEF ScannerInv
  <1>. QED
    BY <1>3, <1>4

LEMMA ScannerInvStep == ScannerInv /\ [Next]_vars => ScannerInv'
  <1>. SUFFICES ASSUME ScannerInv, [Next]_vars
                PROVE  ScannerInv'
    OBVIOUS
  <1>1. CASE Feed
    BY <1>1, FeedStep
  <1>2. CASE NextItem
    BY <1>2, NextItemStep
  <1>3. CASE Scan
    BY <1>3, ScanStep
  <1>4. CASE \/ Unexpected \/ TakeItem \/ End \/ Process
             \/ MatchToken \/ MatchFollow \/ PopTrigger \/ EndOfCandidates
    BY <1>4, SelectStep
  <1>5. CASE UNCHANGED vars
    <2>1. UNCHANGED <<doc, fed, pos, place, state, tokstate, out, item, lists, context>>
      BY <1>5 DEF vars
    <2>2. InBounds'
      BY <2>1 DEF ScannerInv, InBounds, InputFits, OutputFits, TokenFits, Sd, Bytes
    <2>. QED
      BY <2>1, <2>2 DEF ScannerInv, Inside, Outside, Mask, Fed
  <1>. QED
    BY <1>1, <1>2, <1>3, <1>4, <1>5 DEF Next

LEMMA ScannerInvInit == Init => ScannerInv
  <1>. SUFFICES ASSUME Init
                PROVE  ScannerInv
    OBVIOUS
  <1>1. /\ doc \in DOMAIN Document /\ fed \in 0 .. Len(Bytes) /\ pos = 0 /\ place = "ready"
        /\ tokstate = NoToken /\ out = <<>> /\ context.key = NoKey
    BY DEF Init, ScannerInit
  <1>2. Bytes \in Seq(STRING) /\ Len(Bytes) \in Nat
    BY <1>1, ScannerAssumption, LenProperties DEF Bytes
  <1>3. (\E S : out \in Seq(S)) /\ Len(out) = 0
    BY <1>1, EmptySeq
  <1>4. InBounds
    BY <1>1, <1>2, <1>3, NoTokenFits, ScannerAssumption
    DEF InBounds, InputFits, OutputFits, TokenFits
  <1>5. Inside /\ Outside
    BY <1>1, NoTokenFits DEF Inside, Outside, ParseIds
  <1>. QED
    BY <1>4, <1>5 DEF ScannerInv

(* The inductive invariant behind the two theorems below.                  *)
THEOREM ScannerCorrect == Spec => []ScannerInv
  <1>. QED
    BY ScannerInvInit, ScannerInvStep, PTL DEF Spec

(* textwolf's scanner writes into arrays of a fixed size and reads from an *)
(* iterator that another part feeds.  Whatever the document, the mask and  *)
(* the blocks: the bytes of an entity stay in the sixteen of tokstate.buf, *)
(* a keyword is never read beyond its last letter, the output stays in its *)
(* buffer, and no byte is skipped that was not fed.                        *)
THEOREM ScannerStaysInBounds == Spec => []InBounds
  <1>1. ScannerInv => InBounds
    BY DEF ScannerInv
  <1>. QED
    BY <1>1, ScannerCorrect, PTL

(* The end of a block, the block that is fed then and the call that takes  *)
(* it up leave the scanner where it was; in between, nothing else happens, *)
(* unless a selection is ended there.                                      *)
(* The two exceptions are the code's: behind a keyword it is looked for a  *)
(* second time, and in a character reference a byte is counted twice.      *)
CutsDoNotMatter ==
    /\ \/ EndOfBlock /\ ~ KeywordIsRead /\ ~ Counts
       \/ Feed
       \/ NextItem /\ state # "EXIT"
       => UNCHANGED Resume
    /\ place = "ready" /\ context.key = NoKey /\ item.type \in {"None", "EndOfBuffer"}
       => Feed \/ NextItem \/ Unexpected

(* nextItem() is left by an exception at the end of a block, wherever it   *)
(* is, and called again: it goes on where it was, with the token and the   *)
(* output it had, for every document, every mask and every cut, when the   *)
(* caller takes the items himself; a selection lets no exception through.  *)
THEOREM ScannerResumes == Spec => [][CutsDoNotMatter]_vars
  <1>1. ScannerInv /\ [Next]_vars => [CutsDoNotMatter]_vars
    <2>. SUFFICES ASSUME ScannerInv, Next
                  PROVE  CutsDoNotMatter
      OBVIOUS
    <2>1. ASSUME EndOfBlock, ~ KeywordIsRead, ~ Counts
          PROVE  UNCHANGED Resume
      <3>1. place # "ready"
        BY <2>1 DEF EndOfBlock
      <3>2. context.key = NoKey /\ UNCHANGED fed
        BY <2>1, <3>1 DEF EndOfBlock, ScannerInv, Inside, input
      <3>3. fed \in Nat
        BY DEF ScannerInv, InBounds, InputFits
      <3>4. ~ Feed
        BY <3>2, <3>3 DEF Feed
      <3>5. ~ NextItem /\ ~ Unexpected /\ ~ TakeItem /\ ~ End /\ ~ Process
        BY <3>1 DEF NextItem, Call, Unexpected, TakeItem, End, Process, InitProcessElement
      <3>6. ~ MatchToken /\ ~ MatchFollow /\ ~ PopTrigger /\ ~ EndOfCandidates
        BY <3>2 DEF MatchToken, MatchFollow, PopTrigger, EndOfCandidates, Visits, Fetching
      <3>7. UNCHANGED select
        BY <3>4, <3>5, <3>6 DEF Next, Scan
      <3>. QED
        BY <2>1, <3>7, EndOfBlockStep
    <2>2. ASSUME Feed
          PROVE  UNCHANGED Resume
      BY <2>2, FeedStep
    <2>3. ASSUME NextItem, state # "EXIT"
          PROVE  UNCHANGED Resume
      BY <2>3, NextItemStep
    <2>4. ASSUME place = "ready", context.key = NoKey, item.type \in {"None", "EndOfBuffer"}
          PROVE  Feed \/ NextItem \/ Unexpected
      <3>1. ~ Scan
        BY <2>4 DEF Scan, Runs, ParseToken, ParseEntity, ParseNumericEntity,
           ParseNumericBaseEntity, ParseNamedEntity, Parsing, SkipToken, ExpectStr,
           Transition, EndOfBlock
      <3>2. ~ TakeItem /\ ~ End /\ ~ Process
        BY <2>4 DEF TakeItem, End, Process, InitProcessElement
      <3>3. ~ MatchToken /\ ~ MatchFollow /\ ~ PopTrigger /\ ~ EndOfCandidates
        BY <2>4 DEF MatchToken, MatchFollow, PopTrigger, EndOfCandidates, Visits, Fetching
      <3>. QED
        BY <3>1, <3>2, <3>3 DEF Next
    <2>. QED
      BY <2>1, <2>2, <2>3, <2>4 DEF CutsDoNotMatter
  <1>. QED
    BY <1>1, ScannerCorrect, PTL DEF Spec

-------------------------------------------------------------------------------
(* What is computed along a sequence.                                      *)

LEMMA LeastExists ==
    ASSUME NEW S \in SUBSET Nat, S # {}
    PROVE  Min(S) \in S /\ \A k \in S : Min(S) <= k
  <1>. DEFINE Less == {ss \in Nat \X Nat : ss[1] < ss[2]}
  <1>1. IsWellFoundedOn(Less, Nat)
    BY NatLessThanWellFounded DEF OpToRel
  <1>2. PICK x \in S : \A y \in S : ~ (<<y, x>> \in Less)
    <2>. HIDE DEF Less
    <2>. QED
      BY <1>1, WFMin
  <1>3. \A y \in S : x <= y
    <2>. SUFFICES ASSUME NEW y \in S PROVE x <= y
      OBVIOUS
    <2>1. <<y, x>> \in Nat \X Nat /\ <<y, x>>[1] = y /\ <<y, x>>[2] = x
      OBVIOUS
    <2>2. ~ (y < x)
      BY <1>2, <2>1
    <2>. QED
      BY <2>2
  <1>. QED
    BY <1>3 DEF Min

(* What is kept from one place to the next is there at all of them. *)
LEMMA Upward ==
    ASSUME NEW N \in Nat, NEW S, NEW f, f[0] \in S,
           \A n \in 1..N : f[n - 1] \in S => f[n] \in S
    PROVE  \A n \in 0..N : f[n] \in S
  <1>. DEFINE bad == {n \in 0..N : f[n] \notin S}
  <1>. SUFFICES ASSUME bad # {} PROVE FALSE
    OBVIOUS
  <1>1. PICK m \in bad : \A n \in bad : m <= n
    <2>1. bad \in SUBSET Nat
      OBVIOUS
    <2>. HIDE DEF bad
    <2>. QED
      BY <2>1, LeastExists
  <1>2. m \in 1..N /\ m - 1 \in 0..N /\ ~ (m <= m - 1)
    BY <1>1
  <1>3. m - 1 \notin bad
    BY <1>1, <1>2
  <1>. QED
    BY <1>1, <1>2, <1>3

Iterates(g, N, base, step) ==
    g[0] = base /\ \A n \in 1..N : g[n] = step[n][g[n - 1]]

(* Steps that lead from one value of S to another can be taken one after   *)
(* the other.                                                              *)
LEMMA Iterated ==
    ASSUME NEW N \in Nat, NEW S, NEW base \in S, NEW step \in [1..N -> [S -> S]]
    PROVE  \E g \in [0..N -> S] : Iterates(g, N, base, step)
  <1>. DEFINE Is(g, m) == g[0] = base /\ \A n \in 1..m : g[n] = step[n][g[n - 1]]
              bad == {m \in 0..N : ~ \E g \in [0..m -> S] : Is(g, m)}
  <1>. SUFFICES ASSUME N \in bad PROVE FALSE
    <2>1. N \in 0..N
      OBVIOUS
    <2>2. PICK g \in [0..N -> S] : Is(g, N)
      BY <2>1
    <2>. QED
      BY <2>2 DEF Iterates
  <1>1. PICK m \in bad : \A n \in bad : m <= n
    <2>1. bad \in SUBSET Nat
      OBVIOUS
    <2>. HIDE DEF bad
    <2>. QED
      BY <2>1, LeastExists
  <1>2. m \in 0..N /\ ~ \E g \in [0..m -> S] : Is(g, m)
    BY <1>1
  <1>3. CASE m = 0
    <2>. DEFINE g == [n \in 0..m |-> base]
    <2>1. g \in [0..m -> S] /\ Is(g, m)
      BY <1>3
    <2>. QED
      BY <1>2, <2>1
  <1>4. CASE m # 0
    <2>1. m \in 1..N /\ m - 1 \in 0..N /\ ~ (m <= m - 1)
      BY <1>2, <1>4
    <2>2. m - 1 \notin bad
      BY <1>1, <2>1
    <2>3. PICK h \in [0 .. m - 1 -> S] : Is(h, m - 1)
      BY <2>1, <2>2
    <2>. DEFINE g == [n \in 0..m |-> IF n = m THEN step[m][h[m - 1]] ELSE h[n]]
    <2>4. step[m][h[m - 1]] \in S
      BY <2>1
    <2>5. g \in [0..m -> S]
      BY <2>1, <2>4
    <2>6. \A n \in 0 .. m - 1 : g[n] = h[n]
      BY <2>1
    <2>7. g[m] = step[m][h[m - 1]]
      BY <2>1
    <2>8. Is(g, m)
      <3>. HIDE DEF g
      <3>1. g[0] = base
        BY <2>1, <2>3, <2>6
      <3>2. ASSUME NEW n \in 1..m PROVE g[n] = step[n][g[n - 1]]
        <4>1. CASE n = m
          BY <2>1, <2>6, <2>7, <4>1
        <4>2. CASE n # m
          <5>1. n \in 1 .. m - 1 /\ n \in 0 .. m - 1 /\ n - 1 \in 0 .. m - 1
            BY <2>1, <4>2
          <5>. QED
            BY <2>3, <2>6, <5>1
        <4>. QED
          BY <4>1, <4>2
      <3>. QED
        BY <3>1, <3>2
    <2>. QED
      BY <1>2, <2>5, <2>8
  <1>. QED
    BY <1>3, <1>4

Sought == Attribs \cup AttribValues \cup {"OpenTag", "Content"}

AState == [pos : SUBSET Sought, neg : SUBSET Sought, follow : BOOLEAN,
           type : Int, from : Int, to : Int, key : Name, next : Nat, link : Nat]

(* Where a state may lead in an automaton of n states. *)
Leads(s, i, n) ==
    /\ s.next \in 0..n
    /\ s.link = 0 \/ s.link \in i + 1 .. n
    /\ s.key # NoKey => s.next # 0

AStates == {states \in Seq(AState) : \A i \in 1 .. Len(states) : Leads(states[i], i, Len(states))}

(* Every state that is behind another comes later. *)
LEMMA ChainIs ==
    ASSUME NEW states \in AStates, NEW i \in 0 .. Len(states)
    PROVE  /\ Chain(states, i) \in Seq(1 .. Len(states))
           /\ i # 0 => Chain(states, i) # <<>>
  <1>. DEFINE N == Len(states)
              S == Seq(1..N)
              Later(k) == {0} \cup (N + 1 - k) .. N
              Is(g, k) == \A j \in Later(k) :
                             g[j] = IF j = 0 THEN <<>> ELSE <<j>> \o g[states[j].link]
              Made(k) == \E g \in [Later(k) -> S] : Is(g, k)
              bad == {k \in 0..N : ~ Made(k)}
  <1>1. N \in Nat /\ states \in Seq(AState)
    BY LenProperties DEF AStates
  <1>2. \A j \in 1..N : states[j].link = 0 \/ states[j].link \in j + 1 .. N
    BY DEF AStates, Leads
  <1>3. <<>> \in S
    BY EmptySeq
  <1>4. ASSUME NEW j \in 1..N, NEW s \in S PROVE <<j>> \o s \in S /\ <<j>> \o s # <<>>
    <2>. HIDE DEF N
    <2>1. <<j>> \in S /\ Len(<<j>>) = 1
      OBVIOUS
    <2>2. <<j>> \o s \in S /\ Len(<<j>> \o s) = 1 + Len(s) /\ Len(s) \in Nat
      BY <2>1, ConcatProperties, LenProperties
    <2>. QED
      BY <2>2, EmptySeq
  <1>5. Made(N)
    <2>. SUFFICES ASSUME ~ Made(N) PROVE FALSE
      OBVIOUS
    <2>. HIDE DEF Made, N, S
    <2>1. PICK k \in bad : \A n \in bad : k <= n
      <3>1. bad \in SUBSET Nat /\ N \in bad
        BY <1>1
      <3>. HIDE DEF bad
      <3>. QED
        BY <3>1, LeastExists
    <2>2. k \in 0..N /\ ~ Made(k)
      BY <2>1
    <2>3. CASE k = 0
      <3>. DEFINE g == [j \in Later(k) |-> <<>>]
      <3>1. Later(k) = {0}
        BY <1>1, <2>3
      <3>2. g \in [Later(k) -> S] /\ Is(g, k)
        BY <1>3, <3>1
      <3>. QED
        BY <2>2, <3>2 DEF Made
    <2>4. CASE k # 0
      <3>1. k - 1 \in 0..N /\ ~ (k <= k - 1)
        BY <1>1, <2>2, <2>4
      <3>2. k - 1 \notin bad
        BY <2>1, <3>1
      <3>3. Made(k - 1)
        BY <3>1, <3>2
      <3>4. PICK h \in [Later(k - 1) -> S] : Is(h, k - 1)
        BY <3>3 DEF Made
      <3>. DEFINE m == N + 1 - k
      <3>5. m \in 1..N /\ Later(k) = Later(k - 1) \cup {m} /\ m \notin Later(k - 1)
        BY <1>1, <2>2, <2>4
      <3>6. states[m].link \in Later(k - 1)
        <4>1. m + 1 = N + 1 - (k - 1)
          BY <1>1, <2>2, <2>4
        <4>. HIDE DEF m
        <4>. QED
          BY <1>2, <3>5, <4>1
      <3>. DEFINE g == [j \in Later(k) |-> IF j = m THEN <<m>> \o h[states[m].link] ELSE h[j]]
      <3>7. <<m>> \o h[states[m].link] \in S
        <4>. HIDE DEF m, Later, Is
        <4>. QED
          BY <1>4, <3>4, <3>5, <3>6
      <3>8. g \in [Later(k) -> S]
        <4>. HIDE DEF m, Later, Is
        <4>. QED
          BY <3>4, <3>5, <3>7
      <3>9. Is(g, k)
        <4>. SUFFICES ASSUME NEW j \in Later(k)
                      PROVE  g[j] = IF j = 0 THEN <<>> ELSE <<j>> \o g[states[j].link]
          OBVIOUS
        <4>1. CASE j = m
          <5>1. g[states[m].link] = h[states[m].link]
            <6>. HIDE DEF m, Later, Is
            <6>. QED
              BY <3>5, <3>6
          <5>. QED
            BY <3>5, <4>1, <5>1
        <4>2. CASE j # m
          <5>1. j \in Later(k - 1) /\ g[j] = h[j]
            BY <3>5, <4>2
          <5>2. CASE j = 0
            BY <3>4, <5>1, <5>2
          <5>3. CASE j # 0
            <6>1. j \in 1..N /\ j >= N + 1 - (k - 1)
              BY <1>1, <2>2, <3>1, <5>1, <5>3
            <6>2. states[j].link \in Later(k - 1)
              BY <1>1, <1>2, <2>2, <3>1, <6>1
            <6>3. g[states[j].link] = h[states[j].link]
              <7>. HIDE DEF m, Later, Is
              <7>. QED
                BY <3>5, <6>2
            <6>. QED
              BY <3>4, <5>1, <5>3, <6>3
          <5>. QED
            BY <5>2, <5>3
        <4>. QED
          BY <4>1, <4>2
      <3>. QED
        <4>. HIDE DEF g, Later, Is
        <4>. QED
          BY <2>2, <3>8, <3>9 DEF Made
    <2>. QED
      BY <2>3, <2>4
  <1>. DEFINE chain == CHOOSE c : c = [j \in 0..N |-> IF j = 0 THEN <<>>
                                                     ELSE <<j>> \o c[states[j].link]]
  <1>6. chain = [j \in 0..N |-> IF j = 0 THEN <<>> ELSE <<j>> \o chain[states[j].link]]
    <2>1. Later(N) = 0..N
      BY <1>1
    <2>2. PICK g \in [0..N -> S] : Is(g, N)
      <3>. HIDE DEF Later, Is
      <3>. QED
        BY <1>5, <2>1
    <2>3. g = [j \in 0..N |-> IF j = 0 THEN <<>> ELSE <<j>> \o g[states[j].link]]
      <3>1. \A j \in 0..N : g[j] = IF j = 0 THEN <<>> ELSE <<j>> \o g[states[j].link]
        <4>. HIDE DEF Later
        <4>. QED
          BY <2>1, <2>2
      <3>. QED
        BY <3>1
    <2>. QED
      BY <2>3
  <1>7. Chain(states, i) = chain[i]
    BY DEF Chain
  <1>. HIDE DEF chain
  <1>8. \A j \in 0..N : chain[j] \in S
    <2>. DEFINE none == {k \in 0..N : chain[N - k] \notin S}
    <2>. SUFFICES ASSUME none # {} PROVE FALSE
      <3>1. ASSUME NEW j \in 0..N PROVE N - j \in 0..N /\ N - (N - j) = j
        BY <1>1
      <3>. HIDE DEF N, S
      <3>. QED
        BY <3>1
    <2>1. PICK k \in none : \A n \in none : k <= n
      <3>1. none \in SUBSET Nat
        BY <1>1
      <3>. HIDE DEF none
      <3>. QED
        BY <3>1, LeastExists
    <2>. DEFINE j == N - k
    <2>2. j \in 0..N /\ k = N - j /\ chain[j] \notin S
      BY <1>1, <2>1
    <2>. HIDE DEF S
    <2>3. chain[0] = <<>>
      BY <1>1, <1>6
    <2>4. j \in 1..N
      BY <1>3, <2>2, <2>3
    <2>5. chain[j] = <<j>> \o chain[states[j].link]
      <3>1. \A x \in 1..N : chain[x] = <<x>> \o chain[states[x].link]
        <4>1. ASSUME NEW x \in 1..N PROVE x \in 0..N /\ x # 0
          BY <1>1
        <4>. HIDE DEF N
        <4>. QED
          BY <1>6, <4>1
      <3>. HIDE DEF j, N
      <3>. QED
        BY <2>4, <3>1
    <2>6. chain[states[j].link] \in S
      <3>1. CASE states[j].link = 0
        BY <1>3, <2>3, <3>1
      <3>2. CASE states[j].link # 0
        <4>. DEFINE l == states[j].link
        <4>1. l \in j + 1 .. N
          BY <1>2, <2>4, <3>2
        <4>2. N - l \in 0..N /\ ~ (k <= N - l) /\ N - (N - l) = l
          <5>. HIDE DEF j, l
          <5>. QED
            BY <1>1, <2>2, <4>1
        <4>3. N - l \notin none
          BY <2>1, <4>2
        <4>. QED
          BY <4>2, <4>3
      <3>. QED
        BY <3>1, <3>2
    <2>. QED
      BY <1>4, <2>2, <2>4, <2>5, <2>6
  <1>. QED
    BY <1>4, <1>6, <1>7, <1>8

LEMMA SeekType ==
    ASSUME NEW op
    PROVE  Seek(op) \in SUBSET Sought /\ Reject(op) \in SUBSET Sought
  BY DEF Seek, Reject, Sought, Attribs, AttribValues

LEMMA NewStateType == NewState \in AState /\ \A i, n \in Nat : Leads(NewState, i, n)
  <1>1. NoKey \in Name
    BY DEF Name
  <1>2. NewState \in AState
    BY <1>1 DEF NewState, AState
  <1>3. NewState.next = 0 /\ NewState.link = 0 /\ NewState.key = NoKey
    BY DEF NewState
  <1>. QED
    BY <1>2, <1>3 DEF Leads

LEMMA LeadsFurther ==
    ASSUME NEW n \in Nat, NEW i \in 1..n, NEW s \in AState, Leads(s, i, n)
    PROVE  Leads(s, i, n + 1)
  BY DEF Leads, AState

LEMMA Replaced ==
    ASSUME NEW states \in AStates, NEW i \in 1 .. Len(states), NEW s \in AState,
           Leads(s, i, Len(states))
    PROVE  /\ [states EXCEPT ![i] = s] \in AStates
           /\ Len([states EXCEPT ![i] = s]) = Len(states)
  <1>1. states \in Seq(AState)
    BY DEF AStates
  <1>. QED
    BY <1>1, ExceptSeq DEF AStates

LEMMA Added ==
    ASSUME NEW states \in AStates, NEW i \in 1 .. Len(states), NEW s \in AState,
           Leads(s, i, Len(states) + 1)
    PROVE  /\ Append([states EXCEPT ![i] = s], NewState) \in AStates
           /\ Len(Append([states EXCEPT ![i] = s], NewState)) = Len(states) + 1
  <1>. DEFINE set == [states EXCEPT ![i] = s]
              n == Len(states)
  <1>1. states \in Seq(AState) /\ n \in Nat
    BY LenProperties DEF AStates
  <1>2. /\ set \in Seq(AState) /\ Len(set) = n
        /\ \A j \in 1..n : set[j] = IF j = i THEN s ELSE states[j]
    BY <1>1, ExceptSeq
  <1>3. \A j \in 1..n : set[j] \in AState /\ Leads(set[j], j, n + 1)
    <2>1. ASSUME NEW j \in 1..n, j # i PROVE states[j] \in AState /\ Leads(states[j], j, n + 1)
      <3>1. states[j] \in AState /\ Leads(states[j], j, n)
        BY <1>1, <2>1, ElementOfSeq DEF AStates
      <3>. QED
        BY <1>1, <3>1, LeadsFurther
    <2>. HIDE DEF set
    <2>. QED
      BY <1>2, <2>1
  <1>. HIDE DEF set
  <1>4. /\ Append(set, NewState) \in Seq(AState) /\ Len(Append(set, NewState)) = n + 1
        /\ \A j \in 1..n : Append(set, NewState)[j] = set[j]
        /\ Append(set, NewState)[n + 1] = NewState
    BY <1>2, NewStateType, AppendProperties
  <1>5. ASSUME NEW j \in 1 .. n + 1 PROVE Leads(Append(set, NewState)[j], j, n + 1)
    <2>1. CASE j \in 1..n
      BY <1>3, <1>4, <2>1
    <2>2. CASE j = n + 1
      BY <1>1, <1>4, <2>2, NewStateType
    <2>3. j \in 1..n \/ j = n + 1
      <3>. HIDE DEF n
      <3>. QED
        BY <1>1
    <2>. QED
      BY <2>1, <2>2, <2>3
  <1>. HIDE DEF n
  <1>6. Append(set, NewState) \in AStates
    BY <1>4, <1>5 DEF AStates
  <1>. QED
    BY <1>4, <1>6 DEF set, n

LEMMA FreeIs ==
    ASSUME NEW states \in AStates, NEW i \in 1 .. Len(states)
    PROVE  /\ Free(states, i).states \in AStates
           /\ Free(states, i).at \in 1 .. Len(Free(states, i).states)
  <1>1. CASE IsEmpty(states[i])
    BY <1>1 DEF Free
  <1>2. CASE ~ IsEmpty(states[i])
    <2>. DEFINE n == Len(states)
                s == [states[i] EXCEPT !.link = n + 1]
    <2>1. n \in Nat /\ i \in 1..n /\ states[i] \in AState /\ Leads(states[i], i, n)
      BY LenProperties, ElementOfSeq DEF AStates
    <2>2. s \in AState /\ s.link = n + 1 /\ s.next = states[i].next /\ s.key = states[i].key
      BY <2>1 DEF AState
    <2>3. Leads(s, i, n + 1)
      <3>. HIDE DEF s, n
      <3>. QED
        BY <2>1, <2>2 DEF Leads
    <2>4. [states EXCEPT ![i].link = Len(states) + 1] = [states EXCEPT ![i] = s]
      OBVIOUS
    <2>5. Free(states, i) = [states |-> Append([states EXCEPT ![i] = s], NewState), at |-> n + 1]
      BY <1>2, <2>4 DEF Free
    <2>. HIDE DEF s
    <2>. QED
      BY <2>1, <2>2, <2>3, <2>5, Added
  <1>. QED
    BY <1>1, <1>2

LEMMA BegunIs ==
    ASSUME NEW states \in AStates
    PROVE  Begun(states) \in AStates /\ Len(Begun(states)) \in Nat \ {0}
  <1>1. CASE states = <<>>
    <2>1. <<NewState>> \in Seq(AState) /\ Len(<<NewState>>) = 1 /\ <<NewState>>[1] = NewState
      BY NewStateType
    <2>2. <<NewState>> \in AStates
      BY <2>1, NewStateType DEF AStates
    <2>. QED
      BY <1>1, <2>1, <2>2 DEF Begun
  <1>2. CASE states # <<>>
    BY <1>2, EmptySeq DEF Begun, AStates
  <1>. QED
    BY <1>1, <1>2

-------------------------------------------------------------------------------
BuilderType == [states : AStates, at : Nat, follow : BOOLEAN, pos : SUBSET Sought,
                neg : SUBSET Sought, from : Int, to : Int]

Builder == {b \in BuilderType : b.at \in 1 .. Len(Begun(b.states))}

LEMMA BuilderAt ==
    ASSUME NEW b \in Builder, NEW states \in AStates, Len(states) \in Nat \ {0},
           NEW at \in 1 .. Len(states)
    PROVE  [b EXCEPT !.states = states, !.at = at] \in Builder
  <1>. DEFINE c == [b EXCEPT !.states = states, !.at = at]
  <1>1. b \in BuilderType /\ at \in Nat
    BY DEF Builder
  <1>2. c \in BuilderType /\ c.at = at /\ c.states = states
    BY <1>1 DEF BuilderType
  <1>3. Begun(states) = states
    BY EmptySeq DEF Begun, AStates
  <1>. HIDE DEF c
  <1>4. c \in Builder
    BY <1>2, <1>3 DEF Builder
  <1>. QED
    BY <1>4 DEF c

LEMMA BuilderKeeps ==
    ASSUME NEW b \in Builder, NEW c \in BuilderType, c.at = b.at, c.states = b.states
    PROVE  c \in Builder
  BY DEF Builder

(* What a step of a path writes into a state, and what the end does. *)
StepSet(s, p, n, key, next, follow) ==
    [s EXCEPT !.pos = p, !.neg = n, !.key = key, !.next = next, !.follow = follow]

EndSet(s, p, n, type, from, to, follow) ==
    [s EXCEPT !.pos = p, !.neg = n, !.type = type, !.from = from, !.to = to,
              !.follow = follow]

LEMMA StepIsSet ==
    ASSUME NEW s \in AState, NEW p \in SUBSET Sought, NEW n \in SUBSET Sought,
           NEW key \in Name, NEW next \in Nat, NEW follow \in BOOLEAN
    PROVE  /\ StepSet(s, p, n, key, next, follow) \in AState
           /\ StepSet(s, p, n, key, next, follow).next = next
           /\ StepSet(s, p, n, key, next, follow).link = s.link
  BY DEF StepSet, AState

LEMMA EndIsSet ==
    ASSUME NEW s \in AState, NEW p \in SUBSET Sought, NEW n \in SUBSET Sought,
           NEW type \in Int, NEW from \in Int, NEW to \in Int, NEW follow \in BOOLEAN
    PROVE  /\ EndSet(s, p, n, type, from, to, follow) \in AState
           /\ EndSet(s, p, n, type, from, to, follow).next = s.next
           /\ EndSet(s, p, n, type, from, to, follow).key = s.key
           /\ EndSet(s, p, n, type, from, to, follow).link = s.link
  BY DEF EndSet, AState

LEMMA DefineNextType ==
    ASSUME NEW b \in Builder, NEW op, NEW key \in Name
    PROVE  DefineNext(b, op, key) \in Builder
  <1>. DEFINE states == Begun(b.states)
              chain == Chain(states, b.at)
              Same(i) == /\ key # NoKey /\ states[i].key = key
                         /\ states[i].follow = b.follow
  <1>1. states \in AStates /\ states \in Seq(AState) /\ b.at \in 1 .. Len(states)
    BY BegunIs DEF Builder, BuilderType, AStates
  <1>2. chain \in Seq(1 .. Len(states)) /\ chain # <<>>
    <2>1. b.at \in 0 .. Len(states) /\ b.at # 0
      BY <1>1
    <2>. HIDE DEF states
    <2>. QED
      BY <1>1, <2>1, ChainIs
  <1>3. CASE \E j \in DOMAIN chain : Same(chain[j])
    <2>. DEFINE I == {i \in 1 .. Len(chain) : Same(chain[i])}
                at == states[chain[Min(I)]].next
    <2>1. SelectInSeq(chain, Same) = IF I # {} THEN Min(I) ELSE 0
      BY DEF SelectInSeq
    <2>2. I # {}
      <3>. HIDE DEF chain, Same
      <3>. QED
        BY <1>2, <1>3, LenProperties
    <2>3. Min(I) \in I
      <3>1. I \in SUBSET Nat
        OBVIOUS
      <3>. HIDE DEF I
      <3>. QED
        BY <2>2, <3>1, LeastExists
    <2>4. at \in 1 .. Len(states)
      <3>. DEFINE i == chain[Min(I)]
      <3>1. i \in 1 .. Len(states) /\ Same(i)
        <4>. HIDE DEF chain, Same, states
        <4>. QED
          BY <1>2, <2>3, ElementOfSeq
      <3>2. states[i].next \in 0 .. Len(states) /\ (states[i].key # NoKey => states[i].next # 0)
        <4>. HIDE DEF i, states
        <4>. QED
          BY <1>1, <3>1 DEF AStates, Leads
      <3>3. states[i].key # NoKey /\ Len(states) \in Nat
        <4>. HIDE DEF i, states
        <4>. QED
          BY <1>1, <3>1, LenProperties
      <3>. HIDE DEF i, states
      <3>4. states[i].next \in 1 .. Len(states)
        BY <3>2, <3>3
      <3>. QED
        BY <3>4 DEF i
    <2>5. DefineNext(b, op, key) = [b EXCEPT !.states = states, !.at = at]
      BY <1>3, <2>1, <2>2 DEF DefineNext
    <2>6. Len(states) \in Nat \ {0}
      BY BegunIs DEF Builder, BuilderType
    <2>. HIDE DEF states, at
    <2>7. [b EXCEPT !.states = states, !.at = at] \in Builder
      BY <1>1, <2>4, <2>6, BuilderAt
    <2>. QED
      BY <2>5, <2>7
  <1>4. CASE ~ \E j \in DOMAIN chain : Same(chain[j])
    <2>. DEFINE free == Free(states, Last(chain))
                n == Len(free.states)
                old == free.states[free.at]
                s == StepSet(old, old.pos \cup Seek(op), old.neg \cup Reject(op), key, n + 1, b.follow)
    <2>1. Last(chain) \in 1 .. Len(states)
      <3>. HIDE DEF chain, states
      <3>. QED
        BY <1>2, EmptySeq, ElementOfSeq DEF Last
    <2>2. free.states \in AStates /\ free.at \in 1..n
      <3>. HIDE DEF chain, states
      <3>. QED
        BY <1>1, <2>1, FreeIs
    <2>. HIDE DEF free
    <2>3. n \in Nat /\ old \in AState /\ Leads(old, free.at, n)
      BY <2>2, LenProperties, ElementOfSeq DEF AStates
    <2>4. s \in AState /\ s.next = n + 1 /\ s.link = old.link
      <3>. HIDE DEF n, old
      <3>1. /\ old.pos \cup Seek(op) \in SUBSET Sought /\ old.neg \cup Reject(op) \in SUBSET Sought
            /\ b.follow \in BOOLEAN /\ n + 1 \in Nat
        BY <2>3, SeekType DEF AState, Builder, BuilderType
      <3>. QED
        BY <2>3, <3>1, StepIsSet
    <2>5. Leads(s, free.at, n + 1)
      <3>. HIDE DEF n, old, s
      <3>. QED
        BY <2>2, <2>3, <2>4 DEF Leads
    <2>6. [free.states EXCEPT ![free.at].pos = @ \cup Seek(op),
                              ![free.at].neg = @ \cup Reject(op),
                              ![free.at].key = key,
                              ![free.at].next = n + 1,
                              ![free.at].follow = b.follow] = [free.states EXCEPT ![free.at] = s]
      BY DEF StepSet
    <2>7. DefineNext(b, op, key) =
            [b EXCEPT !.states = Append([free.states EXCEPT ![free.at] = s], NewState),
                      !.at = n + 1]
      BY <1>4, <2>6 DEF DefineNext, free
    <2>. HIDE DEF s
    <2>8. /\ Append([free.states EXCEPT ![free.at] = s], NewState) \in AStates
          /\ Len(Append([free.states EXCEPT ![free.at] = s], NewState)) = n + 1
      BY <2>2, <2>4, <2>5, Added
    <2>. DEFINE made == Append([free.states EXCEPT ![free.at] = s], NewState)
    <2>9. n + 1 \in 1 .. Len(made) /\ Len(made) \in Nat \ {0}
      <3>. HIDE DEF made, n
      <3>. QED
        BY <2>3, <2>8 DEF made
    <2>. HIDE DEF made, n
    <2>10. [b EXCEPT !.states = made, !.at = n + 1] \in Builder
      BY <2>8, <2>9, BuilderAt DEF made
    <2>. QED
      BY <2>7, <2>10 DEF made
  <1>. QED
    BY <1>3, <1>4

LEMMA PrintsType ==
    ASSUME NEW b \in Builder, NEW op
    PROVE  Prints(b, op) \in Builder
  <1>. DEFINE p == Seek(op)
              n == Reject(op)
              c == [b EXCEPT !.pos = p, !.neg = n]
  <1>1. p \in SUBSET Sought /\ n \in SUBSET Sought /\ Prints(b, op) = c
    BY SeekType DEF Prints
  <1>. HIDE DEF p, n
  <1>2. c \in BuilderType /\ c.at = b.at /\ c.states = b.states
    BY <1>1 DEF Builder, BuilderType
  <1>. HIDE DEF c
  <1>. QED
    BY <1>1, <1>2, BuilderKeeps

LEMMA DefineOutputType ==
    ASSUME NEW b \in Builder, NEW type \in Int
    PROVE  DefineOutput(b, type) \in Builder
  <1>. DEFINE free == Free(Begun(b.states), b.at)
              n == Len(free.states)
              old == free.states[free.at]
              s == EndSet(old, b.pos, b.neg, type, b.from, b.to, b.follow)
  <1>1. free.states \in AStates /\ free.at \in 1..n
    <2>1. Begun(b.states) \in AStates /\ b.at \in 1 .. Len(Begun(b.states))
      BY BegunIs DEF Builder, BuilderType
    <2>. QED
      BY <2>1, FreeIs
  <1>2. DefineOutput(b, type) = [b EXCEPT !.states = [free.states EXCEPT ![free.at] = s],
                                          !.at = free.at]
    BY DEF DefineOutput, EndSet
  <1>. HIDE DEF free
  <1>3. n \in Nat /\ old \in AState /\ Leads(old, free.at, n)
    BY <1>1, LenProperties, ElementOfSeq DEF AStates
  <1>4. s \in AState /\ s.next = old.next /\ s.key = old.key /\ s.link = old.link
    <2>. HIDE DEF old
    <2>1. /\ b.pos \in SUBSET Sought /\ b.neg \in SUBSET Sought
          /\ b.from \in Int /\ b.to \in Int /\ b.follow \in BOOLEAN
      BY DEF Builder, BuilderType
    <2>. QED
      BY <1>3, <2>1, EndIsSet
  <1>5. Leads(s, free.at, n)
    <2>. HIDE DEF n, old, s
    <2>. QED
      BY <1>3, <1>4 DEF Leads
  <1>. HIDE DEF s
  <1>6. /\ [free.states EXCEPT ![free.at] = s] \in AStates
        /\ Len([free.states EXCEPT ![free.at] = s]) = n
    BY <1>1, <1>4, <1>5, Replaced
  <1>. DEFINE made == [free.states EXCEPT ![free.at] = s]
  <1>7. n \in Nat \ {0}
    <2>. HIDE DEF n
    <2>. QED
      BY <1>1, <1>3
  <1>. HIDE DEF made, n
  <1>8. [b EXCEPT !.states = made, !.at = free.at] \in Builder
    BY <1>1, <1>6, <1>7, BuilderAt DEF made
  <1>. QED
    BY <1>2, <1>8 DEF made

LEMMA DefineType ==
    ASSUME NEW b \in Builder, NEW call \in PathCall
    PROVE  Define(b, call) \in Builder
  <1>1. CASE call \in [op : {"Follow", "Content"}]
    <2>1. CASE call.op = "Follow"
      BY <2>1 DEF Define, Builder, BuilderType
    <2>2. CASE call.op = "Content"
      BY <2>2, PrintsType DEF Define
    <2>. QED
      BY <1>1, <2>1, <2>2
  <1>2. CASE call \in [op : {"Tag", "Attribute"}, key : Name]
    <2>1. CASE call.op = "Tag"
      BY <1>2, <2>1, DefineNextType DEF Define
    <2>2. CASE call.op = "Attribute"
      BY <1>2, <2>2, DefineNextType, PrintsType DEF Define
    <2>. QED
      BY <1>2, <2>1, <2>2
  <1>3. CASE call \in [op : {"AttributeIs"}, key : Name, value : Name]
    <2>1. DefineNext(b, "Attribute", call.key) \in Builder
      BY <1>3, DefineNextType
    <2>. QED
      BY <1>3, <2>1, DefineNextType DEF Define
  <1>4. CASE call \in [op : {"Range"}, from : Int, to : Int]
    BY <1>4 DEF Define, Builder, BuilderType
  <1>5. CASE call \in [op : {"Push"}, type : Int]
    BY <1>5, DefineOutputType DEF Define
  <1>. QED
    BY <1>1, <1>2, <1>3, <1>4, <1>5 DEF PathCall

LEMMA DefinePathType ==
    ASSUME NEW states \in AStates, NEW path \in Seq(PathCall)
    PROVE  DefinePath(states, path) \in AStates
  <1>. DEFINE N == Len(path)
              Is(d) == d = [n \in 0..N |-> IF n = 0 THEN Start(states)
                                           ELSE Define(d[n - 1], path[n])]
              defined == CHOOSE d : Is(d)
              step == [n \in 1..N |-> [b \in Builder |-> Define(b, path[n])]]
  <1>1. N \in Nat
    BY LenProperties
  <1>2. Start(states) \in Builder
    <2>1. /\ Start(states) \in BuilderType
          /\ Start(states).at = 1 /\ Start(states).states = states
      BY DEF Start, BuilderType
    <2>. QED
      BY <2>1, BegunIs DEF Builder
  <1>3. \A n \in 1..N : \A b \in Builder : Define(b, path[n]) \in Builder
    BY DefineType, ElementOfSeq
  <1>4. step \in [1..N -> [Builder -> Builder]]
    <2>. HIDE DEF N
    <2>. QED
      BY <1>3
  <1>5. \E d : Is(d)
    <2>. HIDE DEF N
    <2>1. PICK g \in [0..N -> Builder] : Iterates(g, N, Start(states), step)
      <3>. HIDE DEF step
      <3>. QED
        BY <1>1, <1>2, <1>4, Iterated
    <2>2. ASSUME NEW n \in 0..N
          PROVE  g[n] = IF n = 0 THEN Start(states) ELSE Define(g[n - 1], path[n])
      <3>1. CASE n = 0
        BY <2>1, <3>1 DEF Iterates
      <3>2. CASE n # 0
        <4>1. n \in 1..N /\ n - 1 \in 0..N
          BY <1>1, <3>2
        <4>2. step[n][g[n - 1]] = Define(g[n - 1], path[n])
          BY <2>1, <4>1
        <4>. QED
          BY <2>1, <3>2, <4>1, <4>2 DEF Iterates
      <3>. QED
        BY <3>1, <3>2
    <2>3. Is(g)
      BY <2>1, <2>2
    <2>. QED
      BY <2>3
  <1>6. Is(defined)
    <2>. HIDE DEF Is
    <2>. QED
      BY <1>5
  <1>7. defined[N] \in Builder
    <2>. HIDE DEF N, defined
    <2>1. defined[0] = Start(states)
      BY <1>1, <1>6
    <2>2. ASSUME NEW n \in 1..N, defined[n - 1] \in Builder PROVE defined[n] \in Builder
      <3>1. n \in 0..N /\ n # 0
        BY <1>1
      <3>2. defined[n] = Define(defined[n - 1], path[n])
        BY <1>6, <3>1
      <3>. QED
        BY <1>3, <2>2, <3>2
    <2>3. \A n \in 0..N : defined[n] \in Builder
      <3>. HIDE DEF Is
      <3>. QED
        BY <1>1, <1>2, <2>1, <2>2, Upward
    <2>. QED
      BY <1>1, <2>3
  <1>8. DefinePath(states, path) = defined[N].states
    BY DEF DefinePath, OneByOne
  <1>. HIDE DEF defined
  <1>. QED
    BY <1>7, <1>8 DEF Builder, BuilderType

LEMMA AutomatonOfType ==
    ASSUME NEW defs \in Seq(Seq(PathCall))
    PROVE  AutomatonOf(defs) \in AStates
  <1>. DEFINE N == Len(defs)
              Is(d) == d = [n \in 0..N |-> IF n = 0 THEN <<>> ELSE DefinePath(d[n - 1], defs[n])]
              built == CHOOSE d : Is(d)
              step == [n \in 1..N |-> [s \in AStates |-> DefinePath(s, defs[n])]]
  <1>1. N \in Nat
    BY LenProperties
  <1>2. <<>> \in AStates
    BY EmptySeq DEF AStates
  <1>3. \A n \in 1..N : \A s \in AStates : DefinePath(s, defs[n]) \in AStates
    BY DefinePathType, ElementOfSeq
  <1>4. step \in [1..N -> [AStates -> AStates]]
    <2>. HIDE DEF N
    <2>. QED
      BY <1>3
  <1>5. \E d : Is(d)
    <2>. HIDE DEF N
    <2>1. PICK g \in [0..N -> AStates] : Iterates(g, N, <<>>, step)
      <3>. HIDE DEF step
      <3>. QED
        BY <1>1, <1>2, <1>4, Iterated
    <2>2. ASSUME NEW n \in 0..N
          PROVE  g[n] = IF n = 0 THEN <<>> ELSE DefinePath(g[n - 1], defs[n])
      <3>1. CASE n = 0
        BY <2>1, <3>1 DEF Iterates
      <3>2. CASE n # 0
        <4>1. n \in 1..N /\ n - 1 \in 0..N
          BY <1>1, <3>2
        <4>2. step[n][g[n - 1]] = DefinePath(g[n - 1], defs[n])
          BY <2>1, <4>1
        <4>. QED
          BY <2>1, <3>2, <4>1, <4>2 DEF Iterates
      <3>. QED
        BY <3>1, <3>2
    <2>3. Is(g)
      BY <2>1, <2>2
    <2>. QED
      BY <2>3
  <1>6. Is(built)
    <2>. HIDE DEF Is
    <2>. QED
      BY <1>5
  <1>7. built[N] \in AStates
    <2>. HIDE DEF N, built
    <2>1. built[0] = <<>>
      BY <1>1, <1>6
    <2>2. ASSUME NEW n \in 1..N, built[n - 1] \in AStates PROVE built[n] \in AStates
      <3>1. n \in 0..N /\ n # 0
        BY <1>1
      <3>2. built[n] = DefinePath(built[n - 1], defs[n])
        BY <1>6, <3>1
      <3>. QED
        BY <1>3, <2>2, <3>2
    <2>3. \A n \in 0..N : built[n] \in AStates
      <3>. HIDE DEF Is
      <3>. QED
        BY <1>1, <1>2, <2>1, <2>2, Upward
    <2>. QED
      BY <1>1, <2>3
  <1>8. AutomatonOf(defs) = built[N]
    BY DEF AutomatonOf, OneByOne
  <1>. QED
    BY <1>7, <1>8

(* Whatever paths a caller defines, in whatever order: a step leads to a   *)
(* state that is there, and the states that are linked to one come behind  *)
(* it, so that expand() comes to an end.                                   *)
THEOREM AutomatonIsSound == \A i \in DOMAIN Path : Automaton[i] \in AStates
  <1>. SUFFICES ASSUME NEW i \in DOMAIN Path
                PROVE  Automaton[i] \in AStates
    BY DEF Automaton
  <1>1. Path[i] \in Seq(Seq(PathCall))
    BY SelectAssumption, ElementOfSeq
  <1>. QED
    BY <1>1, AutomatonOfType DEF Automaton

LEMMA AtmType == ASSUME paths \in DOMAIN Path PROVE Atm \in AStates
  BY AutomatonIsSound DEF Atm

-------------------------------------------------------------------------------
(* The lists.                                                              *)

ScopeType == [mask : SUBSET Sought, followMask : SUBSET Sought,
              from : Nat, to : Nat, followidx : Nat]

TokenType == [pos : SUBSET Sought, neg : SUBSET Sought, type : Int, from : Int, to : Int,
              state : 1 .. Len(Atm)]

ListsType == [scope : ScopeType, follows : Seq(Nat), triggers : Seq(Int),
              tokens : Seq(TokenType)]

(* Every follow is a token. *)
FollowsExist(l) == \A k \in 1 .. Len(l.follows) : l.follows[k] \in 1 .. Len(l.tokens)

(* What is there stays, and what comes goes behind it. *)
Extends(m, l) ==
    /\ m \in ListsType /\ FollowsExist(m)
    /\ m.scope.from = l.scope.from /\ m.scope.to = l.scope.to
    /\ m.scope.followidx = l.scope.followidx
    /\ Len(l.tokens) <= Len(m.tokens) /\ Len(l.follows) <= Len(m.follows)
    /\ \A k \in 1 .. Len(l.follows) : m.follows[k] = l.follows[k]

LEMMA ExpandStateExtends ==
    ASSUME Atm \in AStates, NEW l \in ListsType, NEW m, Extends(m, l), NEW i \in 1 .. Len(Atm)
    PROVE  Extends(ExpandState(m, i), l)
  <1>. DEFINE s == Atm[i]
  <1>1. s \in AState
    BY ElementOfSeq DEF AStates
  <1>2. /\ m \in ListsType /\ m.tokens \in Seq(TokenType) /\ m.follows \in Seq(Nat)
        /\ m.triggers \in Seq(Int) /\ m.scope \in ScopeType
        /\ Len(m.tokens) \in Nat /\ Len(m.follows) \in Nat
        /\ Len(l.tokens) \in Nat /\ Len(l.follows) \in Nat
    BY LenProperties DEF Extends, ListsType
  <1>3. CASE s.pos = {} /\ s.type # 0
    <2>. DEFINE t == Append(m.triggers, s.type)
                e == [m EXCEPT !.triggers = t]
    <2>1. ExpandState(m, i) = e
      BY <1>3 DEF ExpandState
    <2>2. t \in Seq(Int)
      BY <1>1, <1>2, AppendProperties DEF AState
    <2>. HIDE DEF t
    <2>3. /\ e \in ListsType /\ e.scope = m.scope /\ e.follows = m.follows
          /\ e.tokens = m.tokens
      BY <1>2, <2>2 DEF ListsType
    <2>. HIDE DEF e
    <2>. QED
      BY <2>1, <2>3 DEF Extends, FollowsExist
  <1>4. CASE ~ (s.pos = {} /\ s.type # 0)
    <2>. DEFINE follows == IF s.follow THEN Append(m.follows, Len(m.tokens) + 1) ELSE m.follows
                tk == [pos |-> s.pos, neg |-> s.neg, type |-> s.type,
                       from |-> s.from, to |-> s.to, state |-> i]
                tokens == Append(m.tokens, tk)
                mask == m.scope.mask \cup s.pos
                fmask == IF s.follow THEN m.scope.followMask \cup s.pos ELSE m.scope.followMask
                e == [m EXCEPT !.scope.mask = mask, !.scope.followMask = fmask,
                               !.follows = follows, !.tokens = tokens]
    <2>1. ExpandState(m, i) = e
      BY <1>4 DEF ExpandState
    <2>2. mask \in SUBSET Sought /\ fmask \in SUBSET Sought
      BY <1>1, <1>2 DEF AState, ScopeType
    <2>3. tk \in TokenType
      BY <1>1 DEF AState, TokenType
    <2>4. tokens \in Seq(TokenType) /\ Len(tokens) = Len(m.tokens) + 1
      <3>. HIDE DEF tk
      <3>. QED
        BY <1>2, <2>3, AppendProperties
    <2>5. /\ follows \in Seq(Nat)
          /\ Len(follows) \in {Len(m.follows), Len(m.follows) + 1}
          /\ \A k \in 1 .. Len(m.follows) : follows[k] = m.follows[k]
          /\ Len(follows) = Len(m.follows) + 1 =>
                follows[Len(m.follows) + 1] = Len(m.tokens) + 1
      <3>1. Len(m.tokens) + 1 \in Nat
        BY <1>2
      <3>2. CASE s.follow
        <4>. DEFINE n == Len(m.tokens) + 1
        <4>. HIDE DEF n, s, tk
        <4>1. n \in Nat /\ follows = Append(m.follows, n)
          BY <3>1, <3>2 DEF n
        <4>. HIDE DEF follows
        <4>2. /\ follows \in Seq(Nat) /\ Len(follows) = Len(m.follows) + 1
              /\ \A k \in 1 .. Len(m.follows) : follows[k] = m.follows[k]
              /\ follows[Len(m.follows) + 1] = n
          BY <1>2, <4>1, AppendProperties
        <4>. QED
          BY <4>2 DEF n
      <3>3. CASE ~ s.follow
        BY <1>2, <3>3
      <3>. QED
        BY <3>2, <3>3
    <2>. HIDE DEF mask, fmask, follows, tokens
    <2>6. /\ e \in ListsType /\ e.follows = follows /\ e.tokens = tokens
          /\ e.scope.from = m.scope.from /\ e.scope.to = m.scope.to
          /\ e.scope.followidx = m.scope.followidx
      BY <1>2, <2>2, <2>4, <2>5 DEF ListsType, ScopeType
    <2>. HIDE DEF e
    <2>7. FollowsExist(e)
      <3>1. ASSUME NEW k \in 1 .. Len(follows) PROVE follows[k] \in 1 .. Len(tokens)
        <4>1. CASE k \in 1 .. Len(m.follows)
          <5>1. follows[k] \in 1 .. Len(m.tokens)
            BY <2>5, <4>1 DEF Extends, FollowsExist
          <5>. QED
            BY <1>2, <2>4, <5>1
        <4>2. CASE k \notin 1 .. Len(m.follows)
          <5>1. k = Len(m.follows) + 1 /\ Len(follows) = Len(m.follows) + 1
            BY <1>2, <2>5, <4>2
          <5>2. follows[k] = Len(tokens) /\ Len(tokens) \in Nat \ {0}
            BY <1>2, <2>4, <2>5, <5>1
          <5>. QED
            BY <5>2
        <4>. QED
          BY <4>1, <4>2
      <3>. QED
        BY <2>6, <3>1 DEF FollowsExist
    <2>8. \A k \in 1 .. Len(l.follows) : k \in 1 .. Len(m.follows)
      BY <1>2 DEF Extends
    <2>9. Len(m.tokens) <= Len(e.tokens) /\ Len(m.follows) <= Len(e.follows)
      BY <1>2, <2>4, <2>5, <2>6
    <2>10. Len(e.tokens) \in Nat /\ Len(e.follows) \in Nat
      BY <1>2, <2>4, <2>5, <2>6
    <2>11. Len(l.tokens) <= Len(e.tokens) /\ Len(l.follows) <= Len(e.follows)
      BY <1>2, <2>9, <2>10 DEF Extends
    <2>. QED
      BY <2>1, <2>5, <2>6, <2>7, <2>8, <2>11 DEF Extends
  <1>. QED
    BY <1>3, <1>4

LEMMA ExpandExtends ==
    ASSUME Atm \in AStates, NEW l \in ListsType, FollowsExist(l), NEW i \in 0 .. Len(Atm)
    PROVE  Extends(Expand(l, i), l)
  <1>. DEFINE chain == Chain(Atm, i)
              N == Len(chain)
              S == {m \in ListsType : Extends(m, l)}
              Is(d) == d = [n \in 0..N |-> IF n = 0 THEN l ELSE ExpandState(d[n - 1], chain[n])]
              expanded == CHOOSE d : Is(d)
              step == [n \in 1..N |-> [m \in S |-> ExpandState(m, chain[n])]]
  <1>1. chain \in Seq(1 .. Len(Atm)) /\ N \in Nat
    <2>1. chain \in Seq(1 .. Len(Atm))
      BY ChainIs
    <2>. HIDE DEF chain
    <2>. QED
      BY <2>1, LenProperties
  <1>2. l \in S
    <2>1. Len(l.tokens) \in Nat /\ Len(l.follows) \in Nat
      BY LenProperties DEF ListsType
    <2>. QED
      BY <2>1 DEF Extends
  <1>3. ASSUME NEW n \in 1..N, NEW m \in S PROVE ExpandState(m, chain[n]) \in S
    <2>. HIDE DEF chain
    <2>1. chain[n] \in 1 .. Len(Atm)
      BY <1>1, ElementOfSeq
    <2>2. Extends(ExpandState(m, chain[n]), l)
      BY <2>1, ExpandStateExtends
    <2>. QED
      BY <2>2 DEF Extends
  <1>4. step \in [1..N -> [S -> S]]
    <2>. HIDE DEF N, S
    <2>. QED
      BY <1>3
  <1>5. \E d : Is(d)
    <2>. HIDE DEF N, S
    <2>1. PICK g \in [0..N -> S] : Iterates(g, N, l, step)
      <3>. HIDE DEF step
      <3>. QED
        BY <1>1, <1>2, <1>4, Iterated
    <2>2. ASSUME NEW n \in 0..N
          PROVE  g[n] = IF n = 0 THEN l ELSE ExpandState(g[n - 1], chain[n])
      <3>1. CASE n = 0
        BY <2>1, <3>1 DEF Iterates
      <3>2. CASE n # 0
        <4>1. n \in 1..N /\ n - 1 \in 0..N
          BY <1>1, <3>2
        <4>2. step[n][g[n - 1]] = ExpandState(g[n - 1], chain[n])
          BY <2>1, <4>1
        <4>. QED
          BY <2>1, <3>2, <4>1, <4>2 DEF Iterates
      <3>. QED
        BY <3>1, <3>2
    <2>3. Is(g)
      BY <2>1, <2>2
    <2>. QED
      BY <2>3
  <1>6. Is(expanded)
    <2>. HIDE DEF Is
    <2>. QED
      BY <1>5
  <1>7. expanded[N] \in S
    <2>. HIDE DEF N, S, expanded
    <2>1. expanded[0] = l
      BY <1>1, <1>6
    <2>2. ASSUME NEW n \in 1..N, expanded[n - 1] \in S PROVE expanded[n] \in S
      <3>1. n \in 0..N /\ n # 0
        BY <1>1
      <3>2. expanded[n] = ExpandState(expanded[n - 1], chain[n])
        BY <1>6, <3>1
      <3>. QED
        BY <1>3, <2>2, <3>2
    <2>3. \A n \in 0..N : expanded[n] \in S
      <3>. HIDE DEF Is
      <3>. QED
        BY <1>1, <1>2, <2>1, <2>2, Upward
    <2>. QED
      BY <1>1, <2>3
  <1>8. Expand(l, i) = expanded[N]
    BY DEF Expand, OneByOne
  <1>. QED
    BY <1>7, <1>8

(* s lies within t. *)
Within(s, t) == s.to <= t.to /\ s.followidx <= t.followidx

(* A scope and the follows that are matched in it end before the tokens do. *)
ScopeFits(s, l) ==
    /\ s.from <= s.to /\ s.to <= Len(l.tokens) /\ s.followidx <= Len(l.follows)
    /\ \A k \in 1 .. s.followidx : l.follows[k] <= s.to

ScopesFit(stk, l) ==
    /\ ScopeFits(l.scope, l)
    /\ \A i \in 1 .. Len(stk) : ScopeFits(stk[i], l) /\ Within(stk[i], l.scope)
    /\ \A i, j \in 1 .. Len(stk) : i <= j => Within(stk[i], stk[j])

ListsInv ==
    /\ paths \in DOMAIN Path
    /\ lists \in ListsType /\ FollowsExist(lists) /\ Fit(lists)
    /\ scopestk \in Seq(ScopeType) /\ Len(scopestk) <= MaxScopes
    /\ ScopesFit(scopestk, lists)

FetchInv ==
    /\ DOMAIN context = {"type", "key", "iter"} /\ context.iter \in Nat
    /\ context.key # NoKey => item = NoItem
    /\ context.type \in Sought => context.iter <= lists.scope.to + lists.scope.followidx

SelectInv == ListsInv /\ FetchInv

(* Without paths nothing is fetched. *)
NothingSelected == paths = 0 /\ context.key = NoKey

SelectsOrNot == NothingSelected \/ SelectInv

LEMMA ListLengths ==
    ASSUME NEW l \in ListsType
    PROVE  /\ l.tokens \in Seq(TokenType) /\ l.follows \in Seq(Nat)
           /\ l.triggers \in Seq(Int) /\ l.scope \in ScopeType
           /\ Len(l.tokens) \in Nat /\ Len(l.follows) \in Nat /\ Len(l.triggers) \in Nat
  BY LenProperties DEF ListsType

(* What fits in the lists fits in longer ones. *)
LEMMA FitsFurther ==
    ASSUME NEW l \in ListsType, NEW m \in ListsType, NEW s \in ScopeType, ScopeFits(s, l),
           s.to <= Len(m.tokens), s.followidx <= Len(m.follows),
           \A k \in 1 .. s.followidx : m.follows[k] = l.follows[k]
    PROVE  ScopeFits(s, m)
  BY DEF ScopeFits

LEMMA WithinWithin ==
    ASSUME NEW s \in ScopeType, NEW t \in ScopeType, NEW u \in ScopeType,
           Within(s, t), Within(t, u)
    PROVE  Within(s, u)
  BY DEF Within, ScopeType

(* The scopes when only its lists have grown. *)
LEMMA ListsGrow ==
    ASSUME ListsInv, NEW m \in ListsType, FollowsExist(m), Fit(m),
           m.scope.from = lists.scope.from, m.scope.to = lists.scope.to,
           m.scope.followidx = lists.scope.followidx,
           Len(lists.tokens) <= Len(m.tokens), Len(lists.follows) <= Len(m.follows),
           \A k \in 1 .. Len(lists.follows) : m.follows[k] = lists.follows[k]
    PROVE  ScopesFit(scopestk, m)
  <1>1. /\ Len(lists.tokens) \in Nat /\ Len(lists.follows) \in Nat
        /\ Len(m.tokens) \in Nat /\ Len(m.follows) \in Nat
        /\ lists \in ListsType /\ lists.scope \in ScopeType /\ m.scope \in ScopeType
    BY ListLengths DEF ListsInv
  <1>2. ASSUME NEW s \in ScopeType, ScopeFits(s, lists) PROVE ScopeFits(s, m)
    <2>1. s.to \in Nat /\ s.followidx \in Nat
      BY DEF ScopeType
    <2>2. s.to <= Len(m.tokens) /\ s.followidx <= Len(m.follows)
      BY <1>1, <1>2, <2>1 DEF ScopeFits
    <2>3. \A k \in 1 .. s.followidx : k \in 1 .. Len(lists.follows)
      BY <1>1, <1>2, <2>1 DEF ScopeFits
    <2>. QED
      BY <1>1, <1>2, <2>2, <2>3, FitsFurther
  <1>3. ScopeFits(m.scope, m)
    <2>1. ScopeFits(lists.scope, m)
      BY <1>1, <1>2 DEF ListsInv, ScopesFit
    <2>. QED
      BY <2>1 DEF ScopeFits
  <1>4. ASSUME NEW i \in 1 .. Len(scopestk)
        PROVE  ScopeFits(scopestk[i], m) /\ Within(scopestk[i], m.scope)
    <2>1. scopestk[i] \in ScopeType
      BY ElementOfSeq DEF ListsInv
    <2>2. ScopeFits(scopestk[i], m)
      BY <1>2, <2>1 DEF ListsInv, ScopesFit
    <2>3. Within(scopestk[i], m.scope)
      BY DEF ListsInv, ScopesFit, Within
    <2>. QED
      BY <2>2, <2>3
  <1>5. \A i, j \in 1 .. Len(scopestk) : i <= j => Within(scopestk[i], scopestk[j])
    BY DEF ListsInv, ScopesFit
  <1>. QED
    BY <1>3, <1>4, <1>5 DEF ScopesFit

-------------------------------------------------------------------------------
LEMMA SelectInvInit == Init => SelectsOrNot
  <1>. SUFFICES ASSUME Init, paths # 0 PROVE SelectInv
    BY DEF Init, SelectsOrNot, NothingSelected
  <1>. DEFINE i == IF Atm = <<>> THEN 0 ELSE 1
  <1>1. paths \in DOMAIN Path /\ Atm \in AStates
    BY AtmType DEF Init
  <1>2. i \in 0 .. Len(Atm)
    BY <1>1, EmptySeq DEF AStates
  <1>3. /\ NewLists \in ListsType /\ FollowsExist(NewLists)
        /\ NewLists.scope.from = 0 /\ NewLists.scope.to = 0 /\ NewLists.scope.followidx = 0
    <2>1. <<>> \in Seq(Nat) /\ <<>> \in Seq(Int) /\ <<>> \in Seq(TokenType) /\ Len(<<>>) = 0
      BY EmptySeq
    <2>. QED
      BY <2>1 DEF NewLists, ListsType, ScopeType, FollowsExist
  <1>4. lists = Expand(NewLists, i) /\ Fit(lists)
    BY DEF Init
  <1>5. Extends(lists, NewLists)
    <2>. HIDE DEF i
    <2>. QED
      BY <1>1, <1>2, <1>3, <1>4, ExpandExtends
  <1>6. /\ lists \in ListsType /\ FollowsExist(lists)
        /\ lists.scope.from = 0 /\ lists.scope.to = 0 /\ lists.scope.followidx = 0
    BY <1>3, <1>5 DEF Extends
  <1>7. scopestk = <<>> /\ scopestk \in Seq(ScopeType) /\ Len(scopestk) = 0
    BY EmptySeq DEF Init
  <1>8. ScopesFit(scopestk, lists)
    <2>1. ScopeFits(lists.scope, lists)
      BY <1>6, ListLengths DEF ScopeFits
    <2>. QED
      BY <1>7, <2>1 DEF ScopesFit
  <1>9. 0 <= MaxScopes
    BY SelectAssumption
  <1>10. FetchInv
    BY <1>6 DEF Init, FetchInv
  <1>. QED
    BY <1>1, <1>4, <1>6, <1>7, <1>8, <1>9, <1>10 DEF SelectInv, ListsInv

LEMMA AtmStays ==
    ASSUME paths' = paths
    PROVE  Atm' = Atm /\ ListsType' = ListsType /\ TokenType' = TokenType
  BY DEF Atm, ListsType, TokenType

(* When the lists are left alone. *)
LEMMA ListsStay ==
    ASSUME ListsInv, paths' = paths, lists' = lists, scopestk' = scopestk
    PROVE  ListsInv'
  BY AtmStays DEF ListsInv

LEMMA Fetches ==
    ASSUME SelectInv, ScannerInv, Fetching
    PROVE  place = "ready" /\ item = NoItem
  BY DEF SelectInv, FetchInv, ScannerInv, Outside, Fetching

(* What scans and what feeds is not what fetches. *)
LEMMA InputSteps ==
    ASSUME SelectInv, ScannerInv, Feed \/ NextItem \/ Scan \/ Unexpected \/ End
    PROVE  SelectInv' /\ (Fetching => ~ Fetching')
  <1>1. CASE Feed
    <2>1. select' = select /\ item' = NoItem /\ item.type = "EndOfBuffer"
      BY <1>1 DEF Feed
    <2>2. item # NoItem
      BY <2>1 DEF NoItem
    <2>. QED
      BY <2>1, <2>2, ListsStay, Fetches DEF select, SelectInv, FetchInv
  <1>2. CASE NextItem
    BY <1>2, ListsStay DEF NextItem, select, SelectInv, FetchInv, Fetching
  <1>3. CASE Scan
    <2>1. select' = select /\ place # "ready"
      BY <1>3 DEF Scan, Runs, ParseToken, ParseEntity, ParseNumericEntity, SkipToken, ExpectStr,
         ParseNumericBaseEntity, ParseNamedEntity, Transition, EndOfBlock, Parsing
    <2>2. context.key = NoKey
      BY <2>1 DEF ScannerInv, Inside
    <2>. QED
      BY <2>1, <2>2, ListsStay DEF select, SelectInv, FetchInv, Fetching
  <1>4. CASE Unexpected \/ End
    <2>1. /\ item' = item /\ context' = context /\ paths' = paths /\ lists' = lists
          /\ scopestk' = scopestk /\ item.type \in {"EndOfBuffer", "Exit", "ErrorOccurred"}
      BY <1>4 DEF Unexpected, End, scan
    <2>2. item # NoItem
      BY <2>1 DEF NoItem
    <2>. QED
      BY <2>1, <2>2, ListsStay, Fetches DEF SelectInv, FetchInv
  <1>. QED
    BY <1>1, <1>2, <1>3, <1>4

-------------------------------------------------------------------------------
(* The scopes.                                                             *)

LEMMA NextScopeFits ==
    ASSUME ListsInv
    PROVE  /\ NextScope \in ScopeType /\ ScopeFits(NextScope, lists)
           /\ NextScope.to = Len(lists.tokens) /\ NextScope.followidx = Len(lists.follows)
           /\ Within(lists.scope, NextScope)
  <1>. DEFINE s == lists.scope
              from == IF context.type = "OpenTag" THEN s.to ELSE s.from
              n == Len(lists.tokens)
              f == Len(lists.follows)
              t == [s EXCEPT !.from = from, !.to = n, !.followidx = f]
  <1>1. s \in ScopeType /\ n \in Nat /\ f \in Nat /\ lists \in ListsType
    BY ListLengths DEF ListsInv
  <1>2. s.from <= s.to /\ s.to <= n /\ s.followidx <= f
    BY DEF ListsInv, ScopesFit, ScopeFits
  <1>3. from \in Nat /\ from <= n
    BY <1>1, <1>2 DEF ScopeType
  <1>4. NextScope = t
    BY DEF NextScope
  <1>. HIDE DEF n, f, from
  <1>5. /\ t \in ScopeType /\ t.from = from /\ t.to = n /\ t.followidx = f
    BY <1>1, <1>3 DEF ScopeType
  <1>. HIDE DEF t
  <1>6. \A k \in 1..f : lists.follows[k] <= n
    BY <1>1 DEF ListsInv, FollowsExist, n, f
  <1>7. ScopeFits(t, lists)
    BY <1>1, <1>3, <1>5, <1>6 DEF ScopeFits, n, f
  <1>. QED
    BY <1>2, <1>4, <1>5, <1>7 DEF Within, n, f

(* ScopesFit when only the scope changes, and ends where the lists do. *)
LEMMA ScopeMoves ==
    ASSUME ListsInv, NEW s \in ScopeType, s.from = NextScope.from, s.to = NextScope.to,
           s.followidx = NextScope.followidx
    PROVE  LET m == [lists EXCEPT !.scope = s]
           IN /\ m \in ListsType /\ m.scope = s /\ m.follows = lists.follows
              /\ m.tokens = lists.tokens
              /\ FollowsExist(m) /\ Fit(m)
              /\ ScopesFit(scopestk, m)
  <1>. DEFINE m == [lists EXCEPT !.scope = s]
  <1>1. /\ m \in ListsType /\ m.scope = s /\ m.follows = lists.follows
        /\ m.tokens = lists.tokens /\ m.triggers = lists.triggers
    BY DEF ListsInv, ListsType
  <1>. HIDE DEF m
  <1>2. FollowsExist(m) /\ Fit(m)
    BY <1>1 DEF ListsInv, FollowsExist, Fit
  <1>3. \A t : ScopeFits(t, lists) => ScopeFits(t, m)
    BY <1>1 DEF ScopeFits
  <1>4. ScopeFits(s, lists)
    BY NextScopeFits DEF ScopeFits
  <1>5. ASSUME NEW i \in 1 .. Len(scopestk) PROVE Within(scopestk[i], s)
    <2>1. /\ scopestk[i] \in ScopeType /\ lists.scope \in ScopeType /\ NextScope \in ScopeType
          /\ Within(scopestk[i], lists.scope)
      BY ElementOfSeq, ListLengths, NextScopeFits DEF ListsInv, ScopesFit
    <2>2. Within(scopestk[i], NextScope)
      BY <2>1, NextScopeFits, WithinWithin
    <2>. QED
      BY <2>2 DEF Within
  <1>6. ScopesFit(scopestk, m)
    BY <1>1, <1>3, <1>4, <1>5 DEF ListsInv, ScopesFit
  <1>. QED
    BY <1>1, <1>2, <1>6 DEF m

LEMMA OpensFits ==
    ASSUME ListsInv, paths' = paths, Len(scopestk) # MaxScopes, Opens(NextScope)
    PROVE  ListsInv'
  <1>. DEFINE s == [NextScope EXCEPT !.mask = NextScope.followMask \cup {"OpenTag"}]
              m == [lists EXCEPT !.scope = s]
              stk == Append(scopestk, NextScope)
              n == Len(scopestk)
  <1>1. scopestk' = stk /\ lists' = m
    BY DEF Opens
  <1>2. NextScope \in ScopeType
    BY NextScopeFits
  <1>3. /\ s \in ScopeType /\ s.from = NextScope.from /\ s.to = NextScope.to
        /\ s.followidx = NextScope.followidx
    BY <1>2 DEF ScopeType, Sought
  <1>4. /\ m \in ListsType /\ m.scope = s /\ m.follows = lists.follows
        /\ m.tokens = lists.tokens
        /\ FollowsExist(m) /\ Fit(m) /\ ScopesFit(scopestk, m)
    <2>. HIDE DEF s
    <2>. QED
      BY <1>3, ScopeMoves
  <1>5. n \in Nat /\ n <= MaxScopes /\ scopestk \in Seq(ScopeType)
    BY LenProperties DEF ListsInv
  <1>6. /\ stk \in Seq(ScopeType) /\ Len(stk) = n + 1
        /\ \A i \in 1..n : stk[i] = scopestk[i]
        /\ stk[n + 1] = NextScope
    BY <1>2, <1>5, AppendProperties
  <1>7. Len(stk) <= MaxScopes
    BY <1>5, <1>6, SelectAssumption
  <1>8. ScopeFits(NextScope, m) /\ Within(NextScope, s)
    <2>1. Within(NextScope, s)
      BY <1>2, <1>3 DEF Within, ScopeType
    <2>. HIDE DEF m
    <2>. QED
      BY <1>4, <2>1, NextScopeFits DEF ScopeFits
  <1>9. ASSUME NEW i \in 1..n
        PROVE  ScopeFits(scopestk[i], m) /\ Within(scopestk[i], s) /\ Within(scopestk[i], NextScope)
    <2>1. ScopeFits(scopestk[i], m) /\ Within(scopestk[i], s)
      <3>. HIDE DEF m, s
      <3>. QED
        BY <1>4 DEF ScopesFit
    <2>. HIDE DEF s
    <2>. QED
      BY <1>3, <2>1 DEF Within
  <1>. HIDE DEF s, m, stk
  <1>10. ScopesFit(stk, m)
    <2>1. ScopeFits(m.scope, m)
      BY <1>4 DEF ScopesFit
    <2>2. ASSUME NEW i \in 1 .. n + 1 PROVE i \in 1..n \/ i = n + 1
      BY <1>5
    <2>3. ASSUME NEW i \in 1 .. n + 1
          PROVE  ScopeFits(stk[i], m) /\ Within(stk[i], m.scope)
      BY <1>4, <1>6, <1>8, <1>9, <2>2
    <2>4. ASSUME NEW i \in 1 .. n + 1, NEW j \in 1 .. n + 1, i <= j
          PROVE  Within(stk[i], stk[j])
      <3>1. CASE j \in 1..n
        <4>1. i \in 1..n
          BY <1>5, <2>4, <3>1
        <4>. QED
          BY <1>6, <2>4, <3>1, <4>1 DEF ListsInv, ScopesFit
      <3>2. CASE j = n + 1 /\ i \in 1..n
        BY <1>6, <1>9, <3>2
      <3>3. CASE j = n + 1 /\ i = n + 1
        BY <1>2, <1>6, <3>3 DEF Within, ScopeType
      <3>. QED
        BY <2>2, <3>1, <3>2, <3>3
    <2>. QED
      BY <1>6, <2>1, <2>3, <2>4 DEF ScopesFit
  <1>. QED
    BY <1>1, <1>4, <1>6, <1>7, <1>10, AtmStays DEF ListsInv

LEMMA ClosesFits ==
    ASSUME ListsInv, paths' = paths, Closes(NextScope)
    PROVE  ListsInv'
  <1>1. CASE scopestk = <<>>
    <2>1. NextScope \in ScopeType
      BY NextScopeFits
    <2>2. lists' = [lists EXCEPT !.scope = NextScope] /\ scopestk' = scopestk
      BY <1>1 DEF Closes
    <2>. QED
      BY <2>1, <2>2, ScopeMoves, AtmStays DEF ListsInv
  <1>2. CASE scopestk # <<>>
    <2>. DEFINE n == Len(scopestk)
                last == scopestk[n]
                stk == SubSeq(scopestk, 1, n - 1)
                follows == SubSeq(lists.follows, 1, last.followidx)
                tokens == SubSeq(lists.tokens, 1, last.to)
                m == [lists EXCEPT !.scope = last, !.follows = follows, !.tokens = tokens]
    <2>1. scopestk' = stk /\ lists' = m
      BY <1>2 DEF Closes, Front, Last
    <2>2. scopestk \in Seq(ScopeType) /\ n \in Nat \ {0} /\ n <= MaxScopes
      BY <1>2, EmptySeq DEF ListsInv
    <2>3. last \in ScopeType /\ ScopeFits(last, lists)
      BY <2>2, ElementOfSeq DEF ListsInv, ScopesFit
    <2>4. last.to \in Nat /\ last.followidx \in Nat /\ last.from \in Nat
      BY <2>3 DEF ScopeType
    <2>5. /\ lists \in ListsType /\ lists.tokens \in Seq(TokenType) /\ lists.follows \in Seq(Nat)
          /\ Len(lists.tokens) \in Nat /\ Len(lists.follows) \in Nat
      BY ListLengths DEF ListsInv
    <2>6. /\ stk \in Seq(ScopeType) /\ Len(stk) = n - 1
          /\ \A i \in 1 .. n - 1 : stk[i] = scopestk[i] /\ i \in 1..n
      <3>1. \A i \in 1 .. n - 1 : i \in 1..n /\ scopestk[i] \in ScopeType
        BY <2>2, ElementOfSeq
      <3>. HIDE DEF n
      <3>. QED
        BY <2>2, <3>1, SubSeqProperties
    <2>. HIDE DEF last
    <2>7. /\ tokens \in Seq(TokenType) /\ Len(tokens) = last.to
      <3>1. \A i \in 1 .. last.to : lists.tokens[i] \in TokenType
        BY <2>3, <2>4, <2>5, ElementOfSeq DEF ScopeFits
      <3>. QED
        BY <2>4, <3>1, SubSeqProperties
    <2>8. /\ follows \in Seq(Nat) /\ Len(follows) = last.followidx
          /\ \A k \in 1 .. last.followidx :
                follows[k] = lists.follows[k] /\ k \in 1 .. Len(lists.follows)
      <3>1. \A k \in 1 .. last.followidx : k \in 1 .. Len(lists.follows) /\ lists.follows[k] \in Nat
        BY <2>3, <2>4, <2>5, ElementOfSeq DEF ScopeFits
      <3>. QED
        BY <2>4, <3>1, SubSeqProperties
    <2>. HIDE DEF tokens, follows
    <2>9. /\ m \in ListsType /\ m.scope = last /\ m.follows = follows /\ m.tokens = tokens
          /\ m.triggers = lists.triggers
      BY <2>3, <2>5, <2>7, <2>8 DEF ListsType
    <2>. HIDE DEF m
    <2>10. FollowsExist(m)
      <3>1. ASSUME NEW k \in 1 .. last.followidx PROVE follows[k] \in 1 .. last.to
        <4>1. lists.follows[k] \in 1 .. Len(lists.tokens) /\ lists.follows[k] <= last.to
          BY <2>3, <2>8 DEF ListsInv, FollowsExist, ScopeFits
        <4>. QED
          BY <2>4, <2>5, <2>8, <4>1
      <3>. QED
        BY <2>7, <2>8, <2>9, <3>1 DEF FollowsExist
    <2>11. Fit(m)
      <3>1. /\ last.to <= Len(lists.tokens) /\ Len(lists.tokens) <= MaxTokens
            /\ last.followidx <= Len(lists.follows) /\ Len(lists.follows) <= MaxFollows
            /\ Len(lists.triggers) <= MaxTriggers
        BY <2>3 DEF Fit, ListsInv, ScopeFits
      <3>2. last.to <= MaxTokens /\ last.followidx <= MaxFollows
        BY <2>4, <2>5, <3>1, SelectAssumption
      <3>. QED
        BY <2>7, <2>8, <2>9, <3>1, <3>2 DEF Fit
    <2>12. ASSUME NEW s \in ScopeType, ScopeFits(s, lists), Within(s, last)
           PROVE  ScopeFits(s, m)
      <3>1. s.to \in Nat /\ s.followidx \in Nat /\ s.to <= last.to /\ s.followidx <= last.followidx
        BY <2>12 DEF ScopeType, Within
      <3>2. \A k \in 1 .. s.followidx : k \in 1 .. last.followidx
        BY <2>4, <3>1
      <3>. QED
        BY <2>5, <2>7, <2>8, <2>9, <2>12, <3>1, <3>2, FitsFurther
    <2>13. ASSUME NEW i \in 1..n
           PROVE  ScopeFits(scopestk[i], m) /\ Within(scopestk[i], last)
      <3>1. scopestk[i] \in ScopeType /\ ScopeFits(scopestk[i], lists)
        BY <2>2, ElementOfSeq DEF ListsInv, ScopesFit
      <3>2. Within(scopestk[i], last)
        <4>1. n \in 1..n /\ i <= n
          BY <2>2
        <4>. QED
          BY <4>1 DEF ListsInv, ScopesFit, last
      <3>. QED
        BY <2>12, <3>1, <3>2
    <2>14. ScopesFit(stk, m)
      <3>1. ScopeFits(m.scope, m)
        <4>1. n \in 1..n
          BY <2>2
        <4>. QED
          BY <2>9, <2>13, <4>1 DEF last
      <3>2. \A i \in 1 .. n - 1 : ScopeFits(stk[i], m) /\ Within(stk[i], m.scope)
        BY <2>6, <2>9, <2>13
      <3>3. \A i, j \in 1 .. n - 1 : i <= j => Within(stk[i], stk[j])
        BY <2>6 DEF ListsInv, ScopesFit
      <3>. HIDE DEF stk
      <3>. QED
        BY <2>6, <3>1, <3>2, <3>3 DEF ScopesFit
    <2>15. Len(stk) <= MaxScopes
      BY <2>2, <2>6, SelectAssumption
    <2>. HIDE DEF stk
    <2>. QED
      BY <2>1, <2>6, <2>9, <2>10, <2>11, <2>14, <2>15, AtmStays DEF ListsInv
  <1>. QED
    BY <1>1, <1>2

LEMMA ProcessStep ==
    ASSUME SelectInv, ScannerInv, Process
    PROVE  SelectInv' /\ ~ Fetching
  <1>1. /\ item' = NoItem /\ paths' = paths
        /\ context' = [type |-> item.type, key |-> item.text, iter |-> NextScope.from]
    BY DEF Process, InitProcessElement
  <1>2. /\ NextScope \in ScopeType /\ NextScope.from \in Nat /\ NextScope.to \in Nat
        /\ NextScope.followidx \in Nat /\ NextScope.from <= NextScope.to
    BY NextScopeFits DEF SelectInv, ScopeType, ScopeFits
  <1>3. FetchInv'
    <2>1. ASSUME item.type \in Sought
          PROVE  NextScope.from <= lists'.scope.to + lists'.scope.followidx
      <3>1. item.type \notin {"CloseTag", "CloseTagIm"}
        BY <2>1 DEF Sought, Attribs, AttribValues
      <3>2. lists \in ListsType /\ lists.scope \in ScopeType
        BY ListLengths DEF SelectInv, ListsInv
      <3>3. CASE item.type = "OpenTag" /\ Len(scopestk) = MaxScopes
        <4>1. lists' = lists
          BY <3>3 DEF Process, InitProcessElement
        <4>2. NextScope.from \in {lists.scope.from, lists.scope.to}
          BY <3>2 DEF NextScope, ScopeType
        <4>3. lists.scope.from <= lists.scope.to
          BY DEF SelectInv, ListsInv, ScopesFit, ScopeFits
        <4>. QED
          BY <3>2, <4>1, <4>2, <4>3 DEF ScopeType
      <3>4. CASE item.type = "OpenTag" /\ Len(scopestk) # MaxScopes
        <4>1. Opens(NextScope)
          BY <3>4 DEF Process, InitProcessElement
        <4>2. /\ lists'.scope.to = NextScope.to
              /\ lists'.scope.followidx = NextScope.followidx
          BY <1>2, <3>2, <4>1 DEF Opens, ListsType, ScopeType
        <4>. QED
          BY <1>2, <4>2
      <3>5. CASE item.type # "OpenTag"
        <4>1. lists' = [lists EXCEPT !.scope = NextScope]
          BY <3>1, <3>5 DEF Process, InitProcessElement
        <4>2. lists'.scope = NextScope
          BY <3>2, <4>1 DEF ListsType
        <4>. QED
          BY <1>2, <4>2
      <3>. QED
        BY <3>3, <3>4, <3>5
    <2>2. /\ DOMAIN context' = {"type", "key", "iter"} /\ context'.type = item.type
          /\ context'.iter = NextScope.from
      BY <1>1
    <2>. QED
      BY <1>1, <1>2, <2>1, <2>2 DEF FetchInv
  <1>4. item # NoItem
    BY DEF Process, InitProcessElement, NoItem
  <1>5. ListsInv'
    <2>1. CASE item.type = "OpenTag" /\ Len(scopestk) = MaxScopes
      BY <1>1, <2>1, ListsStay DEF Process, InitProcessElement, SelectInv
    <2>2. CASE item.type = "OpenTag" /\ Len(scopestk) # MaxScopes
      BY <1>1, <2>2, OpensFits DEF Process, InitProcessElement, SelectInv
    <2>3. CASE item.type \in {"CloseTag", "CloseTagIm"}
      BY <1>1, <2>3, ClosesFits DEF Process, InitProcessElement, SelectInv
    <2>4. CASE item.type \notin {"OpenTag", "CloseTag", "CloseTagIm"}
      <3>1. lists' = [lists EXCEPT !.scope = NextScope] /\ scopestk' = scopestk
        BY <2>4 DEF Process, InitProcessElement
      <3>2. NextScope \in ScopeType
        BY NextScopeFits DEF SelectInv
      <3>. QED
        BY <1>1, <3>1, <3>2, ScopeMoves, AtmStays DEF ListsInv, SelectInv
    <2>. QED
      BY <2>1, <2>2, <2>3, <2>4
  <1>. QED
    BY <1>3, <1>4, <1>5, Fetches DEF SelectInv

-------------------------------------------------------------------------------
(* What fetch() does.                                                      *)

(* The tokens and the follows that fetch() has not visited yet. *)
Candidates == lists.scope.to + lists.scope.followidx - context.iter

(* It comes nearer to its end: to the next candidate, or, without any, to  *)
(* the next trigger.                                                       *)
FetchGoesOn ==
    Fetching /\ Fetching' =>
        /\ Candidates \in Nat /\ Candidates' \in Nat
        /\ \/ Candidates' < Candidates
           \/ Candidates' = Candidates /\ Len(lists.triggers') < Len(lists.triggers)

(* The follow that comes next is a token of this scope. *)
LEMMA OuterIs ==
    ASSUME SelectInv, Visited, Outer <= lists.scope.followidx
    PROVE  /\ Outer \in 1 .. Len(lists.follows)
           /\ lists.follows[Outer] \in 1 .. lists.scope.to
           /\ lists.follows[Outer] \in 1 .. Len(lists.tokens)
  <1>. DEFINE s == lists.scope
  <1>1. /\ s.to \in Nat /\ s.followidx \in Nat /\ context.iter \in Nat
        /\ Len(lists.tokens) \in Nat /\ Len(lists.follows) \in Nat
    BY ListLengths DEF SelectInv, ListsInv, FetchInv, ScopeType
  <1>2. s.to <= Len(lists.tokens) /\ s.followidx <= Len(lists.follows)
    BY DEF SelectInv, ListsInv, ScopesFit, ScopeFits
  <1>3. Outer \in 1 .. s.followidx /\ Outer \in 1 .. Len(lists.follows)
    <2>. DEFINE i == context.iter
                to == s.to
                idx == s.followidx
                f == Len(lists.follows)
    <2>1. i \in Nat /\ to \in Nat /\ idx \in Nat /\ f \in Nat /\ idx <= f /\ i >= to
          /\ i - to + 1 <= idx
      BY <1>1, <1>2 DEF Visited, Outer
    <2>2. Outer = i - to + 1
      BY DEF Outer
    <2>. HIDE DEF i, to, idx, f
    <2>3. i - to + 1 \in 1..idx /\ i - to + 1 \in 1..f
      BY <2>1
    <2>. QED
      BY <2>2, <2>3 DEF idx, f
  <1>4. lists.follows[Outer] \in 1 .. Len(lists.tokens) /\ lists.follows[Outer] <= s.to
    BY <1>3 DEF SelectInv, ListsInv, FollowsExist, ScopesFit, ScopeFits
  <1>. QED
    BY <1>1, <1>3, <1>4

LEMMA CountedType ==
    ASSUME NEW tk \in TokenType
    PROVE  Counted(tk) \in TokenType /\ Over(tk) \in TokenType
           /\ Counted(tk).state = tk.state /\ Over(tk).state = tk.state
  <1>1. \A x \in TokenType : Over(x) \in TokenType /\ Over(x).state = x.state
    BY DEF Over, TokenType
  <1>. DEFINE to == tk.to - 1
              from == IF tk.from <= 0 THEN tk.from ELSE tk.from - 1
              t == [tk EXCEPT !.to = to, !.from = from]
  <1>2. to \in Int /\ from \in Int
    BY DEF TokenType
  <1>3. Counted(tk) = IF tk.to <= 0 THEN tk ELSE IF tk.to = 1 THEN Over(t) ELSE t
    BY DEF Counted
  <1>. HIDE DEF to, from
  <1>4. t \in TokenType /\ t.state = tk.state
    BY <1>2 DEF TokenType
  <1>. HIDE DEF t
  <1>. QED
    BY <1>1, <1>3, <1>4

(* A token is matched, and one more candidate is done with; or there is no *)
(* room for what it stands for.                                            *)
LEMMA MatchStep ==
    ASSUME SelectInv, NEW i \in 1 .. Len(lists.tokens), Match(i), Fetched,
           Candidates \in Nat \ {0}, Fetching
    PROVE  SelectInv' /\ FetchGoesOn
  <1>. DEFINE tk == lists.tokens[i]
              hits == context.type \in tk.pos
              right == hits /\ Matches(tk)
              once == IF right THEN Counted(tk) ELSE tk
              ends == hits /\ tk.type # 0
              twice == IF ends THEN Counted(once) ELSE once
              new == IF context.type \in twice.neg THEN Over(twice) ELSE twice
              next == Atm[tk.state].next
              l == IF right /\ Hit(tk) THEN Expand(lists, next) ELSE lists
              m == [l EXCEPT !.tokens[i] = new]
  <1>1. /\ paths' = paths /\ scopestk' = scopestk /\ item' = item
    BY DEF Fetched, scan
  <1>2. /\ lists \in ListsType /\ FollowsExist(lists) /\ Atm \in AStates
        /\ lists.tokens \in Seq(TokenType)
        /\ Len(lists.tokens) \in Nat /\ Len(lists.follows) \in Nat
    BY AtmType, ListLengths DEF SelectInv, ListsInv
  <1>3. tk \in TokenType
    BY <1>2, ElementOfSeq
  <1>4. new \in TokenType
    <2>. HIDE DEF tk
    <2>1. once \in TokenType
      BY <1>3, CountedType
    <2>. HIDE DEF once
    <2>2. twice \in TokenType
      BY <2>1, CountedType
    <2>. HIDE DEF twice
    <2>. QED
      BY <2>2, CountedType
  <1>5. next \in 0 .. Len(Atm)
    <2>. DEFINE at == tk.state
    <2>1. at \in 1 .. Len(Atm)
      BY <1>3 DEF TokenType
    <2>. HIDE DEF at
    <2>2. Atm[at].next \in 0 .. Len(Atm)
      BY <1>2, <2>1 DEF AStates, Leads
    <2>. QED
      BY <2>2 DEF at
  <1>6. Extends(l, lists)
    <2>1. Extends(Expand(lists, next), lists)
      <3>. HIDE DEF next
      <3>. QED
        BY <1>2, <1>5, ExpandExtends
    <2>2. Extends(lists, lists)
      BY <1>2 DEF Extends
    <2>. HIDE DEF next, tk, right
    <2>. QED
      BY <2>1, <2>2
  <1>7. CASE Fit(l)
    <2>1. lists' = m /\ context' = [context EXCEPT !.iter = @ + 1]
      BY <1>7 DEF Match
    <2>. HIDE DEF l, new
    <2>2. /\ l \in ListsType /\ FollowsExist(l) /\ l.tokens \in Seq(TokenType)
          /\ Len(l.tokens) \in Nat /\ i \in 1 .. Len(l.tokens)
          /\ l.scope.from = lists.scope.from /\ l.scope.to = lists.scope.to
          /\ l.scope.followidx = lists.scope.followidx
          /\ Len(lists.tokens) <= Len(l.tokens) /\ Len(lists.follows) <= Len(l.follows)
          /\ \A k \in 1 .. Len(lists.follows) : l.follows[k] = lists.follows[k]
      <3>1. l \in ListsType /\ Len(lists.tokens) <= Len(l.tokens)
        BY <1>6 DEF Extends
      <3>2. l.tokens \in Seq(TokenType) /\ Len(l.tokens) \in Nat
        BY <3>1, ListLengths
      <3>. QED
        BY <1>2, <1>6, <3>1, <3>2 DEF Extends
    <2>. DEFINE tokens == [l.tokens EXCEPT ![i] = new]
    <2>3. tokens \in Seq(TokenType) /\ Len(tokens) = Len(l.tokens)
      BY <1>4, <2>2, ExceptSeq
    <2>4. m = [l EXCEPT !.tokens = tokens]
      OBVIOUS
    <2>. HIDE DEF tokens, m
    <2>5. /\ m \in ListsType /\ m.scope = l.scope /\ m.follows = l.follows
          /\ m.triggers = l.triggers /\ m.tokens = tokens
      BY <2>2, <2>3, <2>4 DEF ListsType
    <2>6. FollowsExist(m) /\ Fit(m)
      BY <1>7, <2>2, <2>3, <2>5 DEF FollowsExist, Fit
    <2>7. ScopesFit(scopestk, m)
      <3>1. ListsInv
        BY DEF SelectInv
      <3>. QED
        BY <2>2, <2>3, <2>5, <2>6, <3>1, ListsGrow
    <2>8. ListsInv'
      BY <1>1, <2>1, <2>5, <2>6, <2>7, AtmStays DEF SelectInv, ListsInv
    <2>9. /\ DOMAIN context' = DOMAIN context /\ context'.key = context.key
          /\ context'.type = context.type /\ context'.iter = context.iter + 1
      BY <2>1 DEF SelectInv, FetchInv
    <2>10. FetchInv'
      <3>1. /\ lists'.scope.to = lists.scope.to
            /\ lists'.scope.followidx = lists.scope.followidx
        BY <2>1, <2>2, <2>5
      <3>2. /\ lists.scope.to \in Nat /\ lists.scope.followidx \in Nat
            /\ context.iter \in Nat
        BY <1>2, ListLengths DEF ScopeType, SelectInv, FetchInv
      <3>3. context'.iter <= lists'.scope.to + lists'.scope.followidx /\ context'.iter \in Nat
        BY <2>9, <3>1, <3>2 DEF Candidates
      <3>. QED
        BY <1>1, <2>9, <3>3 DEF SelectInv, FetchInv
    <2>11. Candidates' = Candidates - 1
      <3>1. /\ lists'.scope.to = lists.scope.to
            /\ lists'.scope.followidx = lists.scope.followidx
        BY <2>1, <2>2, <2>5
      <3>2. /\ lists.scope.to \in Nat /\ lists.scope.followidx \in Nat
            /\ context.iter \in Nat
        BY <1>2, ListLengths DEF ScopeType, SelectInv, FetchInv
      <3>. QED
        BY <2>9, <3>1, <3>2 DEF Candidates
    <2>12. FetchGoesOn
      BY <2>11 DEF FetchGoesOn
    <2>. QED
      BY <2>8, <2>10, <2>12 DEF SelectInv
  <1>8. CASE ~ Fit(l)
    <2>1. result' = "OutOfMem" /\ lists' = lists /\ context' = context
      BY <1>8 DEF Match
    <2>2. ~ Fetching'
      BY <2>1 DEF Fetching
    <2>. QED
      BY <1>1, <2>1, <2>2, ListsStay DEF SelectInv, FetchInv, FetchGoesOn
  <1>. QED
    BY <1>7, <1>8

LEMMA FetchSteps ==
    ASSUME SelectInv, ScannerInv, MatchToken \/ MatchFollow \/ PopTrigger \/ EndOfCandidates
    PROVE  SelectInv' /\ FetchGoesOn
  <1>. DEFINE s == lists.scope
              iter == context.iter
  <1>1. /\ s.to \in Nat /\ s.followidx \in Nat /\ iter \in Nat
        /\ lists \in ListsType /\ lists.tokens \in Seq(TokenType)
        /\ lists.triggers \in Seq(Int) /\ Len(lists.triggers) \in Nat
        /\ Len(lists.tokens) \in Nat /\ Len(lists.follows) \in Nat
    BY ListLengths DEF SelectInv, ListsInv, FetchInv, ScopeType
  <1>2. s.to <= Len(lists.tokens)
    BY DEF SelectInv, ListsInv, ScopesFit, ScopeFits
  <1>3. CASE MatchToken
    <2>1. Fetched /\ Fetching /\ Match(iter + 1) /\ ~ (iter >= s.to)
      BY <1>3 DEF MatchToken, Visits, Visited
    <2>2. iter + 1 \in 1 .. Len(lists.tokens) /\ s.to + s.followidx - iter \in Nat \ {0}
      <3>. DEFINE to == s.to
                  n == Len(lists.tokens)
                  idx == s.followidx
      <3>1. to \in Nat /\ n \in Nat /\ idx \in Nat /\ iter \in Nat /\ iter < to /\ to <= n
        BY <1>1, <1>2, <2>1
      <3>. HIDE DEF to, n, idx, iter
      <3>2. iter + 1 \in 1..n /\ to + idx - iter \in Nat \ {0}
        BY <3>1
      <3>. QED
        BY <3>2 DEF to, n, idx
    <2>3. Candidates \in Nat \ {0}
      BY <2>2 DEF Candidates
    <2>. HIDE DEF iter
    <2>. QED
      BY <2>1, <2>2, <2>3, MatchStep
  <1>4. CASE MatchFollow
    <2>. DEFINE i == lists.follows[Outer]
    <2>1. Fetched /\ Fetching /\ Match(i) /\ Visited /\ Outer <= s.followidx
      BY <1>4 DEF MatchFollow, Visits, HasOuter
    <2>2. i \in 1 .. Len(lists.tokens)
      BY <2>1, OuterIs
    <2>3. Candidates \in Nat \ {0}
      <3>. DEFINE to == s.to
                  idx == s.followidx
      <3>1. to \in Nat /\ idx \in Nat /\ iter \in Nat /\ iter >= to /\ iter - to + 1 <= idx
        BY <1>1, <2>1 DEF Visited, Outer
      <3>. HIDE DEF to, idx, iter
      <3>2. to + idx - iter \in Nat \ {0}
        BY <3>1
      <3>. QED
        BY <3>2 DEF to, idx, iter, Candidates
    <2>. HIDE DEF i
    <2>. QED
      BY <2>1, <2>2, <2>3, MatchStep
  <1>5. CASE PopTrigger
    <2>. DEFINE t == lists.triggers
                n == Len(t)
                front == SubSeq(t, 1, n - 1)
                m == [lists EXCEPT !.triggers = front]
    <2>1. /\ lists' = m /\ context' = context /\ paths' = paths /\ scopestk' = scopestk
          /\ item' = item /\ t # <<>>
      BY <1>5 DEF PopTrigger, Fetched, scan, Front
    <2>2. n \in Nat \ {0}
      BY <1>1, <2>1, EmptySeq
    <2>3. front \in Seq(Int) /\ Len(front) = n - 1
      <3>1. \A k \in 1 .. n - 1 : k \in 1..n /\ t[k] \in Int
        BY <1>1, <2>2, ElementOfSeq
      <3>. HIDE DEF n, t
      <3>. QED
        BY <2>2, <3>1, SubSeqProperties
    <2>. HIDE DEF front
    <2>4. /\ m \in ListsType /\ m.scope = s /\ m.tokens = lists.tokens
          /\ m.follows = lists.follows /\ m.triggers = front
      BY <1>1, <2>3 DEF ListsType
    <2>. HIDE DEF m
    <2>5. FollowsExist(m) /\ Fit(m)
      <3>1. n - 1 <= MaxTriggers
        <4>1. n <= MaxTriggers
          BY DEF SelectInv, ListsInv, Fit
        <4>. HIDE DEF n
        <4>. QED
          BY <2>2, <4>1, SelectAssumption
      <3>. QED
        BY <2>3, <2>4, <3>1 DEF SelectInv, ListsInv, FollowsExist, Fit
    <2>6. ScopesFit(scopestk, m)
      BY <2>4 DEF SelectInv, ListsInv, ScopesFit, ScopeFits
    <2>7. ListsInv'
      BY <2>1, <2>4, <2>5, <2>6, AtmStays DEF SelectInv, ListsInv
    <2>8. FetchInv'
      BY <2>1, <2>4 DEF SelectInv, FetchInv
    <2>9. Candidates' = Candidates /\ Candidates \in Nat
      <3>1. context.type \in Sought
        BY <1>1, <1>5 DEF PopTrigger, Visits, ListsType, ScopeType
      <3>2. iter <= s.to + s.followidx
        BY <3>1 DEF SelectInv, FetchInv
      <3>3. Candidates \in Nat
        BY <1>1, <3>2 DEF Candidates
      <3>4. Candidates' = Candidates
        BY <2>1, <2>4 DEF Candidates
      <3>. QED
        BY <3>3, <3>4
    <2>10. Len(lists'.triggers) < Len(lists.triggers)
      <3>. HIDE DEF n
      <3>1. n - 1 < n
        BY <2>2
      <3>. QED
        BY <2>1, <2>3, <2>4, <3>1 DEF n
    <2>. QED
      BY <2>7, <2>8, <2>9, <2>10 DEF SelectInv, FetchGoesOn
  <1>6. CASE EndOfCandidates
    <2>1. /\ context' = [context EXCEPT !.key = NoKey] /\ lists' = lists /\ paths' = paths
          /\ scopestk' = scopestk /\ item' = item
      BY <1>6 DEF EndOfCandidates, Fetched, scan
    <2>2. /\ DOMAIN context' = DOMAIN context /\ context'.key = NoKey
          /\ context'.iter = context.iter
      BY <2>1 DEF SelectInv, FetchInv
    <2>. QED
      BY <2>1, <2>2, ListsStay DEF SelectInv, FetchInv, FetchGoesOn, Fetching
  <1>. QED
    BY <1>3, <1>4, <1>5, <1>6

-------------------------------------------------------------------------------
(* A caller without paths takes the items, and nothing is looked for. *)
LEMMA NothingStays ==
    ASSUME NothingSelected, [Next]_vars
    PROVE  NothingSelected' /\ FetchGoesOn
  <1>1. CASE Feed \/ NextItem \/ Scan \/ Unexpected \/ TakeItem \/ End
    BY <1>1 DEF Feed, NextItem, Scan, Unexpected, TakeItem, End, select,
       NothingSelected, FetchGoesOn, Fetching
  <1>2. CASE Process \/ MatchToken \/ MatchFollow \/ PopTrigger \/ EndOfCandidates
    BY <1>2 DEF Process, MatchToken, MatchFollow, PopTrigger, EndOfCandidates, Visits,
       Fetching, NothingSelected
  <1>3. CASE UNCHANGED vars
    BY <1>3 DEF vars, NothingSelected, FetchGoesOn, Fetching
  <1>. QED
    BY <1>1, <1>2, <1>3 DEF Next

LEMMA SelectInvStep ==
    SelectsOrNot /\ ScannerInv /\ [Next]_vars => SelectsOrNot' /\ [FetchGoesOn]_vars
  <1>. SUFFICES ASSUME SelectInv, ScannerInv, [Next]_vars
                PROVE  SelectInv' /\ [FetchGoesOn]_vars
    BY NothingStays DEF SelectsOrNot
  <1>1. CASE Feed \/ NextItem \/ Scan \/ Unexpected \/ End
    BY <1>1, InputSteps DEF FetchGoesOn
  <1>2. CASE Process
    BY <1>2, ProcessStep DEF FetchGoesOn
  <1>3. CASE MatchToken \/ MatchFollow \/ PopTrigger \/ EndOfCandidates
    BY <1>3, FetchSteps
  <1>4. CASE TakeItem
    <2>1. 0 \notin DOMAIN Path
      BY SelectAssumption
    <2>. QED
      BY <1>4, <2>1 DEF TakeItem, SelectInv, ListsInv
  <1>5. CASE UNCHANGED vars
    BY <1>5, ListsStay DEF vars, SelectInv, FetchInv
  <1>. QED
    BY <1>1, <1>2, <1>3, <1>4, <1>5 DEF Next

-------------------------------------------------------------------------------
(* Every index that the code checks, and would throw ArrayBoundsReadWrite  *)
(* for, is within its array; a list is only ever cut (Array::resize()); a  *)
(* token stands for a state of the automaton; and match() is only given    *)
(* tokens of the scope, so that its own test never ends it early.          *)
SelectionInBounds == paths # 0 =>
    /\ Fit(lists) /\ Len(scopestk) <= MaxScopes
    /\ \A i \in 1 .. Len(lists.tokens) : lists.tokens[i].state \in 1 .. Len(Atm)
    /\ ~Visited => context.iter + 1 \in 1 .. Len(lists.tokens)
    /\ Visited /\ Outer <= lists.scope.followidx =>
          /\ Outer \in 1 .. Len(lists.follows)
          /\ lists.follows[Outer] \in 1 .. lists.scope.to
    /\ \A i \in 1 .. Len(scopestk) :
          /\ scopestk[i].to <= Len(lists.tokens)
          /\ scopestk[i].followidx <= Len(lists.follows)

THEOREM SelectionStaysInBounds == Spec => []SelectionInBounds
  <1>1. SelectsOrNot => SelectionInBounds
    <2>. SUFFICES ASSUME SelectInv PROVE SelectionInBounds
      BY DEF SelectsOrNot, NothingSelected, SelectionInBounds
    <2>. DEFINE s == lists.scope
    <2>1. /\ s.to \in Nat /\ context.iter \in Nat /\ lists.tokens \in Seq(TokenType)
          /\ Len(lists.tokens) \in Nat
      BY ListLengths DEF SelectInv, ListsInv, FetchInv, ScopeType
    <2>2. s.to <= Len(lists.tokens)
      BY DEF SelectInv, ListsInv, ScopesFit, ScopeFits
    <2>3. Fit(lists) /\ Len(scopestk) <= MaxScopes
      BY DEF SelectInv, ListsInv
    <2>4. \A i \in 1 .. Len(lists.tokens) : lists.tokens[i].state \in 1 .. Len(Atm)
      <3>1. \A t \in TokenType : t.state \in 1 .. Len(Atm)
        BY DEF TokenType
      <3>. QED
        BY <2>1, <3>1, ElementOfSeq
    <2>5. ~Visited => context.iter + 1 \in 1 .. Len(lists.tokens)
      BY <2>1, <2>2 DEF Visited
    <2>6. Visited /\ Outer <= s.followidx =>
             Outer \in 1 .. Len(lists.follows) /\ lists.follows[Outer] \in 1 .. s.to
      BY OuterIs
    <2>7. ASSUME NEW i \in 1 .. Len(scopestk)
          PROVE  /\ scopestk[i].to <= Len(lists.tokens)
                 /\ scopestk[i].followidx <= Len(lists.follows)
      BY DEF SelectInv, ListsInv, ScopesFit, ScopeFits
    <2>. QED
      BY <2>3, <2>4, <2>5, <2>6, <2>7 DEF SelectionInBounds
  <1>2. Spec => []SelectsOrNot
    <2>1. Init => SelectsOrNot
      BY SelectInvInit
    <2>2. SelectsOrNot /\ ScannerInv /\ [Next]_vars => SelectsOrNot'
      BY SelectInvStep
    <2>. QED
      BY <2>1, <2>2, ScannerCorrect, PTL DEF Spec
  <1>. QED
    BY <1>1, <1>2, PTL

(* While an item is fetched every step comes nearer to the end, whatever   *)
(* the matches add: the loop in fetch() ends.                              *)
THEOREM FetchEnds == Spec => [][FetchGoesOn]_vars
  <1>1. Init => SelectsOrNot
    BY SelectInvInit
  <1>2. SelectsOrNot /\ ScannerInv /\ [Next]_vars => SelectsOrNot' /\ [FetchGoesOn]_vars
    BY SelectInvStep
  <1>. QED
    BY <1>1, <1>2, ScannerCorrect, PTL DEF Spec
=================================================================================
