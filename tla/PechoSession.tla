------------------------------ MODULE PechoSession ------------------------------
(***************************************************************************)
(* What a client with one request sends and what it should be sent for it, *)
(* told without the handler: the data a byte at a time, as getEoD should   *)
(* take it, and the words of the commands as the command buffer should     *)
(* spell them, wherever the blocks cut them.  PechoProofs proves that the  *)
(* handler comes to the same; MCPecho checks that its clients are of this  *)
(* kind.                                                                   *)
(***************************************************************************)
EXTENDS Pecho

(***************************************************************************)
(* getEoD jumps from line end to line end and moves what it keeps in       *)
(* pieces.  This is what it should come to, a byte at a time: the state    *)
(* after the byte c, whether c is a dot that is left out, whether it is    *)
(* the one at which the end of data is found, and whether it is data.  A   *)
(* line begins behind a line feed, and only there: the second of two line  *)
(* feeds begins none.                                                      *)
(***************************************************************************)
After(q, c) ==
    IF q = "SRC" THEN IF c = LF THEN "LF" ELSE "SRC"
    ELSE IF q = "LF" THEN IF c = Dot THEN "LF_DOT" ELSE "SRC"
    ELSE IF q # "LF_DOT" THEN "LF_DOT_CR_LF"
    ELSE IF c = CR THEN "LF_DOT_CR"
    ELSE IF c = LF THEN "LF_DOT_CR_LF" ELSE "SRC"

Eaten(q, c) == q = "LF" /\ c = Dot

Finds(q, c) == q = "LF_DOT" /\ c \in {CR, LF}

Kept(q, c) == ~ Eaten(q, c) /\ ~ Finds(q, c)

(* Over n bytes b: q[k] is the state before b[k], and dst[k] how many of   *)
(* the bytes before it stay in the block.                                  *)
ByteByByte(n, b, q, dst) ==
    /\ n \in Nat
    /\ q \in [0..n -> EodState] /\ dst \in [0..n -> Nat]
    /\ dst[0] = 0
    /\ \A k \in 0 .. n - 1 :
          /\ q[k + 1] = After(q[k], b[k])
          /\ dst[k + 1] = IF Eaten(q[k], b[k]) THEN dst[k] ELSE dst[k] + 1

(* A request: its data b is read byte by byte, its end is found at N and   *)
(* not before, and text[k] is what the filter f makes of the data in the   *)
(* first k bytes.                                                          *)
Requested(N, b, q, dst, f, text) ==
    /\ N \in Nat /\ ByteByByte(N + 1, b, q, dst) /\ q[0] = "SRC"
    /\ \A k \in 0..N : b[k] \in Byte
    /\ Finds(q[N], b[N]) /\ \A k \in 0 .. N - 1 : ~ Finds(q[k], b[k])
    /\ f \in [Byte -> Byte]
    /\ text \in [0..N -> Seq(Byte)] /\ text[0] = <<>>
    /\ \A k \in 0 .. N - 1 :
          text[k + 1] = IF Kept(q[k], b[k]) THEN Append(text[k], f[b[k]]) ELSE text[k]

-------------------------------------------------------------------------------
(* Where a word ends. *)
Ends == {LF, CR, Space}

Letters(z, i, j) == \A k \in i .. j - 1 : z[k] \notin Ends

Lowered(z, i, j) == [k \in 1 .. j - i |-> Lower[z[i + k - 1]]]

(* What the command buffer makes of the bytes of z from i on, before j. *)
Spelt(z, i, j) == CmdValue(Lowered(z, i, j))

BytesTo(z, m) == \A k \in 0..m : z[k] \in Byte

(* The argument of the request, and the filter it stands for. *)
Names(word, f) ==
    \/ word = <<>> /\ f = [c \in Byte |-> c]
    \/ word = Word["tolower"] /\ f = Lower
    \/ word = Word["toupper"] /\ f = Upper

(* A session with one request: z is what the client sends.  The word       *)
(* "echo" ends at e, its argument begins at s and ends at K, where the     *)
(* data b begins, whose end is found at N; then comes the word "quit",     *)
(* which ends at h.  M is the last byte.                                   *)
(*                                                                         *)
(* getEoD gives up a byte at the end of data and leaves in its place what  *)
(* lies there.  It is one of the last bytes of the data, which must not    *)
(* be taken for a command.                                                 *)
Session(r) ==
    /\ {r.e, r.s, r.K, r.N, r.h, r.M} \subseteq Nat
    /\ r.e <= r.s /\ r.s <= r.K /\ (r.e = r.s => r.s = r.K)
    /\ r.N + 2 <= r.h /\ r.h <= r.M
    /\ BytesTo(r.z, r.K + r.M) /\ \A k \in 0..r.M : r.b[k] = r.z[r.K + k]
    /\ Letters(r.z, 0, r.e) /\ Spelt(r.z, 0, r.e) = Word["echo"]
    /\ \A k \in r.e .. r.s - 1 : r.z[k] = Space
    /\ Letters(r.z, r.s, r.K) /\ r.z[r.K] \in {CR, LF}
    /\ Names(Spelt(r.z, r.s, r.K), r.f)
    /\ Requested(r.N, r.b, r.q, r.dst, r.f, r.text)
    /\ \A k \in r.dst[r.N] .. r.N :
          r.b[k] \in Ends \/ CmdValue(<<Lower[r.b[k]]>>) = <<>>
    /\ r.b[r.N + 1] = LF
    /\ Letters(r.b, r.N + 2, r.h) /\ r.b[r.h] \in Ends
    /\ Spelt(r.b, r.N + 2, r.h) = Word["quit"]

(* What the client has been sent when it is asked for a command, when it   *)
(* is asked for the data, when it is asked for the next command, and at    *)
(* the end.                                                                *)
Told == <<"expecting command">>

Before == Append(Told, "enter data")

ToldAgain(r) == Append(Before \o r.text[r.N], "expecting command")

Whole(r) == Append(ToldAgain(r), "bye")

(* What the client sends, and what it expects for it. *)
OneEcho(c, r) ==
    /\ Session(r)
    /\ Len(c.ask) = r.K + r.M + 1 /\ \A k \in 0 .. r.K + r.M : c.ask[k + 1] = r.z[k]
    /\ c.answer = Whole(r)

(* What the words and the bytes must be for it: no word is another, and    *)
(* the bytes that end a line and the blank are three.                      *)
Different == \A v, w \in DOMAIN Word : Word[v] = Word[w] => v = w

LineEnds == Space \notin {CR, LF} /\ CR # LF
===============================================================================
