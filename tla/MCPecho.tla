-------------------------------- MODULE MCPecho --------------------------------
(***************************************************************************)
(* Clients for model checking, built the way tests/pechoHandler-gTest.cpp  *)
(* builds its tests: what is sent and, next to it, what is expected.       *)
(***************************************************************************)
EXTENDS PechoSession, TLC, SequencesExt

CONSTANTS
    Bodies,         \* what a line of data may be
    MaxLines,       \* lines of data in one echo
    Others,         \* other requests before the echo
    Echos           \* echo requests in one session

MCByte == {"e", "x", "X", "a", "dot", "cr", "lf", "sp"}

MCAlnum == {"e", "x", "X", "a"}

MCWord == [caps |-> <<"x", "e">>, echo |-> <<"e", "x">>, quit |-> <<"e">>,
           tolower |-> <<"x">>, toupper |-> <<"x", "x">>]

Identity == [b \in MCByte |-> b]
MCUpper == [b \in MCByte |-> IF b = "x" THEN "X" ELSE b]
MCLower == [b \in MCByte |-> IF b = "X" THEN "x" ELSE b]

CRLF == <<"cr", "lf">>

(* A request: what the client sends, and what it is sent for it. *)
Request(ask, answer) == [ask |-> ask, answer |-> answer]

(* The requests that are not an echo: none, an empty line, the letter that *)
(* counts as no command, "caps", and the errors.  What follows a wrong     *)
(* argument, or blanks, is taken for the next command.                     *)
None     == Request(<<>>, <<>>)
Blank    == Request(<<"sp">> \o CRLF, <<>>)
Unnamed  == Request(<<"a">> \o CRLF, <<>>)
Caps     == Request(MCWord.caps \o CRLF, <<"caps">>)
Bad      == <<"bad", "expecting command">>
Unknown  == Request(<<"x", "x">> \o CRLF, Bad)
Indented == Request(<<"sp", "x", "x">> \o CRLF, Bad \o Bad)
Filtered == Request(MCWord.echo \o <<"sp", "e">> \o CRLF, Bad)
TooMany  == Request(MCWord.echo \o <<"sp", "x", "sp", "a">> \o CRLF, Bad)

NoOthers == {None}

MCOthers == {None, Blank, Unnamed, Caps, Unknown, Indented, Filtered, TooMany}

MCBodies == {<<>>, <<"x">>, <<"dot", "x">>, <<"dot", "dot">>, <<"X", "dot", "X">>}

OneBody == {<<"x">>}

DotBody == {<<"dot", "x">>}

Lines == {body \o CRLF : body \in Bodies}

Contents == {FlattenSeq(lines) : lines \in BoundedSeq(Lines, MaxLines)}

(* escape(): a dot that begins a line is left out. *)
Unescaped(content) ==
    LET kept == {i \in DOMAIN content :
                    content[i] = "dot" => i > 1 /\ content[i - 1] # "lf"}
    IN [k \in 1 .. Cardinality(kept) |->
           content[CHOOSE i \in kept :
                       Cardinality({j \in kept : j <= i}) = k]]

Apply(f, s) == [i \in DOMAIN s |-> f[s[i]]]

EchoOf(content, f, args) ==
    Request(MCWord.echo \o args \o CRLF \o content \o <<"dot">> \o CRLF,
            <<"enter data">> \o CRLF \o Apply(f, Unescaped(content))
                \o <<"expecting command">>)

EchoRequests ==
    {EchoOf(c, Identity, <<>>) : c \in Contents}
        \cup {EchoOf(c, MCUpper, <<"sp">> \o MCWord.toupper) : c \in Contents}
        \cup {EchoOf(c, MCLower, <<"sp">> \o MCWord.tolower) : c \in Contents}
        \cup {EchoOf(c, MCUpper, <<"sp">> \o MCWord.toupper \o <<"sp">>) : c \in Lines}

(* One other request and a plain echo, or any echos. *)
Sessions ==
    {<<other, EchoOf(CRLF, Identity, <<>>)>> : other \in Others}
        \cup [1..Echos -> EchoRequests]

ClientOf(s) ==
    Request(FlattenSeq([i \in DOMAIN s |-> s[i].ask]) \o MCWord.quit \o CRLF,
            <<"expecting command">>
                \o FlattenSeq([i \in DOMAIN s |-> s[i].answer]) \o <<"bye">>)

MCClient == {ClientOf(s) : s \in Sessions}

(* The session of a client that asks for an echo, with the filter f for    *)
(* the argument args.                                                      *)
SessionOf(c, f, args) ==
    LET z == [k \in 0 .. Len(c.ask) - 1 |-> c.ask[k + 1]]
        e == Len(MCWord.echo)
        K == e + Len(args)
        M == Len(c.ask) - K - 1
        b == [k \in 0..M |-> z[K + k]]
        q[k \in 0 .. M + 1] == IF k = 0 THEN "SRC" ELSE After(q[k - 1], b[k - 1])
        dst[k \in 0 .. M + 1] ==
            IF k = 0 THEN 0
            ELSE IF Eaten(q[k - 1], b[k - 1]) THEN dst[k - 1] ELSE dst[k - 1] + 1
        text[k \in 0..M] ==
            IF k = 0 THEN <<>>
            ELSE IF Kept(q[k - 1], b[k - 1]) THEN Append(text[k - 1], f[b[k - 1]])
            ELSE text[k - 1]
        N == CHOOSE k \in 0..M : Finds(q[k], b[k])
    IN [z |-> z, b |-> b, f |-> f, e |-> e, s |-> IF args = <<>> THEN e ELSE e + 1,
        K |-> K, M |-> M, N |-> N, h |-> M - 1,
        q |-> Restrict(q, 0 .. N + 1), dst |-> Restrict(dst, 0 .. N + 1),
        text |-> Restrict(text, 0..N)]

Asks(f, args) ==
    \A content \in Contents :
        LET c == ClientOf(<<EchoOf(content, f, args)>>)
        IN Len(SelectSeq(content, LAMBDA b : b = "lf")) <= 2 =>
               OneEcho(c, SessionOf(c, f, args))

(* The clients with one request are those that PechoSession speaks of, and *)
(* expect what it says.  Of three lines that begin with a dot this is not  *)
(* so: the place that getEoD gives up at the end of data holds a letter    *)
(* then (MCPechoDots.cfg).                                                 *)
ASSUME ClientsAsk ==
    /\ Different /\ LineEnds
    /\ Asks(Identity, <<>>)
    /\ Asks(MCUpper, <<"sp">> \o MCWord.toupper)
    /\ Asks(MCLower, <<"sp">> \o MCWord.tolower)
===============================================================================
