------------------------------- MODULE XMLSelect -------------------------------
(***************************************************************************)
(* The path selection of textwolf (src/examples/xmlselect/textwolf.hpp):   *)
(* an automaton is built from paths, and XMLPathSelect runs it over the    *)
(* items that the scanner of XMLScanner returns.  A caller may also take   *)
(* these items himself, one after the other.                               *)
(*                                                                         *)
(* The document comes in blocks.  The iterator of the scanner lets through *)
(* what its input throws at the end of a block, and a caller feeds the     *)
(* next one and calls again.  The iterator of the selection may throw only *)
(* textwolf's own exception: a block that ends before the document does    *)
(* ends the program.                                                       *)
(*                                                                         *)
(* Indices count from one here, and 0 stands for the -1 of the code.       *)
(***************************************************************************)
EXTENDS XMLScanner, Functions

CONSTANTS
    Path,           \* sequences of paths; a path is the calls that define it
    Masks,          \* the items whose text a caller without paths asks for
    MaxScopes, MaxFollows, MaxTriggers, MaxTokens

NoKey == <<"no key">>

Name == Seq(STRING) \cup {NoKey}

(* The calls by which a caller defines a path, one after the other. *)
PathCall ==
    [op : {"Follow", "Content"}] \cup [op : {"Tag", "Attribute"}, key : Name]
    \cup [op : {"AttributeIs"}, key : Name, value : Name]
    \cup [op : {"Range"}, from : Int, to : Int] \cup [op : {"Push"}, type : Int]

(* There is room for something. *)
ASSUME SelectAssumption ==
    /\ MaxScopes \in Nat \ {0} /\ MaxTokens \in Nat \ {0}
    /\ MaxFollows \in Nat \ {0} /\ MaxTriggers \in Nat \ {0}
    /\ Path \in Seq(Seq(Seq(PathCall)))

VARIABLES
    paths,          \* the index of the paths that are selected, 0 without any
    lists,          \* the active scope, follows, triggers and tokens
    scopestk,       \* the scopes that are open around it
    context,        \* the item that is processed
    count,          \* the number of items that were processed
    outs,           \* the types that were returned for the last of them
    result          \* what the iterator says of itself

select == <<paths, lists, scopestk, context, count, outs, result>>
vars   == <<doc, fed, pos, place, state, tokstate, out, item,
            paths, lists, scopestk, context, count, outs, result>>

-------------------------------------------------------------------------------
(* The automaton.                                                          *)

(* What step makes of base with the elements of seq, one after the other. *)
OneByOne(step(_, _), base, seq) ==
    LET made[n \in 0 .. Len(seq)] == IF n = 0 THEN base ELSE step(made[n - 1], seq[n])
    IN made[Len(seq)]

Attribs      == {"TagAttribName", "HeaderAttribName"}
AttribValues == {"TagAttribValue", "HeaderAttribValue"}

(* Mask::seekop(): the items that are looked for, and those that end it. *)
Seek(op) ==
    CASE op = "Tag"       -> {"OpenTag"}
      [] op = "Attribute" -> Attribs
      [] op = "ThisAttributeValue" -> AttribValues
      [] op = "Content"   -> {"Content"}
      [] OTHER -> {}

Reject(op) ==
    CASE op = "Attribute" -> {"Content"}
      [] op = "ThisAttributeValue" -> Attribs \cup {"Content", "OpenTag"}
      [] OTHER -> {}

NewState == [pos |-> {}, neg |-> {}, follow |-> FALSE, type |-> 0,
             from |-> 0, to |-> -1, key |-> NoKey, next |-> 0, link |-> 0]

IsEmpty(s) == s.key = NoKey /\ s.type = 0

(* A state and those linked behind it. *)
Chain(states, i) ==
    LET chain[j \in 0 .. Len(states)] ==
            IF j = 0 THEN <<>> ELSE <<j>> \o chain[states[j].link]
    IN chain[i]

(* A state that can be filled: i, or a new one that is linked to it. *)
Free(states, i) ==
    IF IsEmpty(states[i]) THEN [states |-> states, at |-> i]
    ELSE [states |-> Append([states EXCEPT ![i].link = Len(states) + 1], NewState),
          at |-> Len(states) + 1]

Begun(states) == IF states = <<>> THEN <<NewState>> ELSE states

(* A step of a path, which shares the state of a step that is the same. *)
DefineNext(b, op, key) ==
    LET states == Begun(b.states)
        chain  == Chain(states, b.at)
        Same(i) == /\ key # NoKey /\ states[i].key = key
                   /\ states[i].follow = b.follow
    IN IF \E j \in DOMAIN chain : Same(chain[j])
       THEN [b EXCEPT !.states = states,
                      !.at = states[chain[SelectInSeq(chain, Same)]].next]
       ELSE LET free == Free(states, Last(chain))
                next == Len(free.states) + 1
            IN [b EXCEPT
                  !.states = Append([free.states EXCEPT
                                       ![free.at].pos = @ \cup Seek(op),
                                       ![free.at].neg = @ \cup Reject(op),
                                       ![free.at].key = key,
                                       ![free.at].next = next,
                                       ![free.at].follow = b.follow], NewState),
                  !.at = next]

(* The end of a path.  It is linked behind the state itself, and what was  *)
(* linked there is lost.                                                   *)
DefineOutput(b, type) ==
    LET free == Free(Begun(b.states), b.at) IN
    [b EXCEPT !.states = [free.states EXCEPT
                            ![free.at].pos = b.pos, ![free.at].neg = b.neg,
                            ![free.at].type = type,
                            ![free.at].from = b.from, ![free.at].to = b.to,
                            ![free.at].follow = b.follow],
              !.at = free.at]

Prints(b, op) == [b EXCEPT !.pos = Seek(op), !.neg = Reject(op)]

(* A call of the path that is defined. *)
Define(b, call) ==
    CASE call.op = "Follow" -> [b EXCEPT !.follow = TRUE]
      [] call.op = "Tag" -> DefineNext(b, "Tag", call.key)
      [] call.op = "Attribute" ->
            Prints(DefineNext(b, "Attribute", call.key), "ThisAttributeValue")
      [] call.op = "AttributeIs" ->
            DefineNext(DefineNext(b, "Attribute", call.key), "ThisAttributeValue", call.value)
      [] call.op = "Content" -> Prints(b, "Content")
      [] call.op = "Range" ->
            IF b.to = -1 THEN [b EXCEPT !.from = call.from, !.to = call.to]
            ELSE IF call.to < b.to THEN [b EXCEPT !.to = call.to]
            ELSE IF call.from > b.from THEN [b EXCEPT !.from = call.from]
            ELSE b
      [] call.op = "Push" -> DefineOutput(b, call.type)

(* A path is defined from the start of the automaton, call by call. *)
Start(states) ==
    [states |-> states, at |-> 1, follow |-> FALSE, pos |-> {}, neg |-> {},
     from |-> 0, to |-> -1]

DefinePath(states, path) ==
    OneByOne(Define, Start(states), path).states

AutomatonOf(defs) == OneByOne(DefinePath, <<>>, defs)

Automaton == [i \in DOMAIN Path |-> AutomatonOf(Path[i])]

Atm == Automaton[paths]

-------------------------------------------------------------------------------
(* The selection.                                                          *)

(* A state's alternatives become tokens of the scope.  One that has        *)
(* nothing to look for is found.                                           *)
ExpandState(l, i) ==
    LET s == Atm[i]
        follows == IF s.follow THEN Append(l.follows, Len(l.tokens) + 1) ELSE l.follows
    IN IF s.pos = {} /\ s.type # 0
       THEN [l EXCEPT !.triggers = Append(@, s.type)]
       ELSE [l EXCEPT !.scope.mask = @ \cup s.pos,
                      !.scope.followMask = IF s.follow THEN @ \cup s.pos ELSE @,
                      !.follows = follows,
                      !.tokens = Append(@, [pos |-> s.pos, neg |-> s.neg, type |-> s.type,
                                            from |-> s.from, to |-> s.to, state |-> i])]

Expand(l, i) == OneByOne(ExpandState, l, Chain(Atm, i))

Fit(l) == /\ Len(l.follows) <= MaxFollows /\ Len(l.tokens) <= MaxTokens
          /\ Len(l.triggers) <= MaxTriggers

NewLists == [scope |-> [mask |-> {}, followMask |-> {}, from |-> 0, to |-> 0, followidx |-> 0],
             follows |-> <<>>, triggers |-> <<>>, tokens |-> <<>>]

(* Without paths the mask is the caller's, and nothing else is there. *)
Init ==
    /\ ScannerInit
    /\ \/ paths = 0 /\ \E mask \in Masks : lists = [NewLists EXCEPT !.scope.mask = mask]
       \/ /\ paths \in DOMAIN Path
          /\ lists = Expand(NewLists, IF Atm = <<>> THEN 0 ELSE 1) /\ Fit(lists)
    /\ scopestk = <<>>
    /\ context = [type |-> "Content", key |-> NoKey, iter |-> 0]
    /\ count = 0 /\ outs = <<>> /\ result = "Ok"

(* A block of the document, after nextItem() asked for it. *)
Feed ==
    /\ paths = 0 /\ item.type = "EndOfBuffer"
    /\ fed' \in fed + 1 .. Len(Bytes)
    /\ item' = NoItem
    /\ UNCHANGED <<doc, pos, place, state, tokstate, out, select>>

(* The iterator asks for an item. *)
NextItem ==
    /\ result = "Ok" /\ context.key = NoKey /\ item = NoItem
    /\ Call(lists.scope.mask)
    /\ UNCHANGED select

Scan == Runs(lists.scope.mask) /\ UNCHANGED select

(* skip() is declared throw(exception), and what ended the block is none:  *)
(* std::unexpected() ends the program. *)
Unexpected ==
    /\ paths # 0 /\ result = "Ok" /\ place = "ready" /\ item.type = "EndOfBuffer"
    /\ result' = "Terminated"
    /\ UNCHANGED <<paths, lists, scopestk, context, count, outs, input, scan>>

(* A caller without paths takes the item. *)
TakeItem ==
    /\ paths = 0 /\ result = "Ok" /\ place = "ready"
    /\ item.type \notin {"None", "EndOfBuffer", "Exit", "ErrorOccurred"}
    /\ item' = NoItem /\ count' = count + 1
    /\ UNCHANGED <<paths, lists, scopestk, context, outs, result, input,
                   pos, place, state, tokstate, out>>

(* The items end, or there is an error. *)
End ==
    /\ result = "Ok" /\ place = "ready" /\ item.type \in {"Exit", "ErrorOccurred"}
    /\ result' = CASE item.type = "Exit" /\ scopestk = <<>> -> "EndOfInput"
                   [] paths # 0 /\ item.text = <<"OutputBufferTooSmall">> -> "EndOfOutput"
                   [] OTHER -> "ErrorState"
    /\ UNCHANGED <<paths, lists, scopestk, context, count, outs, input, scan>>

(* The scope after the one before this item. *)
NextScope ==
    [lists.scope EXCEPT !.from = IF context.type = "OpenTag" THEN lists.scope.to ELSE @,
                        !.to = Len(lists.tokens),
                        !.followidx = Len(lists.follows)]

Opens(scope) ==
    /\ scopestk' = Append(scopestk, scope)
    /\ lists' = [lists EXCEPT
                   !.scope = [scope EXCEPT !.mask = scope.followMask \cup {"OpenTag"}]]

(* Bug: the candidates of the element that ends stay. *)
ClosesKeeping(scope) ==
    IF scopestk = <<>>
    THEN lists' = [lists EXCEPT !.scope = scope] /\ UNCHANGED scopestk
    ELSE /\ scopestk' = Front(scopestk)
         /\ lists' = [lists EXCEPT !.scope = Last(scopestk)]

Closes(scope) ==
    IF scopestk = <<>>
    THEN lists' = [lists EXCEPT !.scope = scope] /\ UNCHANGED scopestk
    ELSE /\ scopestk' = Front(scopestk)
         /\ lists' = [lists EXCEPT !.scope = Last(scopestk),
                                   !.follows = SubSeq(@, 1, Last(scopestk).followidx),
                                   !.tokens = SubSeq(@, 1, Last(scopestk).to)]

(* initProcessElement() *)
InitProcessElement(scope) ==
    /\ result = "Ok" /\ place = "ready"
    /\ item.type \notin {"None", "EndOfBuffer", "Exit", "ErrorOccurred"}
    /\ context' = [type |-> item.type, key |-> item.text, iter |-> scope.from]
    /\ item' = NoItem /\ count' = count + 1 /\ outs' = <<>>
    /\ CASE item.type = "OpenTag" ->
              IF Len(scopestk) = MaxScopes
              THEN result' = "OutOfMem" /\ UNCHANGED <<lists, scopestk>>
              ELSE Opens(scope) /\ UNCHANGED result
         [] item.type \in {"CloseTag", "CloseTagIm"} -> Closes(scope) /\ UNCHANGED result
         [] OTHER -> lists' = [lists EXCEPT !.scope = scope] /\ UNCHANGED <<scopestk, result>>
    /\ UNCHANGED <<paths, input, pos, place, state, tokstate, out>>

Process == paths # 0 /\ InitProcessElement(NextScope)

-------------------------------------------------------------------------------
(* fetch(): the candidates for the item, one after the other.              *)

Fetching == result = "Ok" /\ context.key # NoKey

Visits  == Fetching /\ context.type \in lists.scope.mask
Visited == context.iter >= lists.scope.to

(* The token of an outer scope that comes next. *)
Outer == context.iter - lists.scope.to + 1

HasOuter == /\ Outer <= lists.scope.followidx
            /\ lists.follows[Outer] <= lists.scope.from

Emits(type) == outs' = IF type = 0 THEN outs ELSE Append(outs, type)

(* A token counts what it matched, and is over after the last. *)
Hit(tk) == tk.to = -1 \/ (tk.to > 0 /\ tk.from <= 0)

Over(tk) == [tk EXCEPT !.pos = {}, !.neg = {}]

Counted(tk) ==
    LET t == [tk EXCEPT !.to = @ - 1, !.from = IF @ <= 0 THEN @ ELSE @ - 1] IN
    IF tk.to <= 0 THEN tk ELSE IF tk.to = 1 THEN Over(t) ELSE t

(* A name matches a longer one that starts with it. *)
Matches(tk) ==
    \/ Atm[tk.state].key = NoKey
    \/ IsPrefix(context.key, Atm[tk.state].key)

(* match(): an end of a path counts twice. *)
Match(i) ==
    LET tk    == lists.tokens[i]
        hits  == context.type \in tk.pos
        right == hits /\ Matches(tk)
        once  == IF right THEN Counted(tk) ELSE tk
        ends  == hits /\ tk.type # 0
        twice == IF ends THEN Counted(once) ELSE once
        l     == IF right /\ Hit(tk) THEN Expand(lists, Atm[tk.state].next) ELSE lists
    IN IF Fit(l)
       THEN /\ lists' = [l EXCEPT !.tokens[i] =
                            IF context.type \in twice.neg THEN Over(twice) ELSE twice]
            /\ context' = [context EXCEPT !.iter = @ + 1]
            /\ Emits(IF ends /\ Hit(once) THEN tk.type ELSE 0)
            /\ UNCHANGED result
       ELSE result' = "OutOfMem" /\ UNCHANGED <<lists, context, outs>>

Fetched == UNCHANGED <<paths, scopestk, count, input, scan>>

MatchToken == Visits /\ ~Visited /\ Match(context.iter + 1) /\ Fetched

MatchFollow == Visits /\ Visited /\ HasOuter /\ Match(lists.follows[Outer]) /\ Fetched

PopTrigger ==
    /\ Visits /\ Visited /\ ~HasOuter /\ lists.triggers # <<>>
    /\ Emits(Last(lists.triggers))
    /\ lists' = [lists EXCEPT !.triggers = Front(@)]
    /\ UNCHANGED <<context, result>> /\ Fetched

(* There are no more candidates, or there is none for such an item. *)
EndOfCandidates ==
    /\ Fetching
    /\ Visits => Visited /\ ~HasOuter /\ lists.triggers = <<>>
    /\ context' = [context EXCEPT !.key = NoKey]
    /\ UNCHANGED <<lists, outs, result>> /\ Fetched

Next == \/ Feed \/ NextItem \/ Scan \/ Unexpected \/ TakeItem \/ End \/ Process
        \/ MatchToken \/ MatchFollow \/ PopTrigger \/ EndOfCandidates

Spec == Init /\ [][Next]_vars

-------------------------------------------------------------------------------
(* What is promised.                                                       *)

Items == Document[doc].items

(* Wherever the blocks are cut, the scanner returns the items that are     *)
(* written in the document, in their order, each once; the text is whole   *)
(* when somebody looks for it, unless it does not fit.  The one cut it     *)
(* does not survive is the one right behind "<?xml": the keyword is looked *)
(* for a second time.  (Of a selection this is said up to the end of its   *)
(* first block.)                                                           *)
ItemsAsWritten ==
    place = "ready" =>
        CASE item.type \in {"None", "EndOfBuffer"} -> TRUE
          [] item.type = "ErrorOccurred" ->
                \/ state = "XTAG" /\ item.text = <<"SyntaxToken">>
                \/ /\ item.text \in {<<"OutputBufferTooSmall">>, <<"UndefinedCharacterEntity">>}
                   /\ Len(Items[count + 1].text) + 8 > OutSize
          [] item.type = "Exit" -> count = Len(Items) - 1
          [] OTHER ->
                /\ count < Len(Items) /\ item.type = Items[count + 1].type
                /\ item.type \in lists.scope.mask => item.text = Items[count + 1].text

(* The names that are open after n items. *)
Open(n) ==
    LET open[i \in 0 .. n] ==
            IF i = 0 THEN <<>>
            ELSE CASE Items[i].type = "OpenTag" -> Append(open[i - 1], Items[i].text)
                   [] Items[i].type \in {"CloseTag", "CloseTagIm"} -> Front(open[i - 1])
                   [] OTHER -> open[i - 1]
    IN open[n]

Tags(path) == SelectSeq(path, LAMBDA call : call.op = "Tag")

(* Whether "//" stands before a call. *)
Follows(path, i) == \E j \in 1 .. i : path[j].op = "Follow"

(* The ways in which the steps of a path lead to the innermost of the open *)
(* names, or to any of them.                                               *)
Ways(path, open, anywhere) ==
    LET calls == SelectInSeq(path, LAMBDA c : c.op \notin {"Follow", "Tag"}) - 1
        ways[i \in 0 .. calls, n \in 0 .. Len(open)] ==
            IF i = 0 THEN IF n = 0 THEN 1 ELSE 0
            ELSE IF path[i].op = "Follow" THEN ways[i - 1, n]
            ELSE IF n = 0 \/ path[i].key \notin {NoKey, open[n]} THEN 0
            ELSE IF Follows(path, i)
                 THEN FoldFunction(+, 0, [m \in 0 .. n - 1 |-> ways[i - 1, m]])
                 ELSE ways[i - 1, n - 1]
    IN IF anywhere THEN FoldFunction(+, 0, [n \in 0 .. Len(open) |-> ways[calls, n]])
       ELSE ways[calls, Len(open)]

(* Whether an item is one of those the end of a path names. *)
Names(path, n) ==
    LET last == path[SelectInSeq(path, LAMBDA c : c.op \notin {"Follow", "Tag"})] IN
    CASE last.op = "Content"   -> Items[n].type = "Content"
      [] last.op = "Attribute" -> Items[n].type \in AttribValues /\ Items[n - 1].text = last.key
      [] last.op = "AttributeIs" ->
            /\ Items[n].type \in AttribValues /\ Items[n].text = last.value
            /\ Items[n - 1].text = last.key
      [] OTHER -> Items[n].type = "OpenTag"

Selected(path, n) ==
    IF ~Names(path, n) THEN 0
    ELSE Ways(path, Open(n), /\ Follows(path, Len(path)) /\ Items[n].type # "OpenTag")

TypeOf(path) == Last(path).type

Ranged(path) == \E i \in DOMAIN path : path[i].op = "Range"

(* An item is returned for a path once for every way in which the path     *)
(* leads to it, and never otherwise; a range may only take some away.  The *)
(* items are those of the first block, with which the selection ends.      *)
SelectionIsRight ==
    paths # 0 /\ result = "Ok" /\ item = NoItem /\ context.key = NoKey /\ count > 0 =>
        \A i \in DOMAIN Path[paths] :
            LET path == Path[paths][i]
                got  == Cardinality({k \in DOMAIN outs : outs[k] = TypeOf(path)})
            IN IF Ranged(path) THEN got <= Selected(path, count)
               ELSE got = Selected(path, count)

(* XMLSelectIterator::skip() catches the end of a block and reports        *)
(* EndOfBuffer, so that a caller goes on with the next (xmlIterator.cpp:   *)
(* 371-374): the end of a block does not end the selection.                *)
SelectionGoesOn == result # "Terminated"
===============================================================================
