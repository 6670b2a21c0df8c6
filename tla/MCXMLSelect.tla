------------------------------ MODULE MCXMLSelect ------------------------------
(* Instances of XMLSelect: documents and the paths that are selected.      *)
EXTENDS XMLSelect

Piece(src, type, text) == [src |-> src, item |-> [type |-> type, text |-> text]]

Written(pieces) ==
    [src |-> FlattenSeq([i \in DOMAIN pieces |-> pieces[i].src]),
     items |-> [i \in DOMAIN pieces |-> pieces[i].item]]

Ends == Piece(<<"0">>, "Exit", <<>>)

OpenA == Piece(<<"<", "a", ">">>, "OpenTag", <<"a">>)
OpenB == Piece(<<"<", "b", ">">>, "OpenTag", <<"b">>)
OpenC == Piece(<<"<", "c", ">">>, "OpenTag", <<"c">>)
CloseA == Piece(<<"<", "/", "a", ">">>, "CloseTag", <<"a">>)
CloseB == Piece(<<"<", "/", "b", " ", ">">>, "CloseTag", <<"b">>)
CloseC == Piece(<<"<", "/", "c", ">", "\n">>, "CloseTag", <<"c">>)
Word(w) == Piece(w, "Content", w)

(* A header, attributes in quotes and without, an element without content. *)
Header ==
    Written(<<Piece(<<"<", "?", "x", "m", "l", " ", "x", "=">>, "HeaderAttribName", <<"x">>),
              Piece(<<"\"", "1", "\"">>, "HeaderAttribValue", <<"1">>),
              Piece(<<"?", ">">>, "HeaderEnd", <<>>),
              Piece(<<"<", "a", " ">>, "OpenTag", <<"a">>),
              Piece(<<"x", "=">>, "TagAttribName", <<"x">>),
              Piece(<<"'", "1", " ", "2", "'">>, "TagAttribValue", <<"1", " ", "2">>),
              Piece(<<" ", "y", "=">>, "TagAttribName", <<"y">>),
              Piece(<<"1", ">">>, "TagAttribValue", <<"1">>),
              Piece(<<"<", "b", " ">>, "OpenTag", <<"b">>),
              Piece(<<"x", "=">>, "TagAttribName", <<"x">>),
              Piece(<<"\"", "1", "\"">>, "TagAttribValue", <<"1">>),
              Piece(<<"/", ">">>, "CloseTagIm", <<>>),
              CloseA, Ends>>)

(* Entities, and a character of two bytes. *)
Entities ==
    Written(<<OpenA, Piece(<<"&", "l", "t", ";", "k">>, "Content", <<"<", "k">>),
              Piece(<<" ", "&", "#", "6", "5", ";">>, "Content", <<"A">>),
              Piece(<<"\n", "lead", "trail", "k">>, "Content", <<"lead", "trail", "k">>),
              CloseA, Ends>>)

Hexadecimal ==
    Written(<<OpenA, Piece(<<"&", "#", "x", "4", "1", ";">>, "Content", <<"A">>),
              Piece(<<" ", "&", "x", " ">>, "Content", <<"&", "x">>),
              CloseA, Ends>>)

(* Names that repeat below themselves, and come again beside. *)
Nested ==
    Written(<<OpenA, Word(<<"k">>), OpenA, OpenB, Word(<<"k">>), CloseB, Word(<<"l">>),
              CloseA, OpenB, Word(<<"m">>), OpenC, Word(<<"n">>), CloseC, CloseB,
              OpenC, Word(<<"o">>), CloseC, CloseA, Ends>>)

(* An end that comes too early, a text that is too long, and an element    *)
(* that is too deep.                                                       *)
Short == Written(<<OpenA, Word(<<"k">>), Ends>>)

Long ==
    Written(<<OpenA, Word(<<"k", "k", "k", "k", "k", "k", "k", "k", "k">>), CloseA, Ends>>)

Deep ==
    Written(<<OpenA, OpenA, OpenA, OpenB, CloseB, CloseA, CloseA, CloseA, Ends>>)

(* An entity that does not fit. *)
LongEntity ==
    Written(<<OpenA,
              Piece(<<"k", "k", "k", "k", "k", "k", "k", "k", "k", "&", "l", "t", ";">>,
                    "Content", <<"k", "k", "k", "k", "k", "k", "k", "k", "k", "<">>),
              CloseA, Ends>>)

MCDocument == <<Header, Entities, Hexadecimal, Nested, Short, Long, LongEntity, Deep>>

(* What the iterator asks for, and others that call nextItem(): the text   *)
(* of everything, of some items, of nothing.                               *)
MCMasks ==
    {{"OpenTag", "CloseTag", "Content"} \cup Attribs \cup AttribValues,
     {"OpenTag", "Content"}, {"CloseTag"} \cup AttribValues, {}}

Tag(name) == [op |-> "Tag", key |-> <<name>>]
AnyTag == [op |-> "Tag", key |-> NoKey]
Attribute(name) == [op |-> "Attribute", key |-> <<name>>]
AttributeIs(name, value) == [op |-> "AttributeIs", key |-> <<name>>, value |-> <<value>>]
Below == [op |-> "Follow"]
Text == [op |-> "Content"]
Only(from, to) == [op |-> "Range", from |-> from, to |-> to]
As(type) == [op |-> "Push", type |-> type]

(* Paths that share steps, that look below, and that look for attributes.  *)
(* Not among them: an end of a path behind two steps that go on (it takes  *)
(* the place of the second) and a step beside one for any name (it takes   *)
(* its place).                                                             *)
MCPath ==
    << <<<<Tag("a"), Tag("b"), Text, As(1)>>, <<Tag("a"), Tag("c"), Text, As(2)>>,
         <<Tag("a"), Tag("b"), Tag("c"), As(3)>>>>,
       <<<<Below, Tag("a"), Tag("b"), Text, As(1)>>, <<Tag("a"), Text, As(2)>>>>,
       <<<<Below, Tag("a"), As(1)>>, <<Below, Tag("b"), Text, As(2)>>>>,
       <<<<Tag("a"), Attribute("x"), As(1)>>, <<Tag("a"), Tag("b"), AttributeIs("x", "1"), As(2)>>>>,
       <<<<Below, Tag("a"), Attribute("x"), As(1)>>, <<Below, Tag("a"), Text, As(2)>>>>,
       <<<<Tag("a"), Below, Tag("b"), Text, As(1)>>, <<Below, Tag("c"), Text, As(2)>>>>,
       <<<<Attribute("x"), As(1)>>>>,
       <<<<Tag("a"), AnyTag, Text, As(1)>>>>,
       <<<<Below, Tag("a"), Text, Only(0, 2), As(1)>>>> >>
===============================================================================
