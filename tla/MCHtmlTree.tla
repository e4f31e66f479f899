----------------------------- MODULE MCHtmlTree -----------------------------
(***************************************************************************)
(* HtmlTree on a small document: two elements with white space between     *)
(* them and a comment before, one with a text, and a fragment of a text    *)
(* and an element.                                                         *)
(***************************************************************************)
EXTENDS HtmlTree

Element(tag, classes) ==
  [kind |-> "element", tag |-> tag,
   attrs |-> IF classes = <<>> THEN <<>> ELSE <<Plain, "class">> :> classes]
Txt(w) == [kind |-> "text", text |-> w]
Document == [kind |-> "document"]

\* <html><head></head><body><!--z--><a class=c>x</a> <b></b></body></html>
Page ==
  [value |-> <<Document, Element("html", <<>>), Element("head", <<>>), Element("body", <<>>),
               Element("a", <<"c">>), Txt("x"), Txt(Blank), Element("b", <<>>),
               [kind |-> "comment", text |-> "z"]>>,
   up |-> <<0, 1, 2, 2, 4, 5, 4, 4, 4>>,
   once |-> [n \in 1 .. 9 |-> NothingRead],
   kids |-> <<<<2>>, <<3, 4>>, <<>>, <<9, 5, 7, 8>>, <<6>>, <<>>, <<>>, <<>>, <<>>>>]

MCDocuments == {Page}

Sub(v, k) == [value |-> v, kids |-> k]
MCFragments ==
  {<<Sub(Element("html", <<>>), <<Sub(Txt("y"), <<>>), Sub(Element("b", <<"c">>), <<>>)>>)>>}

MCWords == {<<"c">>}

Sep(k) == [kind |-> k, parts |-> <<>>]
Cmp(parts) == [kind |-> "compound", parts |-> parts]
Tag(t) == [part |-> "tag", name |-> t]
Class(c) == [part |-> "class", name |-> c]
Pseudo(p, a) == [part |-> "pseudo", name |-> p, arg |-> a]
Att(n, op, v) == [part |-> "attr", name |-> n, op |-> op, value |-> v]
A == Cmp(<<Tag("a")>>)
B == Cmp(<<Tag("b")>>)

Typed ==
  {<<Sep(" "), Cmp(<<Tag("body")>>), Sep(" "), Sep(">"), Sep(" "), B, Sep(","), A, Sep(" "), Cmp(<<Pseudo("contains", "x")>>),
     Sep(","), A, Sep("~"), B>>,
   <<Cmp(<<Pseudo("has", <<Sep(">"), B>>)>>), Sep(" "), Cmp(<<Att("class", "=", <<"c">>), Pseudo("not", <<B, Sep(","), Cmp(<<Tag("head")>>)>>)>>)>>,
   <<Cmp(<<Tag("html")>>), Sep(">"), Cmp(<<>>), Sep(">"), Cmp(<<Pseudo("first", 0), Att("class", "~=", <<"y">>)>>), Sep(","),
     B, Sep("~"), A, Sep(","), Cmp(<<Class("c")>>), Sep(" "), B, Sep(",")>>,
   <<A, Sep(" "), Sep("+"), Sep(" "), B>>}

MCQueries ==
  {ParseGroups(q) : q \in Typed \cup {<<Cmp(<<Class("c")>>), Sep(","), Cmp(<<Tag("a"), [part |-> "id", name |-> "c"]>>)>>}}
=============================================================================
