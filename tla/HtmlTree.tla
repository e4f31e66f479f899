------------------------------ MODULE HtmlTree ------------------------------
(***************************************************************************)
(* The html imports of an extension (host_html.rs) on one document.  A     *)
(* handle is the document, a node of it or a list of nodes; it stays good  *)
(* whatever is done to the tree.  The extension works on the handle it got *)
(* last or starts again from the document; every import that returns a     *)
(* handle, changes the tree or is the first to read an id or the classes   *)
(* of an element is an action, those that only return text or a number are *)
(* operators.  Arguments outside the extension's memory are refused before *)
(* anything else, and left out.                                            *)
(***************************************************************************)
EXTENDS Selector

CONSTANTS
  Documents,  \* the trees that parsing gives
  Fragments,  \* what parsing a fragment gives: the children of its root,
              \* subtrees [value, kids], one html element in scraper's case
  Words,      \* texts and attribute values to set, as sequences of words
  Queries,    \* the queries the extension makes, as parse_groups reads them
  MaxSteps    \* bound: changes of the tree and first reads of an id or classes

VARIABLES tree, got, steps

vars == <<tree, got, steps>>

DocRoot == [kind |-> "doc", nodes |-> <<Root>>]
NodeOf(n) == [kind |-> "node", nodes |-> <<n>>]
ListOf(s) == [kind |-> "list", nodes |-> s]
Code(c) == [kind |-> "code", nodes |-> <<c>>]
None == Code(-5)

\* store_document: parse and parse_fragment alike parse a whole document.
StoreDocument(t) ==
  /\ tree = t
  /\ got = DocRoot
  /\ steps = 0

Parse == \E t \in Documents : StoreDocument(t)
ParseFragment == Parse

\* html_node: the node a handle stands for, the first of a list, if any.
HtmlNode(h) == IF h.nodes = <<>> THEN {} ELSE {h.nodes[1]}

ContextRoots(h) == h.nodes

(* What the imports return -------------------------------------------------- *)

Kind(h) ==
  CASE h.kind = "doc" -> 7
    [] h.kind = "list" -> 6
    [] h.kind = "node" -> LET k == tree.value[h.nodes[1]].kind
                          IN  CASE k = "element" -> 5 [] k = "comment" -> 4 [] k = "text" -> 2 [] OTHER -> 1

ChildNodes(h) ==
  IF h.kind = "list" THEN Code(-1) ELSE ListOf(tree.kids[h.nodes[1]])

ElementChildrenOf(n) == Elements(tree, tree.kids[n])

Children(h) ==
  ListOf(FlattenSeq([i \in DOMAIN h.nodes |-> ElementChildrenOf(h.nodes[i])]))

\* An answer about the node of the handle, or `absent` when it has none.
OnNode(h, absent, Answer(_)) ==
  IF HtmlNode(h) = {} THEN absent ELSE Answer(h.nodes[1])

OnElement(h, absent, Answer(_)) ==
  LET answer(n) == IF IsElement(tree, n) THEN Answer(n) ELSE absent
  IN  OnNode(h, absent, answer)

Bit(b) == IF b THEN 1 ELSE 0

HasAttr(h, name) == OnElement(h, -1, LAMBDA n : Bit(HasAttribute(tree, n, name)))

OwnText(h) ==
  LET own(n) == LET s == SelectSeq(tree.kids[n], LAMBDA c : IsText(tree, c))
                IN  [i \in DOMAIN s |-> tree.value[s[i]].text]
  IN  OnNode(h, <<>>, own)

\* The texts of an element or of a comment; nothing else has data.
Data(h) ==
  LET data(n) == CASE IsElement(tree, n) -> TextOf(tree, n)
                   [] tree.value[n].kind = "comment" -> <<tree.value[n].text>>
                   [] OTHER -> <<>>
  IN  OnNode(h, <<>>, data)

Id(h) == OnElement(h, <<>>, LAMBDA n : IdOf(tree, n))

TagName(h) == OnElement(h, "", LAMBDA n : tree.value[n].tag)

ClassName(h) == OnElement(h, {}, LAMBDA n : ClassesOf(tree, n))

HasClass(h, c) == OnElement(h, -1, LAMBDA n : Bit(c \in ClassesOf(tree, n)))

First(h) == IF h.kind = "list" /\ h.nodes # <<>> THEN NodeOf(h.nodes[1]) ELSE None

LastOf(h) == IF h.kind = "list" /\ h.nodes # <<>> THEN NodeOf(Last(h.nodes)) ELSE None

Get(h, index) ==
  IF h.kind = "list" /\ index >= 0 /\ index < Len(h.nodes) THEN NodeOf(h.nodes[index + 1]) ELSE None

Size(h) == IF h.kind = "list" THEN Len(h.nodes) ELSE 0

Parent(h) ==
  LET up(n) == IF tree.up[n] = 0 THEN None ELSE NodeOf(tree.up[n])
  IN  OnNode(h, None, up)

SiblingsOf(h) ==
  LET others(n) == IF tree.up[n] = 0 THEN None
                   ELSE ListOf(SelectSeq(Elements(tree, Siblings(tree, n)), LAMBDA s : s # n))
  IN  OnNode(h, None, others)

\* The nearest element after, or before, whatever text lies between.
Next1(h) ==
  LET after(n) == LET s == Elements(tree, Following(tree, n))
                  IN  IF s = <<>> THEN None ELSE NodeOf(s[1])
  IN  OnNode(h, None, after)

\* Mutant: the first element before, instead of the last.
PreviousFirst(h) ==
  LET before(n) == LET s == Elements(tree, Preceding(tree, n))
                   IN  IF s = <<>> THEN None ELSE NodeOf(s[1])
  IN  OnNode(h, None, before)

Previous(h) ==
  LET before(n) == LET s == Elements(tree, Preceding(tree, n))
                   IN  IF s = <<>> THEN None ELSE NodeOf(Last(s))
  IN  OnNode(h, None, before)

Attr(h, name) ==
  OnElement(h, {}, LAMBDA n : IF HasAttribute(tree, n, name) THEN {Attribute(tree, n, name)} ELSE {})

\* text and untrimmed_text join what lies below, list or not; the text of the
\* document is that of its first element and fails when there is none.
UntrimmedText(h) ==
  LET texts == [i \in DOMAIN h.nodes |-> IF IsElement(tree, h.nodes[i]) THEN TextOf(tree, h.nodes[i]) ELSE <<>>]
  IN  FlattenSeq(texts)

DocElement == FirstOf(ElementChildrenOf(Root))

Text(h) ==
  IF h.kind # "doc" THEN {UntrimmedText(h)}
  ELSE IF DocElement = <<>> THEN {} ELSE {TextOf(tree, DocElement[1])}

OuterHtml(h) ==
  LET outer(n) == IF n = Root THEN Shapes(tree, tree.kids[Root])
                  ELSE IF IsElement(tree, n) THEN <<Shape(tree, n)>> ELSE <<>>
  IN  OnNode(h, <<>>, outer)

\* What is inside the node, or every element of a list in full.
Html(h) ==
  IF h.kind = "list" THEN Shapes(tree, Elements(tree, h.nodes))
  ELSE IF h.kind = "doc" \/ IsElement(tree, h.nodes[1]) THEN Shapes(tree, tree.kids[h.nodes[1]])
  ELSE <<>>

\* Root by root: nested roots select what they share twice.
SelectAll(h, q) ==
  IF ContextRoots(h) = <<>> THEN None
  ELSE ListOf(FlattenSeq([i \in DOMAIN h.nodes |-> Select(tree, ContextRoots(h)[i], q)]))

SelectOne(h, q) ==
  LET hits == {i \in DOMAIN h.nodes : SelectFirst(tree, h.nodes[i], q) # <<>>}
  IN  IF hits = {} THEN None
      ELSE NodeOf(SelectFirst(tree, h.nodes[CHOOSE i \in hits : \A j \in hits : i <= j], q)[1])

\* What the two read: every root, and those up to the one with the first hit.
SelectAllReads(h, q) == UNION {SelectReads(tree, h.nodes[i], q) : i \in DOMAIN h.nodes}

SelectOneReads(h, q) ==
  UNION {SelectReads(tree, h.nodes[i], q) :
           i \in {i \in DOMAIN h.nodes : \A j \in 1 .. i - 1 : SelectFirst(tree, h.nodes[j], q) = <<>>}}

(* Navigation ---------------------------------------------------------------- *)

\* The extension keeps the handle it has when it gets a code.
Go(h) ==
  /\ got' = IF h.kind = "code" THEN got ELSE h
  /\ UNCHANGED <<tree, steps>>

Navigate ==
  \/ Go(DocRoot)
  \/ Go(ChildNodes(got))
  \/ Go(Children(got))
  \/ Go(First(got))
  \/ Go(LastOf(got))
  \/ \E i \in 0 .. Size(got) : Go(Get(got, i))
  \/ Go(Parent(got))
  \/ Go(SiblingsOf(got))
  \/ Go(Next1(got))
  \/ Go(Previous(got))

\* The tree is changed, or what a read found in it is kept.
Step(t) == steps < MaxSteps /\ steps' = steps + 1 /\ tree' = t

\* The reads find what nothing has asked for before, or what was kept then.
Read(found) ==
  IF AfterReads(tree, found) = tree THEN UNCHANGED <<tree, steps>> ELSE Step(AfterReads(tree, found))

\* A selection reads ids and classes on its way.
Selecting(h, found) ==
  /\ got' = IF h.kind = "code" THEN got ELSE h
  /\ Read(found)

MakeQuery ==
  \E q \in Queries : \/ Selecting(SelectAll(got, q), SelectAllReads(got, q))
                     \/ Selecting(SelectOne(got, q), SelectOneReads(got, q))

HeldElement == {n \in HtmlNode(got) : IsElement(tree, n)}

\* id, and class_name or has_class, of the element in hand.
ReadId == got' = got /\ \E n \in HeldElement : Read({[node |-> n, of |-> "id"]})

ReadClasses == got' = got /\ \E n \in HeldElement : Read({[node |-> n, of |-> "classes"]})

(* Changes ------------------------------------------------------------------- *)

Edit(t) == got' = got /\ Step(t)

\* A name is written in the namespace of html5ever_qualname, whatever the parser
\* called it.
Qualname(name) == <<Xhtml, name>>

WithAttr(n, name, value) ==
  [tree EXCEPT !.value[n].attrs = (Qualname(name) :> value) @@ @]

WithoutAttr(n, name) ==
  [tree EXCEPT !.value[n].attrs = Restrict(@, DOMAIN @ \ {Qualname(name)})]

SetAttr(name, value) == \E n \in HeldElement : Edit(WithAttr(n, name, value))

RemoveAttr(name) == \E n \in HeldElement : Edit(WithoutAttr(n, name))

ExistingClasses(n) == IF HasAttribute(tree, n, "class") THEN Attribute(tree, n, "class") ELSE <<>>

AddClass(c) ==
  \E n \in HeldElement :
    Edit(IF Contains(ExistingClasses(n), c) THEN tree
         ELSE WithAttr(n, "class", Append(ExistingClasses(n), c)))

RemoveClass(c) ==
  \E n \in HeldElement :
    LET rest == SelectSeq(ExistingClasses(n), LAMBDA x : x # c)
    IN  Edit(IF rest = <<>> THEN WithoutAttr(n, "class") ELSE WithAttr(n, "class", rest))

DetachChildren(t, n) == FoldLeft(LAMBDA acc, c : Detached(acc, c), t, t.kids[n])

\* Mutant: the copies of the children go beside their parent.
AppendCloneFlat(t, p, f) ==
  FoldLeft(LAMBDA acc, g : Appended(acc, p, g.value), Appended(t, p, f.value), f.kids)

\* A copy of a subtree of the fragment as the last child of p.
RECURSIVE AppendClone(_, _, _)
AppendClone(t, p, f) ==
  LET new == Len(t.value) + 1
  IN  FoldLeft(LAMBDA acc, g : AppendClone(acc, new, g), Appended(t, p, f.value), f.kids)

SetText(word) ==
  \E n \in HtmlNode(got) :
    Edit(Appended(DetachChildren(tree, n), n, [kind |-> "text", text |-> word]))

SetHtml(fragment) ==
  \E n \in HtmlNode(got) :
    Edit(FoldLeft(LAMBDA acc, c : AppendClone(acc, n, c), DetachChildren(tree, n), fragment))

\* insert_html: each child of the fragment before the child that was first, then
\* its own children; or each at the end.
InsertHtml(fragment, prepend) ==
  \E n \in HtmlNode(got) :
    LET first == tree.kids[n]
        step(acc, c) ==
          IF ~prepend THEN AppendClone(acc, n, c)
          ELSE LET new == Len(acc.value) + 1
                   put == IF first = <<>> THEN Appended(acc, n, c.value)
                          ELSE Inserted(acc, n, Place(acc.kids[n], first[1]), c.value)
               IN  FoldLeft(LAMBDA a, g : AppendClone(a, new, g), put, c.kids)
    IN  Edit(FoldLeft(step, tree, fragment))

Prepend(fragment) == InsertHtml(fragment, TRUE)

AppendHtml(fragment) == InsertHtml(fragment, FALSE)

RemoveNode == \E n \in HtmlNode(got) : Edit(Detached(tree, n))

Change ==
  \/ \E name \in {"class", "id"}, w \in Words : SetAttr(name, w)
  \/ RemoveAttr("class")
  \/ \E w \in Words : AddClass(w[1]) \/ RemoveClass(w[1]) \/ SetText(w[1])
  \/ \E f \in Fragments : SetHtml(f) \/ Prepend(f) \/ AppendHtml(f)
  \/ RemoveNode

Init == Parse

Next == Navigate \/ MakeQuery \/ ReadId \/ ReadClasses \/ Change

Spec == Init /\ [][Next]_vars

(* Properties ----------------------------------------------------------------- *)

\* Around the element in hand: next and previous undo each other, siblings are the
\* other element children of the parent, and the pseudo-classes of the selectors
\* see the same neighbours as the imports do, text and comments between them or
\* not and whatever was inserted or removed (host_html.rs, selector.rs).
NeighboursAgree ==
  got.kind # "list" => \A n \in HeldElement :
    LET h == NodeOf(n)
        Is(name, arg) == MatchesPseudo(tree, n, [name |-> name, arg |-> arg])
        before == Len(Elements(tree, Preceding(tree, n)))
        after == Len(Elements(tree, Following(tree, n)))
    IN  /\ Next1(h) # None => Previous(Next1(h)) = h
        /\ Previous(h) # None => Next1(Previous(h)) = h
        /\ SiblingsOf(h) # None
             => ToSet(SiblingsOf(h).nodes) = ToSet(Children(Parent(h)).nodes) \ {n}
        /\ Is("first-child", 0) <=> Previous(h) = None
        /\ Is("last-child", 0) <=> Next1(h) = None
        /\ Is("only-child", 0) <=> before + after = 0
        /\ \A i \in 0 .. 3 : /\ Is("eq", i) <=> before = i
                             /\ Is("lt", i) <=> before < i
                             /\ Is("gt", i) <=> before > i
        /\ \A a \in -2 .. 2, b \in -1 .. 3 :
             /\ Is("nth-child", <<a, b>>) <=> \E k \in 0 .. 9 : before + 1 = a * k + b
             /\ Is("nth-last-child", <<a, b>>) <=> \E k \in 0 .. 9 : after + 1 = a * k + b

\* What a change writes is what the reads return afterwards: set_text and set_html
\* leave exactly the new content, prepend and append put the whole fragment before
\* or after the old children, a removed node keeps what is below it; and a class
\* that was added is there, and so is an id where none was, as long as nothing has
\* read the classes or the id of the element before (what was read once is what
\* every later read and query sees, whatever was changed since).  A node keeps its kind and
\* its name, and attr, which knows only the parser's names, its answer
\* (host_html.rs).
ChangesReadBack ==
  [][steps' # steps => \A n \in HtmlNode(got) :
       LET h == NodeOf(n)
           old == Shapes(tree, tree.kids[n])
           new == Shapes(tree', tree'.kids[n])
       IN  /\ \A w \in Words :
                /\ SetText(w[1]) =>
                     /\ new = <<[value |-> [kind |-> "text", text |-> w[1]], kids |-> <<>>]>>
                     /\ OwnText(h)' = <<w[1]>>
                     /\ IsElement(tree, n) => Text(h)' = {Data(h)'} /\ Data(h)' = <<w[1]>>
                /\ AddClass(w[1]) /\ tree.once[n].classes = {} => HasClass(h, w[1])' = 1
                /\ SetAttr("id", w) /\ HasAttr(h, "id") = 0 /\ tree.once[n].id = {} => Id(h)' = w
                /\ RemoveClass(w[1]) => ClassName(h)' \subseteq ClassName(h)
           /\ \A f \in Fragments : /\ SetHtml(f) => new = f /\ (IsElement(tree, n) => Html(h)' = f)
                                   /\ Prepend(f) => new = f \o old
                                   /\ AppendHtml(f) => new = old \o f
           /\ RemoveNode => new = old /\ tree'.up[n] = 0 /\ OuterHtml(h)' = OuterHtml(h)
           /\ Kind(h)' = Kind(h) /\ TagName(h)' = TagName(h) /\ Attr(h, "class")' = Attr(h, "class")]_vars

\* What a chain of compounds means: the last one matches the node, and each
\* combinator leads back to a node that matches the one before it; `+` leads to
\* the element directly before.
Below(n, root) == Contains(DescendantsOf(tree, root), n)

LeadsTo(comb, e, n) ==
  CASE comb = Child -> e = tree.up[n]
    [] comb = Descendant -> Below(n, e)
    [] comb = NextSibling -> Next1(NodeOf(e)) = NodeOf(n)
    [] comb = SubsequentSibling -> e # n /\ Contains(Preceding(tree, n), e)

RECURSIVE Means(_, _, _, _)
Means(chain, k, n, root) ==
  /\ MatchesCompound(tree, n, chain[k].compound)
  /\ IF k = 1 THEN Below(n, root)
     ELSE \E e \in Nodes(tree) : LeadsTo(chain[k].comb, e, n) /\ Means(chain, k - 1, e, root)

Adjacent(q) == \E i \in DOMAIN q : \E k \in DOMAIN q[i] : q[i][k].comb = NextSibling

SelectsItsMeaning(q) ==
  \A root \in HtmlNode(got) :
    LET found == Select(tree, root, q)
    IN  /\ \A n \in Nodes(tree) :
             Contains(found, n) <=> \E i \in DOMAIN q : q[i] # <<>> /\ Means(q[i], Len(q[i]), n, root)
        /\ \A i, j \in DOMAIN found : found[i] = found[j] => i = j

\* select finds, each once, exactly the nodes a query means, from any handle
\* and after any change (selector.rs): the queries without `+`.
SelectFindsAll ==
  got.kind # "list" => \A q \in Queries : ~Adjacent(q) => SelectsItsMeaning(q)
=============================================================================
