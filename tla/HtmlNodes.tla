----------------------------- MODULE HtmlNodes -----------------------------
(***************************************************************************)
(* The tree of a parsed document, as the html imports and the selectors    *)
(* see it: an arena of nodes that are never freed, each with its value and *)
(* the list of its children.  A node that was detached keeps its place in  *)
(* the arena and its own children (ego_tree, scraper).                     *)
(*                                                                         *)
(* A tree is [value, up, kids, once], sequences that give every node its   *)
(* value, its parent or 0, its children, and what was read of its id and   *)
(* classes; node 1 is the document.  Text is a sequence of words, where    *)
(* Blank stands for white space; an attribute is named by its namespace    *)
(* and its name.                                                           *)
(***************************************************************************)
EXTENDS Integers, Sequences, FiniteSets, SequencesExt

Root == 1
Blank == "blank"
Plain == ""       \* the namespace of the attributes the parser makes
Xhtml == "xhtml"  \* the namespace html5ever_qualname gives a name

Nodes(t) == 1 .. Len(t.value)

IsElement(t, n) == t.value[n].kind = "element"
IsText(t, n) == t.value[n].kind = "text"

Elements(t, s) == SelectSeq(s, LAMBDA n : IsElement(t, n))

FirstOf(s) == IF s = <<>> THEN <<>> ELSE <<s[1]>>

Place(s, n) == CHOOSE i \in DOMAIN s : s[i] = n

\* The nodes under n in document order, without n.
RECURSIVE DescendantsOf(_, _)
DescendantsOf(t, n) ==
  FlattenSeq([i \in DOMAIN t.kids[n] |-> <<t.kids[n][i]>> \o DescendantsOf(t, t.kids[n][i])])

\* The siblings of n after it, and before it, in document order.
Siblings(t, n) ==
  IF t.up[n] = 0 THEN <<n>> ELSE t.kids[t.up[n]]

Following(t, n) == LET s == Siblings(t, n) IN SubSeq(s, Place(s, n) + 1, Len(s))

Preceding(t, n) == LET s == Siblings(t, n) IN SubSeq(s, 1, Place(s, n) - 1)

\* Every text below an element, in document order.
TextOf(t, n) ==
  LET texts == SelectSeq(DescendantsOf(t, n), LAMBDA d : IsText(t, d))
  IN  [i \in DOMAIN texts |-> t.value[texts[i]].text]

NonBlank(words) == SelectSeq(words, LAMBDA w : w # Blank)

\* Element::attr looks a name up among the parsed names.
HasAttribute(t, n, name) == <<Plain, name>> \in DOMAIN t.value[n].attrs
Attribute(t, n, name) == t.value[n].attrs[<<Plain, name>>]

\* What the attributes say of classes and id, which go by the name alone; the
\* classes are a set.
ClassesFound(t, n) ==
  UNION {ToSet(t.value[n].attrs[k]) : k \in {k \in DOMAIN t.value[n].attrs : k[2] = "class"}}

IdFound(t, n) ==
  LET keys == {<<Plain, "id">>, <<Xhtml, "id">>} \cap DOMAIN t.value[n].attrs
  IN  IF keys = {} THEN <<>>
      ELSE t.value[n].attrs[IF <<Plain, "id">> \in keys THEN <<Plain, "id">> ELSE <<Xhtml, "id">>]

\* Element::classes and Element::id look at the attributes once and answer the
\* same ever after.  once[n] holds what was found: {} before the first read.
NothingRead == [id |-> {}, classes |-> {}]

ClassesOf(t, n) ==
  IF t.once[n].classes = {} THEN ClassesFound(t, n) ELSE CHOOSE c \in t.once[n].classes : TRUE

IdOf(t, n) == IF t.once[n].id = {} THEN IdFound(t, n) ELSE CHOOSE i \in t.once[n].id : TRUE

\* The tree after the reads in the set, each [node, of |-> "id" or "classes"].
AfterReads(t, reads) ==
  [t EXCEPT !.once =
     [n \in DOMAIN t.once |->
        [id |-> IF [node |-> n, of |-> "id"] \in reads THEN {IdOf(t, n)} ELSE t.once[n].id,
         classes |-> IF [node |-> n, of |-> "classes"] \in reads THEN {ClassesOf(t, n)}
                     ELSE t.once[n].classes]]]

\* A subtree by itself: what a serialisation of it shows.
RECURSIVE Shape(_, _)
Shape(t, n) ==
  [value |-> t.value[n], kids |-> [i \in DOMAIN t.kids[n] |-> Shape(t, t.kids[n][i])]]

Shapes(t, s) == [i \in DOMAIN s |-> Shape(t, s[i])]

Detached(t, n) ==
  IF t.up[n] = 0 THEN t
  ELSE [t EXCEPT !.up[n] = 0, !.kids[t.up[n]] = SelectSeq(@, LAMBDA c : c # n)]

\* A new child of p, at place i among its children.
Inserted(t, p, i, v) ==
  [value |-> Append(t.value, v),
   up |-> Append(t.up, p),
   once |-> Append(t.once, NothingRead),
   kids |-> Append([t.kids EXCEPT ![p] = InsertAt(@, i, Len(t.value) + 1)], <<>>)]

Appended(t, p, v) == Inserted(t, p, Len(t.kids[p]) + 1, v)
=============================================================================
