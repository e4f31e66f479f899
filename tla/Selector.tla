------------------------------ MODULE Selector ------------------------------
(***************************************************************************)
(* The selector engine of selector.rs, over the trees of HtmlNodes.  A     *)
(* query is a sequence of tokens [kind, parts]: a comma, white space, a    *)
(* combinator, or a compound given by its parts.  The scanning of          *)
(* characters into tokens is left out, and so is the case of letters; of   *)
(* the tests inside a word (`*=`, `|=`, a regular expression, a name that  *)
(* only begins as asked) there is nothing left to tell.                    *)
(***************************************************************************)
EXTENDS HtmlNodes

(* Parsing ----------------------------------------------------------------- *)

Descendant == " "
Child == ">"
NextSibling == "+"
SubsequentSibling == "~"
Combinators == {Child, NextSibling, SubsequentSibling}

RECURSIVE ParseGroups(_)

\* The short names are the long ones.  The query in :has, :not or :is is parsed
\* here once, and not at every match.
BuildPseudo(p) ==
  [name |-> CASE p.name = "first" -> "first-child"
              [] p.name = "last" -> "last-child"
              [] p.name = "icontains" -> "contains"
              [] OTHER -> p.name,
   arg |-> IF p.name \in {"has", "not", "is"} THEN ParseGroups(p.arg) ELSE p.arg]

\* The parts of a compound: [part |-> "tag" | "id" | "class" | "attr" | "pseudo",
\* ...].  A later tag or id replaces an earlier one; the rest adds up.
ParseCompound(parts) ==
  FoldLeft(LAMBDA c, p :
    CASE p.part = "tag" -> [c EXCEPT !.tag = {p.name}]
      [] p.part = "id" -> [c EXCEPT !.id = {p.name}]
      [] p.part = "class" -> [c EXCEPT !.classes = @ \cup {p.name}]
      [] p.part = "attr" -> [c EXCEPT !.attrs = Append(@, p)]
      [] p.part = "pseudo" -> [c EXCEPT !.pseudos = Append(@, BuildPseudo(p))],
    [tag |-> {}, id |-> {}, classes |-> {}, attrs |-> <<>>, pseudos |-> <<>>], parts)

\* The groups between commas; a last one that is empty counts only alone.
SplitTopLevel(tokens) ==
  LET r == FoldLeft(LAMBDA acc, x : IF x.kind = "," THEN [out |-> Append(acc.out, acc.cur), cur |-> <<>>]
                                    ELSE [acc EXCEPT !.cur = Append(@, x)],
                    [out |-> <<>>, cur |-> <<>>], tokens)
  IN  IF r.out = <<>> \/ \E i \in DOMAIN r.cur : r.cur[i].kind # " " THEN Append(r.out, r.cur) ELSE r.out

\* A combinator replaces the white space around it: white space is one only
\* directly after a compound.
ParseChain(tokens) ==
  LET step(acc, x) ==
        IF x.kind \in Combinators THEN [acc EXCEPT !.pending = x.kind, !.open = FALSE]
        ELSE IF x.kind = " " THEN IF acc.open THEN [acc EXCEPT !.pending = Descendant, !.open = FALSE] ELSE acc
        ELSE [chain |-> Append(acc.chain, [comb |-> acc.pending, compound |-> ParseCompound(x.parts)]),
              pending |-> acc.pending, open |-> TRUE]
  IN  FoldLeft(step, [chain |-> <<>>, pending |-> Descendant, open |-> FALSE], tokens).chain

ParseGroups(tokens) == LET gs == SplitTopLevel(tokens) IN [i \in DOMAIN gs |-> ParseChain(gs[i])]

(* Matching ---------------------------------------------------------------- *)

\* own_text of the selectors: its own texts, without the blank ones.
OwnWords(t, n) ==
  LET texts == SelectSeq(t.kids[n], LAMBDA c : IsText(t, c))
  IN  NonBlank([i \in DOMAIN texts |-> t.value[texts[i]].text])

TextContent(t, n) == TextOf(t, n)

ElementSiblingsAny(t, n) == Elements(t, Siblings(t, n))

ElementSiblingsSameTag(t, n) ==
  SelectSeq(ElementSiblingsAny(t, n), LAMBDA s : t.value[s].tag = t.value[n].tag)

SiblingIndex(t, n) == Place(ElementSiblingsAny(t, n), n) - 1

\* (index - b) is a multiple of a in the direction of a.
MatchesNth(a, b, index) ==
  IF a = 0 THEN index = b
  ELSE LET diff == index - b
       IN  IF a > 0 THEN diff >= 0 /\ diff % a = 0 ELSE diff <= 0 /\ (-diff) % (-a) = 0

\* Values are words or lists of words; `~=` on the class goes by the classes.
MatchesAttr(t, n, sel) ==
  LET there == HasAttribute(t, n, sel.name)
      value == Attribute(t, n, sel.name)
  IN  CASE sel.op = "any" -> DOMAIN t.value[n].attrs # {}
        [] sel.op = "exists" -> there
        [] sel.op = "=" -> there /\ value = sel.value
        [] sel.op = "!=" -> there => value # sel.value
        [] sel.op = "^=" -> there /\ IsPrefix(sel.value, value)
        [] sel.op = "$=" -> there /\ IsSuffix(sel.value, value)
        [] sel.op = "~=" -> IF sel.name = "class" THEN sel.value[1] \in ClassesOf(t, n)
                            ELSE there /\ Contains(value, sel.value[1])

\* Of the groups of :not and :is only those of one compound can match; :has
\* searches below the node.
RECURSIVE MatchesCompound(_, _, _), Select(_, _, _)

MatchesAnyGroup(t, n, gs) ==
  \E i \in DOMAIN gs : Len(gs[i]) = 1 /\ MatchesCompound(t, n, gs[i][1].compound)

NthPlace(s, n, fromEnd) == IF fromEnd THEN Len(s) - Place(s, n) + 1 ELSE Place(s, n)

MatchesPseudo(t, n, p) ==
  LET any == ElementSiblingsAny(t, n)
      same == ElementSiblingsSameTag(t, n)
  IN  CASE p.name = "empty" ->
             \A c \in ToSet(t.kids[n]) : ~IsElement(t, c) /\ (IsText(t, c) => t.value[c].text = Blank)
        [] p.name = "blank" -> NonBlank(TextContent(t, n)) = <<>>
        [] p.name = "first-child" -> any[1] = n
        [] p.name = "last-child" -> Last(any) = n
        [] p.name = "only-child" -> Len(any) = 1
        [] p.name = "first-of-type" -> same[1] = n
        [] p.name = "last-of-type" -> Last(same) = n
        [] p.name = "only-of-type" -> Len(same) = 1
        [] p.name = "nth-child" -> MatchesNth(p.arg[1], p.arg[2], NthPlace(any, n, FALSE))
        [] p.name = "nth-last-child" -> MatchesNth(p.arg[1], p.arg[2], NthPlace(any, n, TRUE))
        [] p.name = "nth-of-type" -> MatchesNth(p.arg[1], p.arg[2], NthPlace(same, n, FALSE))
        [] p.name = "nth-last-of-type" -> MatchesNth(p.arg[1], p.arg[2], NthPlace(same, n, TRUE))
        [] p.name = "contains" -> Contains(TextContent(t, n), p.arg)
        [] p.name = "containsOwn" -> Contains(OwnWords(t, n), p.arg)
        [] p.name = "has" -> Select(t, n, p.arg) # <<>>
        [] p.name = "not" -> ~MatchesAnyGroup(t, n, p.arg)
        [] p.name = "is" -> MatchesAnyGroup(t, n, p.arg)
        [] p.name = "eq" -> SiblingIndex(t, n) = p.arg
        [] p.name = "lt" -> SiblingIndex(t, n) < p.arg
        [] p.name = "gt" -> SiblingIndex(t, n) > p.arg

MatchesCompound(t, n, c) ==
  /\ IsElement(t, n)
  /\ c.tag \subseteq {t.value[n].tag}
  /\ \A i \in c.id : IdOf(t, n) = <<i>>
  /\ c.classes \subseteq ClassesOf(t, n)
  /\ \A i \in DOMAIN c.attrs : MatchesAttr(t, n, c.attrs[i])
  /\ \A i \in DOMAIN c.pseudos : MatchesPseudo(t, n, c.pseudos[i])

\* What testing a compound on a node reads of ids and classes: the tests are
\* made in the order above, up to the first that fails.
RECURSIVE CompoundReads(_, _, _), SelectReads(_, _, _)

PseudoReads(t, n, p) ==
  CASE p.name = "has" -> SelectReads(t, n, p.arg)
    [] p.name \in {"not", "is"} ->
         LET tried == {i \in DOMAIN p.arg : Len(p.arg[i]) = 1 /\ ~MatchesAnyGroup(t, n, SubSeq(p.arg, 1, i - 1))}
         IN  UNION {CompoundReads(t, n, p.arg[i][1].compound) : i \in tried}
    [] OTHER -> {}

CompoundReads(t, n, c) ==
  LET passed == [c EXCEPT !.attrs = <<>>, !.pseudos = <<>>]
      upTo(i) == [passed EXCEPT !.attrs = SubSeq(c.attrs, 1, i - 1)]
      before(i) == [c EXCEPT !.pseudos = SubSeq(c.pseudos, 1, i - 1)]
      byClass == /\ c.classes # {}
                 /\ MatchesCompound(t, n, [passed EXCEPT !.classes = {}])
      byAttr == \E i \in DOMAIN c.attrs :
                  c.attrs[i].op = "~=" /\ c.attrs[i].name = "class" /\ MatchesCompound(t, n, upTo(i))
      byId == c.id # {} /\ MatchesCompound(t, n, [passed EXCEPT !.classes = {}, !.id = {}])
  IN  {[node |-> n, of |-> "id"] : x \in {x \in {n} : byId}}
      \cup {[node |-> n, of |-> "classes"] : x \in {x \in {n} : byClass \/ byAttr}}
      \cup UNION {PseudoReads(t, n, c.pseudos[i]) :
                    i \in {i \in DOMAIN c.pseudos : MatchesCompound(t, n, before(i))}}

DirectChildren(t, n) == t.kids[n]

\* Mutant: the siblings before it as well.
AllSiblingsAround(t, n) == Siblings(t, n)

AllFollowingSiblings(t, n) == Following(t, n)

\* The next node, of whatever kind.
NextSiblings(t, n) == FirstOf(Following(t, n))

Related(t, comb, n) ==
  CASE comb = Child -> DirectChildren(t, n)
    [] comb = Descendant -> DescendantsOf(t, n)
    [] comb = NextSibling -> NextSiblings(t, n)
    [] comb = SubsequentSibling -> AllFollowingSiblings(t, n)

\* The first compound is looked for below the root whatever its combinator.
SelectChain(t, root, chain) ==
  IF chain = <<>> THEN {}
  ELSE LET step(found, link) ==
             {r \in UNION {ToSet(Related(t, link.comb, n)) : n \in found} : MatchesCompound(t, r, link.compound)}
       IN  FoldLeft(step, {n \in ToSet(DescendantsOf(t, root)) : MatchesCompound(t, n, chain[1].compound)},
                    Tail(chain))

\* What selecting reads: every compound is tested on all it is led to.
SelectReads(t, root, gs) ==
  LET led(chain, k) ==
        IF k = 1 THEN ToSet(DescendantsOf(t, root))
        ELSE UNION {ToSet(Related(t, chain[k].comb, n)) : n \in SelectChain(t, root, SubSeq(chain, 1, k - 1))}
  IN  UNION {UNION {UNION {CompoundReads(t, n, gs[i][k].compound) : n \in led(gs[i], k)} :
                     k \in DOMAIN gs[i]} : i \in DOMAIN gs}

\* What any group selects, in document order.
Select(t, root, gs) ==
  LET all == UNION {SelectChain(t, root, gs[i]) : i \in DOMAIN gs}
  IN  SelectSeq(DescendantsOf(t, root), LAMBDA n : n \in all)

SelectFirst(t, root, gs) == FirstOf(Select(t, root, gs))
=============================================================================
