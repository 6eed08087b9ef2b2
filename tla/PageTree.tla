------------------------------ MODULE PageTree ------------------------------
(***************************************************************************)
(* The tree the custom_page adapter makes of a careers page, and what      *)
(* selectors and text() find in it.  The page comes as a sequence of       *)
(* tokens; a node is known by the position of its token, and the root by   *)
(* 0.  Elements that HTML never closes (br, img, ...) and elements left    *)
(* open stay on the stack until an element around them ends.               *)
(***************************************************************************)
EXTENDS Naturals, FiniteSets, Sequences, SequencesExt

CONSTANTS Tags,      \* tags of elements that are closed
          Void,      \* tags of elements that are not
          MaxTokens  \* bound on the length of a page

ASSUME TagsAssumption == Tags \cap Void = {}

VARIABLES page,   \* the tokens so far, [kind, tag]
          up,     \* the parent of each element and text
          stack   \* the open elements

treevars == <<page, up, stack>>

Document == "document"

TreeInit ==
    /\ page = <<>>
    /\ up = [k \in {} |-> 0]
    /\ stack = <<0>>

Here == Len(page) + 1

(* handle_data appends to the open element, handle_starttag to its children. *)
Add(kind, tag) ==
    /\ Len(page) < MaxTokens
    /\ page' = Append(page, [kind |-> kind, tag |-> tag])
    /\ up' = [k \in DOMAIN up \cup {Here} |-> IF k = Here THEN stack[Len(stack)] ELSE up[k]]

(* What stays of a stack when its elements from the innermost open one on  *)
(* are closed.                                                             *)
Below(s, open) == SubSeq(s, 1, Cardinality({n \in DOMAIN s : \E m \in open : n < m}))

(* Variant, wrong: the root is among the elements an end tag looks at.     *)
ClosedToRoot(s, tagOf, tag) ==
    LET open == {n \in DOMAIN s : tagOf[s[n]] = tag}
    IN  IF open = {} THEN s ELSE Below(s, open)

(* Variant, wrong: an end tag only closes the innermost element.           *)
ClosedInnermost(s, tagOf, tag) ==
    LET open == {n \in {Len(s)} \ {1} : tagOf[s[n]] = tag}
    IN  IF open = {} THEN s ELSE Below(s, open)

(* handle_endtag: the innermost element of the tag and all it holds close. *)
Closed(s, tagOf, tag) ==
    LET open == {n \in 2 .. Len(s) : tagOf[s[n]] = tag}
    IN  IF open = {} THEN s ELSE Below(s, open)

TagOf == [k \in 0 .. Len(page) |-> IF k = 0 THEN Document ELSE page[k].tag]

StartTag(tag) ==
    /\ Add("start", tag)
    /\ stack' = Append(stack, Here)

(* <br/>: HTMLParser.handle_startendtag calls both handlers.               *)
StartEndTag(tag) ==
    /\ Add("empty", tag)
    /\ stack' = Closed(Append(stack, Here), TagOf', tag)

EndTag(tag) ==
    /\ Len(page) < MaxTokens
    /\ page' = Append(page, [kind |-> "end", tag |-> tag])
    /\ stack' = Closed(stack, TagOf, tag)
    /\ UNCHANGED up

Data ==
    /\ Add("data", "#text")
    /\ UNCHANGED stack

TreeNext ==
    \/ \E tag \in Tags \cup Void : StartTag(tag) \/ StartEndTag(tag)
    \/ \E tag \in Tags : EndTag(tag)
    \/ Data

TreeSpec == TreeInit /\ [][TreeNext]_treevars
-----------------------------------------------------------------------------
(* Looking things up                                                       *)

IsText(k) == k > 0 /\ page[k].kind = "data"
Elements == {k \in DOMAIN up : ~IsText(k)}
InOrder(S) == FlattenSeq([n \in 1 .. Here |-> IF n - 1 \in S THEN <<n - 1>> ELSE <<>>])

(* Variant, wrong: an element comes after what its children find.          *)
FindAllInsideOut(selector) ==
    LET find[k \in 0 .. Len(page)] ==
            LET children == InOrder({c \in Elements : up[c] = k})
            IN  FlattenSeq([n \in DOMAIN children |-> find[children[n]]])
                \o (IF TagOf[k] = selector THEN <<k>> ELSE <<>>)
    IN  find

(* find_all, of every node: itself, then what each child finds.            *)
FindAll(selector) ==
    LET find[k \in 0 .. Len(page)] ==
            LET children == InOrder({c \in Elements : up[c] = k})
            IN  (IF TagOf[k] = selector THEN <<k>> ELSE <<>>)
                \o FlattenSeq([n \in DOMAIN children |-> find[children[n]]])
    IN  find

(* Variant, wrong: the texts of the children come first.                   *)
TextInsideOut ==
    LET text[k \in 0 .. Len(page)] ==
            LET children == InOrder({c \in Elements : up[c] = k})
            IN  FlattenSeq([n \in DOMAIN children |-> text[children[n]]])
                \o InOrder({d \in DOMAIN up : IsText(d) /\ up[d] = k})
    IN  text

(* text(), of every node: its own texts, then those of each child.         *)
Text ==
    LET text[k \in 0 .. Len(page)] ==
            LET children == InOrder({c \in Elements : up[c] = k})
            IN  InOrder({d \in DOMAIN up : IsText(d) /\ up[d] = k})
                \o FlattenSeq([n \in DOMAIN children |-> text[children[n]]])
    IN  text
-----------------------------------------------------------------------------
(* Properties                                                              *)

(* The open elements are a path from the root, which no end tag closes,    *)
(* not even </document>: there is always an element to append to.  Parents *)
(* come before their children, so find_all and text() end.                 *)
StackIsPath ==
    /\ stack # <<>>
    /\ stack[1] = 0
    /\ \A n \in 2 .. Len(stack) : up[stack[n]] = stack[n - 1]
    /\ \A k \in DOMAIN up : up[k] < k

(* A node and the nodes around it                                          *)
Around[k \in {0} \cup DOMAIN up] == {k} \cup (IF k = 0 THEN {} ELSE Around[up[k]])

(* Where to begin so that the tokens up to j are texts, elements that need *)
(* no end, and elements with their ends                                    *)
WellFormed[j \in 0 .. Len(page)] ==
    {i \in 1 .. Here :
        \/ i > j
        \/ /\ \/ page[j].kind \in {"data", "empty"}
              \/ page[j].kind = "start" /\ page[j].tag \in Void
           /\ i \in WellFormed[j - 1]
        \/ /\ page[j].kind = "end"
           /\ \E m \in i .. j - 1 :
                 /\ page[m] = [kind |-> "start", tag |-> page[j].tag]
                 /\ i \in WellFormed[m - 1]
                 /\ m + 1 \in WellFormed[j - 1]}

(* An element whose content is well formed holds just what is between its  *)
(* tags, whatever is left open around it or never closed within.           *)
NestingIsRespected ==
    \A i, j \in DOMAIN page :
        /\ i < j
        /\ page[i].kind = "start" /\ page[i].tag \in Tags
        /\ page[j] = [kind |-> "end", tag |-> page[i].tag]
        /\ i + 1 \in WellFormed[j - 1]
        => \A k \in DOMAIN up : i \in Around[k] <=> i <= k /\ k < j

(* A selector finds the elements in the order of the page, so the first    *)
(* that select_one takes is the one that comes first, however pages nest.  *)
FoundInPageOrder ==
    \A selector \in Tags :
        LET found == FindAll(selector)
            matching == {k \in {0} \cup Elements : TagOf[k] = selector}
        IN  \A k \in {0} \cup Elements :
               found[k] = InOrder({l \in matching : k \in Around[l]})

(* text() has every text inside an element once, and in the order of the   *)
(* page unless some text follows an element within the same parent.        *)
TextIsComplete ==
    LET found == Text
        texts == {d \in DOMAIN up : IsText(d)}
        mixed == {d \in texts : \E c \in Elements : c < d /\ up[c] = up[d]}
    IN  \A k \in {0} \cup Elements :
           LET inside == {d \in texts : k \in Around[d]} IN
           /\ Len(found[k]) = Cardinality(inside)
           /\ {found[k][n] : n \in DOMAIN found[k]} = inside
           /\ inside \cap mixed = {} => found[k] = InOrder(inside)
=============================================================================
